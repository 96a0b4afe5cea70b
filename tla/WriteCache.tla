-------------------------------- MODULE WriteCache --------------------------------
(***************************************************************************)
(* The isolation layer of lib/versioning/WriteCache.ts on top of the       *)
(* write-gathering manager. A versioning update reads the master key,      *)
(* computes, and writes; the write cache is to make such updates atomic by *)
(* keeping the value being written, and by queueing the reads that miss.   *)
(*                                                                         *)
(* One key is modelled, the master key of one object: it is the only key   *)
(* that is ever read through the cache. A value is the request that wrote  *)
(* it. The callback of a read runs synchronously and, depending on Kind,   *)
(*   "update"  writes the key (a versioning update of the master),         *)
(*   "read"    writes nothing to the key (a version older than the master) *)
(* while "put" and "del" requests write without reading first.             *)
(***************************************************************************)
EXTENDS WriteGathering

CONSTANTS
    Kind,           \* Kind[r] \in {"update", "read", "put", "del"}
    NoValue,        \* the key does not exist
    Initial         \* the value of the key to begin with

ASSUME KindAssumption ==
    /\ Kind \in [Requests -> {"update", "read", "put", "del"}]
    /\ {NoValue, Initial} \cap Requests = {}

VARIABLES
    cache,          \* cache[cacheKey]: <<>> or <<[signature, value]>>
    queue,          \* queue[cacheKey]: <<>> or <<[signature, callbacks]>>
    counter,        \* source of the signatures
    dbGets          \* external: the wgm.get() calls in progress

wcVars == <<wgVars, cache, queue, counter, dbGets>>

Values == Requests \cup {NoValue, Initial}

ValueOf(r) == IF Kind[r] = "del" THEN NoValue ELSE r

WcInit ==
    /\ WgInit
    /\ cache = <<>>
    /\ queue = <<>>
    /\ counter = 0
    /\ dbGets = {}

IsCalled(r) ==
    \/ \E i \in DOMAIN submitted : submitted[i] = r
    \/ queue # <<>> /\ \E i \in DOMAIN queue[1].callbacks : queue[1].callbacks[i] = r
    \/ replies[r] # <<>>

----------------------------------------------------------------------------
(* What one turn of the event loop does to the cache. A turn is a record   *)
(* [cache, counter, out, done]: out is what it hands to wgm.batch(), done  *)
(* are the reads it answers without a write.                               *)

\* An operation on the key as the write-gathering manager stores it. The
\* field over is the value the writer computed it from.
Write(r, over, signature) ==
    <<[req |-> r, index |-> 1, value |-> ValueOf(r), over |-> over, signature |-> signature]>>

\* batch() called by the callback of a read: _cacheWrite(), whose _dequeue()
\* finds either no queue or the lock of the dequeueing, then wgm.batch().
NestedBatch(turn, r, over) ==
    [turn EXCEPT
        !.cache   = <<[signature |-> turn.counter, value |-> ValueOf(r)]>>,
        !.counter = @ + 1,
        !.out     = @ \o Write(r, over, turn.counter)]

\* The callback of the read of r. Without an error it sees the cached value;
\* to a versioning update, ObjNotFound means that there is no master, and any
\* other error ends it.
Callback(turn, r, err) ==
    IF Kind[r] = "update" /\ err # "other"
    THEN NestedBatch(turn, r, IF err = "notFound" THEN NoValue ELSE turn.cache[1].value)
    ELSE [turn EXCEPT !.done = @ \cup {r}]

\* forEach() over the queued reads, each of which sees what those before it left.
CallAll(begin, reads, err) ==
    LET run[i \in 0..Len(reads)] ==
            IF i = 0 THEN begin ELSE Callback(run[i - 1], reads[i], err)
    IN  run[Len(reads)]

\* Mutant: the cached value is always dropped at the end of the dequeueing.
DequeueDropsWrite(turn, value, err) ==
    LET begin == [turn EXCEPT !.cache = <<[signature |-> turn.counter, value |-> value]>>,
                              !.counter = @ + 1]
    IN  [CallAll(begin, queue[1].callbacks, err) EXCEPT !.cache = <<>>]

\* _dequeue(): answer the queued reads from the cache, or all of them with the
\* error of the database, then drop the cached value unless one has written.
Dequeue(turn, value, err) ==
    LET mark  == turn.counter
        begin == [turn EXCEPT !.cache = <<[signature |-> mark, value |-> value]>>,
                              !.counter = mark + 1]
        end   == CallAll(begin, queue[1].callbacks, err)
    IN  IF end.cache[1].signature = mark THEN [end EXCEPT !.cache = <<>>] ELSE end

Turn == [cache |-> cache, counter |-> counter, out |-> <<>>, done |-> {}]

\* The turn ends: its writes are in the batch of the manager, in the order of
\* the wgm.batch() calls.
Finish(turn) ==
    /\ cache' = turn.cache
    /\ counter' = turn.counter
    /\ IF turn.out # <<>> THEN WgAppend(turn.out) ELSE UNCHANGED <<batchCache, timer>>
    /\ submitted' = submitted \o [i \in DOMAIN turn.out |-> turn.out[i].req]
    /\ replies' = [r \in Requests |->
                     IF r \in turn.done THEN Append(replies[r], "ok") ELSE replies[r]]
    /\ UNCHANGED <<inFlight, applied, dbLog>>

----------------------------------------------------------------------------
(* The reads.                                                              *)

IsRead(r) == Kind[r] \in {"read", "update"}

\* get() finds the key in the cache.
GetCached(r) ==
    /\ IsRead(r) /\ ~IsCalled(r)
    /\ cache # <<>>
    /\ Finish(Callback(Turn, r, "none"))
    /\ UNCHANGED <<queue, dbGets>>

\* get() misses the cache while another read of the key is in progress.
GetQueued(r) ==
    /\ IsRead(r) /\ ~IsCalled(r)
    /\ cache = <<>>
    /\ queue # <<>>
    /\ queue' = <<[queue[1] EXCEPT !.callbacks = Append(@, r)]>>
    /\ UNCHANGED <<wgVars, cache, counter, dbGets>>

\* get() misses the cache and asks the database.
GetFromDb(r) ==
    /\ IsRead(r) /\ ~IsCalled(r)
    /\ cache = <<>>
    /\ queue = <<>>
    /\ queue' = <<[signature |-> counter, callbacks |-> <<r>>]>>
    /\ dbGets' = dbGets \cup {[signature |-> counter, read |-> FALSE, value |-> NoValue]}
    /\ UNCHANGED <<wgVars, cache, counter>>

Stored == IF dbLog = <<>> THEN Initial ELSE dbLog[Len(dbLog)].value

\* External: the database reads the key for a get in progress.
DbRead(g) ==
    /\ ~g.read
    /\ dbGets' = (dbGets \ {g}) \cup {[g EXCEPT !.read = TRUE, !.value = Stored]}
    /\ UNCHANGED <<wgVars, cache, queue, counter>>

\* The callback of wgm.get(): it is ignored when the queue it was issued for
\* has been answered by a write in the meantime. The database reports a key
\* that does not exist as the error ObjNotFound.
DbGetDone(g, failed) ==
    /\ g.read
    /\ dbGets' = dbGets \ {g}
    /\ IF queue # <<>> /\ queue[1].signature = g.signature
       THEN /\ Finish(IF failed THEN Dequeue(Turn, NoValue, "other")
                      ELSE IF g.value = NoValue THEN Dequeue(Turn, NoValue, "notFound")
                      ELSE Dequeue(Turn, g.value, "none"))
            /\ queue' = <<>>
       ELSE UNCHANGED <<wgVars, cache, queue, counter>>

----------------------------------------------------------------------------
(* The writes.                                                             *)

\* Mutant: a write drops the queued reads instead of answering them.
BlindBatchDropsQueue(r) ==
    /\ ~IsRead(r) /\ ~IsCalled(r)
    /\ LET written == [Turn EXCEPT
                         !.cache   = <<[signature |-> counter, value |-> ValueOf(r)]>>,
                         !.counter = @ + 1]
       IN  Finish([written EXCEPT !.out = @ \o Write(r, NoValue, counter)])
    /\ queue' = <<>>
    /\ UNCHANGED dbGets

\* batch() called outside of a callback: _cacheWrite() answers the queued
\* reads with the new value before the operation itself reaches the manager.
BlindBatch(r) ==
    /\ ~IsRead(r) /\ ~IsCalled(r)
    /\ LET written == [Turn EXCEPT
                         !.cache   = <<[signature |-> counter, value |-> ValueOf(r)]>>,
                         !.counter = @ + 1]
           turn    == IF queue = <<>> THEN written ELSE Dequeue(written, ValueOf(r), "none")
       IN  Finish([turn EXCEPT !.out = @ \o Write(r, NoValue, counter)])
    /\ queue' = <<>>
    /\ UNCHANGED dbGets

\* Mutant: _cacheClear() does not compare the signatures.
CacheClearAnySignature(Batches) == cache' = <<>>

\* _cacheClear(), for the writes of the batches that were answered.
CacheClear(Batches) ==
    cache' = IF /\ cache # <<>>
                /\ \E b \in Batches : \E i \in DOMAIN b : b[i].signature = cache[1].signature
             THEN <<>> ELSE cache

WcCommitDone ==
    /\ CommitDone
    /\ CacheClear({inFlight[1]})
    /\ UNCHANGED <<queue, counter, dbGets>>

WcCommitFailed ==
    /\ CommitFailed
    /\ CacheClear({inFlight[1]} \cup {batchCache[i] : i \in DOMAIN batchCache})
    /\ UNCHANGED <<queue, counter, dbGets>>

\* The steps of the manager and of the database that the cache does not see.
WgBackground ==
    /\ CommitOnTimeout \/ DeferOnTimeout \/ DbApply
    /\ UNCHANGED <<cache, queue, counter, dbGets>>

WcNext ==
    \/ \E r \in Requests : GetCached(r) \/ GetQueued(r) \/ GetFromDb(r) \/ BlindBatch(r)
    \/ \E g \in dbGets : DbRead(g) \/ \E failed \in BOOLEAN : DbGetDone(g, failed)
    \/ WcCommitDone
    \/ WcCommitFailed
    \/ WgBackground

\* Timers fire and the database answers.
WcFairness ==
    /\ WF_wcVars(WgBackground)
    /\ WF_wcVars(WcCommitDone \/ WcCommitFailed)
    /\ WF_wcVars(\E g \in dbGets : DbRead(g) \/ \E failed \in BOOLEAN : DbGetDone(g, failed))

WcSafety == WcInit /\ [][WcNext]_wcVars
WcSpec == WcSafety /\ WcFairness

----------------------------------------------------------------------------
(* Properties.                                                             *)

\* The key has at most one cached value and one queue of reads.
WcTypeOK ==
    /\ cache \in Seq([signature : Nat, value : Values]) /\ Len(cache) <= 1
    /\ queue \in Seq([signature : Nat, callbacks : Seq(Requests)]) /\ Len(queue) <= 1
    /\ counter \in Nat
    /\ dbGets \subseteq [signature : Nat, read : BOOLEAN, value : Values]

\* The writes to the key that are not in the database yet, in commit order.
Outstanding ==
    (IF inFlight # <<>> /\ ~applied THEN inFlight[1] ELSE <<>>)
        \o (IF batchCache # <<>> THEN batchCache[1] ELSE <<>>)

\* Nothing has written the key without having read it through the cache.
OnlyUpdates == \A r \in Requests : IsCalled(r) => IsRead(r)

\* "This layer ensures that there are no other concurrent operations changing
\* the value of the target object between these steps", as WriteCache says of
\* an update: it was computed from the very value it replaces, also when puts
\* and deletes write the object at the same time.
WritesAreIsolated ==
    LET history == dbLog \o Outstanding
    IN  \A i \in DOMAIN history :
          Kind[history[i].req] = "update" =>
            history[i].over = IF i = 1 THEN Initial ELSE history[i - 1].value

\* What holds of it: updates are isolated from each other, whatever the
\* interleaving of reads, writes, late answers and failed commits.
UpdatesAreIsolated == OnlyUpdates => WritesAreIsolated

\* "the next update (which comes while WriteCache is writing) [is] able to see
\* the latest value": while an update of the key is on its way to the database,
\* the cache holds the value of the last one.
CacheHoldsLatestWrite ==
    OnlyUpdates /\ Outstanding # <<>> =>
        /\ cache # <<>>
        /\ cache[1].value = Outstanding[Len(Outstanding)].value

\* "This cached entry remains only until the write is done": a cached value
\* whose write has ended would be served for ever in place of the database's.
NoOrphanCacheEntry ==
    cache # <<>> =>
        \E b \in {inFlight[i] : i \in DOMAIN inFlight} \cup {batchCache[i] : i \in DOMAIN batchCache} :
            \E i \in DOMAIN b : b[i].signature = cache[1].signature

\* The two together: between the first write of a key and the end of the last one the
\* cache has its latest value, and afterwards the key is read from the database again.
CacheIsCurrent == CacheHoldsLatestWrite /\ NoOrphanCacheEntry

\* Every read and every write is called back in the end, also when the read
\* it waited for is overtaken by a write.
CallAnswered(r) == IsCalled(r) ~> replies[r] # <<>>
================================================================================
