------------------------------ MODULE WriteGathering ------------------------------
(***************************************************************************)
(* The write-gathering manager of lib/versioning/WriteGatheringManager.ts: *)
(* it gathers the operations that callers submit for one database during   *)
(* WG_TIMEOUT milliseconds and commits them as one batch, never two        *)
(* batches of a database at a time.                                        *)
(*                                                                         *)
(* One database is modelled: dbState[db] of two databases share nothing.   *)
(* An operation is an entry [req, index]: what it writes does not matter   *)
(* here, only which request it belongs to and its position, because the    *)
(* caller's callback is attached to the entry at index 1 (index 0 in the   *)
(* code) and to no other.                                                  *)
(***************************************************************************)
EXTENDS Naturals, Sequences

CONSTANTS
    Requests,       \* the calls to batch() of a behaviour, each made at most once
    Size            \* Size[r] is the length of the array of operations of r

ASSUME SizeAssumption == Size \in [Requests -> Nat]

VARIABLES
    batchCache,     \* dbState.batchCache: <<>> when undefined, else <<batch>>
    timer,          \* batchCache.timer is armed
    inFlight,       \* the batch being committed: <<>> or <<batch>> (isCommitting)
    applied,        \* external: the database has made the batch in flight durable
    dbLog,          \* external: the entries the database holds, in commit order
    submitted,      \* history: the requests submitted so far, in order
    replies         \* history: replies[r] is the sequence of callback(err) calls

wgVars == <<batchCache, timer, inFlight, applied, dbLog, submitted, replies>>

Replies == {"ok", "error"}

Entries(r) == [i \in 1..Size[r] |-> [req |-> r, index |-> i]]

isCommitting == inFlight # <<>>

WgInit ==
    /\ batchCache = <<>>
    /\ timer = FALSE
    /\ inFlight = <<>>
    /\ applied = FALSE
    /\ dbLog = <<>>
    /\ submitted = <<>>
    /\ replies = [r \in Requests |-> <<>>]

----------------------------------------------------------------------------
(* The operations of the manager.                                          *)

\* Mutant: the test on the index is inverted, a single operation has no callback.
CallbacksOfOthers(batch) == {batch[i].req : i \in {j \in DOMAIN batch : batch[j].index # 1}}

\* The requests whose callback is stored with the entries of a batch.
CallbacksOf(batch) == {batch[i].req : i \in {j \in DOMAIN batch : batch[j].index = 1}}

\* Mutant: the operations are put in front of the gathered ones.
WgPrepend(entries) ==
    /\ batchCache' = IF batchCache = <<>> THEN <<entries>>
                     ELSE <<entries \o batchCache[1]>>
    /\ timer' = IF batchCache = <<>> THEN TRUE ELSE timer

\* batch(): append the operations to the cached batch, which is created with
\* an armed timer when there is none.
WgAppend(entries) ==
    /\ batchCache' = IF batchCache = <<>> THEN <<entries>>
                     ELSE <<batchCache[1] \o entries>>
    /\ timer' = IF batchCache = <<>> THEN TRUE ELSE timer

\* _batchCommitted(): call back every request of the batches in Batches.
Answer(Batches, reply) ==
    replies' = [r \in Requests |->
                  IF \E b \in Batches : r \in CallbacksOf(b)
                  THEN Append(replies[r], reply) ELSE replies[r]]

\* The part of _commitBatch() after its guards: take the cached batch and
\* hand it to the database.
StartCommit ==
    /\ inFlight' = batchCache
    /\ batchCache' = <<>>
    /\ timer' = FALSE
    /\ applied' = FALSE

----------------------------------------------------------------------------

Batch(r) ==
    /\ \A i \in DOMAIN submitted : submitted[i] # r
    /\ WgAppend(Entries(r))
    /\ submitted' = Append(submitted, r)
    /\ UNCHANGED <<inFlight, applied, dbLog, replies>>

\* The WG_TIMEOUT timer fires and no commit is in progress.
CommitOnTimeout ==
    /\ timer
    /\ ~isCommitting
    /\ StartCommit
    /\ UNCHANGED <<dbLog, submitted, replies>>

\* The WG_TIMEOUT timer fires during a commit: the batch waits for its end.
DeferOnTimeout ==
    /\ timer
    /\ isCommitting
    /\ timer' = FALSE
    /\ UNCHANGED <<batchCache, inFlight, applied, dbLog, submitted, replies>>

\* External: the database writes the whole batch atomically (SYNC_OPTIONS).
DbApply ==
    /\ isCommitting
    /\ ~applied
    /\ applied' = TRUE
    /\ dbLog' = dbLog \o inFlight[1]
    /\ UNCHANGED <<batchCache, timer, inFlight, submitted, replies>>

\* Mutant: the end of a commit does not look for a deferred batch.
CommitDoneForgetsPending ==
    /\ isCommitting
    /\ applied
    /\ Answer({inFlight[1]}, "ok")
    /\ inFlight' = <<>>
    /\ applied' = FALSE
    /\ UNCHANGED <<batchCache, timer, dbLog, submitted>>

\* The callback of db.batch() without an error. A batch whose timer already
\* fired was deferred and is committed at once.
CommitDone ==
    /\ isCommitting
    /\ applied
    /\ Answer({inFlight[1]}, "ok")
    /\ IF batchCache # <<>> /\ ~timer
       THEN StartCommit
       ELSE /\ inFlight' = <<>>
            /\ applied' = FALSE
            /\ UNCHANGED <<batchCache, timer>>
    /\ UNCHANGED <<dbLog, submitted>>

\* Mutant: the batch that is given up is answered but not dropped.
CommitFailedKeepsPending ==
    /\ isCommitting
    /\ ~applied
    /\ Answer({inFlight[1]} \cup {batchCache[i] : i \in DOMAIN batchCache}, "error")
    /\ inFlight' = <<>>
    /\ timer' = (batchCache # <<>>)
    /\ UNCHANGED <<batchCache, applied, dbLog, submitted>>

\* The callback of db.batch() with an error: the batch that was gathered
\* meanwhile is given up with it.
CommitFailed ==
    /\ isCommitting
    /\ ~applied
    /\ Answer({inFlight[1]} \cup {batchCache[i] : i \in DOMAIN batchCache}, "error")
    /\ batchCache' = <<>>
    /\ timer' = FALSE
    /\ inFlight' = <<>>
    /\ UNCHANGED <<applied, dbLog, submitted>>

WgNext ==
    \/ \E r \in Requests : Batch(r)
    \/ CommitOnTimeout
    \/ DeferOnTimeout
    \/ DbApply
    \/ CommitDone
    \/ CommitFailed

\* A timer that is armed fires, and the database answers every batch.
WgFairness ==
    /\ WF_wgVars(CommitOnTimeout \/ DeferOnTimeout)
    /\ WF_wgVars(DbApply)
    /\ WF_wgVars(CommitDone \/ CommitFailed)

WgSafety == WgInit /\ [][WgNext]_wgVars
WgSpec == WgSafety /\ WgFairness

----------------------------------------------------------------------------
(* Properties.                                                             *)

Entry == [req : Requests, index : Nat \ {0}]

\* At most one batch is gathered and at most one is being committed, and they
\* hold entries of requests.
WgTypeOK ==
    /\ batchCache \in Seq(Seq(Entry)) /\ Len(batchCache) <= 1
    /\ timer \in BOOLEAN
    /\ inFlight \in Seq(Seq(Entry)) /\ Len(inFlight) <= 1
    /\ applied \in BOOLEAN
    /\ dbLog \in Seq(Entry)
    /\ submitted \in Seq(Requests)
    /\ replies \in [Requests -> Seq(Replies)]

\* The entry r, i is in the database.
Durable(e) == \E i \in DOMAIN dbLog : dbLog[i] = e

\* A gathered batch always has something that will commit it: its own timer,
\* or the end of the commit it was deferred behind. (The deferral clears the
\* timer without arming another one.)
WaitingBatchHasWaker == batchCache # <<>> => timer \/ isCommitting

\* A request is called back at most once, with its whole array durable when
\* the reply is a success and none of it durable when the reply is an error:
\* neither the failure of a batch nor the give-up of the one gathered behind
\* it leaves a request partly written.
RepliesAreTruthful ==
    \A r \in Requests :
        /\ Len(replies[r]) <= 1
        /\ replies[r] = <<"ok">> => \A i \in 1..Size[r] : Durable([req |-> r, index |-> i])
        /\ replies[r] = <<"error">> => \A i \in 1..Size[r] : ~Durable([req |-> r, index |-> i])

\* What waits is the batch handed to the database, until it is written, and behind it the
\* gathered one.
WaitingInFlight == IF isCommitting /\ ~applied THEN inFlight[1] ELSE <<>>
WaitingBatch == IF batchCache = <<>> THEN <<>> ELSE batchCache[1]
Waiting == WaitingInFlight \o WaitingBatch

\* The requests that are written and not answered are those of the batch in flight.
Written == IF isCommitting /\ applied THEN CallbacksOf(inFlight[1]) ELSE {}

Queue == INSTANCE CommitQueue WITH
    waiting <- Waiting,
    written <- Written,
    database <- dbLog,
    called <- {submitted[i] : i \in DOMAIN submitted},
    outcome <- replies

\* The manager is a queue of requests whatever its timers, deferrals and given up batches: the
\* order of the calls is the order in the database, a request is written whole or not at all,
\* it is answered once, after its write, and a failure is that of everything gathered.
ImplementsCommitQueue == Queue!CqSpec

IsSubmitted(r) == \E i \in DOMAIN submitted : submitted[i] = r

\* Every request with at least one operation is answered in the end.
NonEmptyRequestsAnswered ==
    \A r \in Requests :
        Size[r] > 0 => (IsSubmitted(r) ~> replies[r] # <<>>)
================================================================================
