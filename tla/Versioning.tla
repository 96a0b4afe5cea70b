------------------------------- MODULE Versioning --------------------------------
(***************************************************************************)
(* The versioning request processor of                                     *)
(* lib/versioning/VersioningRequestProcessor.ts with the write cache and   *)
(* the write-gathering manager below it: one metadata server, one object.  *)
(*                                                                         *)
(* The keys of the object are its master key, its null key and a key per   *)
(* version id. A version id is a positive number and, as in the code, a    *)
(* newer one is smaller. A value keeps what the code looks at:             *)
(*   vid      its versionId (NoVid when it has none)                       *)
(*   phd      it is a place holder for deletion                            *)
(*   null, null2, nullVid   its isNull, isNull2 and nullVersionId fields   *)
(*   from     the request whose content it is                              *)
(***************************************************************************)
EXTENDS WriteGathering, Integers

CONSTANTS
    Op,             \* Op[r]: the call that r makes, [type, vid, isNull]
    After,          \* After[r]: the requests whose answers the client of r awaits
    Master, NullKey,
    NoValue,        \* the key does not exist
    Nobody,         \* the source of place holders, and of repairs
    Scenarios,      \* the behaviours begin in different situations, and differ in
    InitialDb,      \*   InitialDb[s]: the content of the database to begin with
    Calls,          \*   Calls[s]: the requests that are made
    Failing,        \*   the scenarios in which calls to the database may fail
    FirstVid,       \* the first version id to be generated; the next ones are smaller
    InfVid          \* getInfVid(): the oldest version id

NoVid == 0
Vids == 1..InfVid
Keys == {Master, NullKey} \cup Vids

OpTypes == {"putNew", "putPlain", "putMaster", "putMasterDeleteNullKey", "putNull", "putVersion",
            "delPlain", "delNull", "delVersion", "get", "getVersion"}

Value == [vid : {NoVid} \cup Vids, phd : BOOLEAN, null : BOOLEAN, null2 : BOOLEAN,
          nullVid : {NoVid} \cup Vids, from : Requests \cup {Nobody}]

\* A put or a deletion of a version names it.
ASSUME VersioningAssumption ==
    /\ Master \notin Int /\ NullKey \notin Int /\ Master # NullKey
    /\ NoValue \notin Value /\ Nobody \notin Requests
    /\ Op \in [Requests -> [type : OpTypes, vid : {NoVid} \cup Vids,
                            isNull : {"undefined", "false", "true"}]]
    /\ After \in [Requests -> SUBSET Requests]
    /\ InitialDb \in [Scenarios -> [Keys -> Value \cup {NoValue}]]
    /\ Calls \in [Scenarios -> SUBSET Requests] /\ Failing \subseteq Scenarios
    /\ FirstVid \in Vids /\ InfVid \in Nat
    /\ \A r \in Requests : Op[r].type \in {"putVersion", "delVersion"} => Op[r].vid \in Vids

VARIABLES
    scenario,       \* the scenario of the behaviour, which does not change
    cache,          \* WriteCache.cache of the master key: <<>> or <<[signature, value]>>
    readQueue,      \* WriteCache.queue of it: <<>> or <<[callbacks, answer]>>
    counter,        \* WriteCache.counter
    uidCounter,     \* source of the version ids
    listQueue,      \* VersioningRequestProcessor.queue: <<>> when there is none
    listing,        \* the list() in progress: <<>>, <<"issued">> or <<"read", rows>>
    repairTimer,    \* repairing[cacheKey]: the repair process is scheduled
    reads,          \* the wgm.get() calls in progress, with what they have read
    started,        \* history: the requests made so far
    got             \* history: got[r] is the sequence of the answers to a get

cacheVars == <<cache, readQueue, counter>>
listVars == <<listQueue, listing, repairTimer>>
vrVars == <<scenario, wgVars, cacheVars, uidCounter, listVars, reads, started, got>>

VrInit ==
    /\ WgInit
    /\ scenario \in Scenarios
    /\ cache = <<>> /\ readQueue = <<>> /\ counter = 0
    /\ uidCounter = 0
    /\ listQueue = <<>> /\ listing = <<>>
    /\ repairTimer = FALSE
    /\ reads = {} /\ started = {}
    /\ got = [r \in Requests |-> <<>>]

\* External: what the database holds at a key.
Stored(key) ==
    LET writes == {i \in DOMAIN dbLog : dbLog[i].key = key}
    IN  IF writes = {} THEN InitialDb[scenario][key]
        ELSE dbLog[CHOOSE i \in writes : \A j \in writes : j <= i].value

----------------------------------------------------------------------------
(* Values and operations.                                                  *)

isPHD(value) == value # NoValue /\ value.phd

PHD(vid) == [vid |-> vid, phd |-> TRUE, null |-> FALSE, null2 |-> FALSE, nullVid |-> NoVid,
             from |-> Nobody]

\* The value sent by r, with the version id that the processor or its client
\* puts into it.
Content(r, vid) ==
    [vid |-> vid, phd |-> FALSE, null |-> Op[r].isNull = "true", null2 |-> Op[r].isNull = "true",
     nullVid |-> NoVid, from |-> r]

Put(key, value) == <<[key |-> key, value |-> value]>>
Del(key) == <<[key |-> key, value |-> NoValue]>>
Unless(condition, ops) == IF condition THEN <<>> ELSE ops

GenVid(uid) == FirstVid - uid

\* The operations of the requests that do not read the master first.
BlindOps(r, uid) ==
    CASE Op[r].type = "putNew"    -> Put(Master, Content(r, GenVid(uid)))
                                       \o Put(GenVid(uid), Content(r, GenVid(uid)))
      [] Op[r].type = "putPlain"  -> Put(Master, Content(r, NoVid))
      [] Op[r].type = "putMaster" -> Put(Master, Content(r, GenVid(uid)))
      [] Op[r].type = "putMasterDeleteNullKey" ->
                                     Put(Master, Content(r, GenVid(uid))) \o Del(NullKey)
      [] Op[r].type = "putNull"   -> Put(NullKey, Content(r, Op[r].vid))
      [] Op[r].type = "delPlain"  -> Del(Master)
      [] Op[r].type = "delNull"   -> Del(NullKey)

\* The id under which the master is kept when a version is put over it: its
\* own if it is a null version, the oldest one if it has none.
MasterVidToKeep(master) ==
    IF master.vid = NoVid THEN InfVid
    ELSE IF master.null THEN master.vid ELSE NoVid

\* Mutant: the null key is not deleted when a null version becomes the master.
OverMasterOpsKeepNullKey(r, master) == Put(Master, Content(r, Op[r].vid))

\* A put over the master: what it does to the null version, then the master.
OverMasterOps(r, master) ==
    LET vid     == Op[r].vid
        isNull  == Op[r].isNull
        keepVid == MasterVidToKeep(master)
        isOlder == master.vid # vid \/ isNull = "undefined"
        keeps   == isOlder /\ isNull # "true" /\ keepVid # NoVid
        kept    == [master EXCEPT !.vid = keepVid, !.null = TRUE,
                                  !.null2 = @ \/ isNull = "false"]
        value   == IF keeps /\ isNull = "undefined" /\ master.vid # vid
                   THEN [Content(r, vid) EXCEPT !.nullVid = keepVid] ELSE Content(r, vid)
    IN  Unless(isNull = "undefined" \/ ~master.null \/ master.null2 \/ master.vid = NoVid,
               Del(master.vid))
        \o Unless(~(isOlder /\ isNull = "true" /\ keepVid = NoVid), Del(NullKey))
        \o Unless(~keeps, Put(IF isNull = "false" THEN NullKey ELSE keepVid, kept))
        \o Put(Master, value)

\* Mutant: the comparison with the version id of the master is inverted.
SpecificPutOpsInverted(r, master) ==
    LET vid == Op[r].vid
    IN  Unless(Op[r].isNull = "true", Put(vid, Content(r, vid)))
        \o (IF master = NoValue THEN Put(Master, Content(r, vid))
            ELSE Unless(master.vid > vid, OverMasterOps(r, master)))

\* processVersionSpecificPut(), once it has read the master.
SpecificPutOps(r, master) ==
    LET vid == Op[r].vid
    IN  Unless(Op[r].isNull = "true", Put(vid, Content(r, vid)))
        \o (IF master = NoValue THEN Put(Master, Content(r, vid))
            ELSE IF master.vid = NoVid \/ master.vid >= vid THEN OverMasterOps(r, master)
            ELSE Unless(Op[r].isNull # "true" \/ master.null,
                        Put(NullKey, Content(r, vid)) \o Del(vid)))

\* The master is the version to delete, or a place holder already.
DeletesMaster(r, master) ==
    isPHD(master) \/ (master # NoValue /\ master.vid = Op[r].vid)

\* processVersionSpecificDelete(), once it has read the master.
SpecificDeleteOps(r, master, uid) ==
    Del(IF Op[r].isNull = "true" THEN NullKey ELSE Op[r].vid)
        \o Unless(~DeletesMaster(r, master), Put(Master, PHD(GenVid(uid))))

\* Mutant: a place holder without any version left is not deleted.
RepairOpsNothingLeft(next) ==
    IF next = <<>> THEN <<>>
    ELSE Put(Master, next[1].value) \o Unless(~next[1].isNullKey, Del(NullKey))

\* repairMaster(), when the master still is the place holder that was listed.
RepairOps(next) ==
    IF next = <<>> THEN Del(Master)
    ELSE Put(Master, next[1].value) \o Unless(~next[1].isNullKey, Del(NullKey))

----------------------------------------------------------------------------
(* A turn of the event loop, as a record of what it reads and changes. out *)
(* is what it hands to wgm.batch(), <<>> or <<entries>>, failed the        *)
(* requests that it answers with an error of the database.                 *)

Turn == [cache |-> cache, readQueue |-> readQueue, counter |-> counter, uid |-> uidCounter,
         listQueue |-> listQueue, listing |-> listing, repairTimer |-> repairTimer,
         got |-> got, out |-> <<>>, failed |-> {}]

Finish(turn) ==
    /\ cache' = turn.cache /\ readQueue' = turn.readQueue /\ counter' = turn.counter
    /\ uidCounter' = turn.uid
    /\ listQueue' = turn.listQueue /\ listing' = turn.listing /\ repairTimer' = turn.repairTimer
    /\ got' = turn.got
    /\ IF turn.out = <<>> THEN UNCHANGED <<batchCache, timer>> ELSE WgAppend(turn.out[1])
    /\ replies' = [r \in Requests |-> IF r \in turn.failed THEN Append(replies[r], "error")
                                      ELSE replies[r]]
    /\ UNCHANGED <<scenario, inFlight, applied, dbLog, submitted>>

WritesMaster(ops) == {i \in DOMAIN ops : ops[i].key = Master}

\* More entries behind those handed to wgm.batch() before.
Handed(out, entries) == IF out = <<>> THEN <<entries>> ELSE <<out[1] \o entries>>

\* WriteCache.batch(): _cacheWrite() caches the value of the master, then the
\* array goes to the manager.
CacheBatch(turn, r, ops) ==
    [turn EXCEPT
        !.cache   = IF WritesMaster(ops) = {} THEN @
                    ELSE LET i == CHOOSE i \in WritesMaster(ops) : TRUE
                         IN  <<[signature |-> turn.counter, value |-> ops[i].value]>>,
        !.counter = @ + 1,
        !.out     = Handed(@, [i \in DOMAIN ops |->
                       [req |-> r, index |-> i, key |-> ops[i].key, value |-> ops[i].value,
                        signature |-> turn.counter]])]

\* getByListing(): one listing at a time, the others wait for its result.
GetByListing(turn, r) ==
    IF turn.listQueue # <<>>
    THEN [turn EXCEPT !.listQueue = Append(@, r)]
    ELSE [turn EXCEPT !.listQueue = <<r>>, !.listing = <<"issued">>, !.repairTimer = FALSE]

RequestTask(r) == [req |-> r]
RepairTask(value, next) == [req |-> Nobody, value |-> value, next |-> next]

\* Mutant: the repair does not compare the place holder with the listed one.
CallbackRepairsAny(turn, task, err) ==
    LET r      == task.req
        master == IF err = "none" THEN turn.cache[1].value ELSE NoValue
    IN  IF r = Nobody
        THEN IF err = "other" THEN turn ELSE CacheBatch(turn, Nobody, RepairOps(task.next))
        ELSE IF err = "other" THEN [turn EXCEPT !.failed = @ \cup {r}]
        ELSE LET done == CacheBatch(turn, r, SpecificDeleteOps(r, master, turn.uid))
             IN  IF DeletesMaster(r, master)
                 THEN [done EXCEPT !.uid = @ + 1, !.repairTimer = TRUE] ELSE done

\* The callback of a writeCache.get() of the master, which is not found when
\* the cached value says so or when the database does.
Callback(turn, task, err) ==
    LET r      == task.req
        master == IF err = "none" THEN turn.cache[1].value ELSE NoValue
    IN  IF r = Nobody
        THEN IF err = "other" \/ ~isPHD(master) THEN turn
             ELSE IF master = task.value THEN CacheBatch(turn, Nobody, RepairOps(task.next))
             ELSE GetByListing(turn, Nobody)
        ELSE IF err = "other" THEN [turn EXCEPT !.failed = @ \cup {r}]
        ELSE IF Op[r].type = "putVersion" THEN CacheBatch(turn, r, SpecificPutOps(r, master))
        ELSE LET done == CacheBatch(turn, r, SpecificDeleteOps(r, master, turn.uid))
             IN  IF DeletesMaster(r, master)
                 THEN [done EXCEPT !.uid = @ + 1, !.repairTimer = TRUE] ELSE done

\* Mutant: a read that misses the cache while another is in progress is dropped.
CacheGetDropsQueued(turn, task) ==
    IF turn.cache # <<>> THEN Callback(turn, task, "none")
    ELSE IF turn.readQueue # <<>> THEN turn
    ELSE [turn EXCEPT !.readQueue = <<[callbacks |-> <<task>>, answer |-> <<>>]>>]

\* One more read waits for the answer of the database.
Joined(queue, task) == [queue EXCEPT !.callbacks = Append(@, task)]

\* WriteCache.get() of the master.
CacheGet(turn, task) ==
    IF turn.cache # <<>> THEN Callback(turn, task, "none")
    ELSE IF turn.readQueue # <<>>
    THEN [turn EXCEPT !.readQueue = <<Joined(@[1], task)>>]
    ELSE [turn EXCEPT !.readQueue = <<[callbacks |-> <<task>>, answer |-> <<>>]>>]

\* WriteCache._dequeue(): the queued callbacks one after the other.
Dequeue(turn, value, err) ==
    LET mark  == turn.counter
        tasks == turn.readQueue[1].callbacks
        begin == [turn EXCEPT !.cache = <<[signature |-> mark, value |-> value]>>,
                              !.counter = @ + 1]
        run[i \in 0..Len(tasks)] ==
            IF i = 0 THEN begin ELSE Callback(run[i - 1], tasks[i], err)
        end == [run[Len(tasks)] EXCEPT !.readQueue = <<>>]
    IN  IF end.cache[1].signature = mark THEN [end EXCEPT !.cache = <<>>] ELSE end

\* WriteCache.batch() of a request: a write of the master first answers the
\* queued reads with it, whose own writes come before.
CacheBatchDequeue(turn, r, ops) ==
    LET written  == CacheBatch([turn EXCEPT !.out = <<>>], r, ops)
        before   == [written EXCEPT !.out = turn.out]
        dequeued == IF turn.readQueue = <<>> \/ WritesMaster(ops) = {} THEN before
                    ELSE Dequeue(before, before.cache[1].value, "none")
    IN  [dequeued EXCEPT !.out = Handed(@, written.out[1])]

----------------------------------------------------------------------------
(* The requests.                                                           *)

IsAnswered(r) == replies[r] # <<>> \/ got[r] # <<>>

Start(r) ==
    /\ r \in Calls[scenario] \ started
    /\ \A q \in After[r] : IsAnswered(q)
    /\ started' = started \cup {r}

IsBlind(r) == Op[r].type \in {"putNew", "putPlain", "putMaster", "putMasterDeleteNullKey",
                             "putNull", "delPlain", "delNull"}
GeneratesVid(r) == Op[r].type \in {"putNew", "putMaster", "putMasterDeleteNullKey"}

\* put() and del() that do not depend on the master.
BlindRequest(r) ==
    /\ IsBlind(r) /\ Start(r)
    /\ LET turn == [Turn EXCEPT !.uid = IF GeneratesVid(r) THEN @ + 1 ELSE @]
       IN  Finish(CacheBatchDequeue(turn, r, BlindOps(r, uidCounter)))
    /\ UNCHANGED reads

\* put() and del() of a given version.
VersionRequest(r) ==
    /\ Op[r].type \in {"putVersion", "delVersion"} /\ Start(r)
    /\ Finish(CacheGet(Turn, RequestTask(r)))
    /\ UNCHANGED reads

\* External: the database reads the master for the queue of the write cache.
MasterRead ==
    /\ readQueue # <<>> /\ readQueue[1].answer = <<>>
    /\ readQueue' = <<[readQueue[1] EXCEPT !.answer = <<Stored(Master)>>]>>
    /\ UNCHANGED <<scenario, wgVars, cache, counter, uidCounter, listVars, reads, started, got>>

MasterReadDone ==
    /\ readQueue # <<>> /\ readQueue[1].answer # <<>>
    /\ \/ LET value == readQueue[1].answer[1]
          IN  Finish(Dequeue(Turn, value, IF value = NoValue THEN "notFound" ELSE "none"))
       \/ scenario \in Failing /\ Finish(Dequeue(Turn, NoValue, "other"))
    /\ UNCHANGED <<reads, started>>

IsDeleted(r) == Op[r].type = "delVersion" /\ replies[r] = <<"ok">>

KeyRead(r) ==
    IF Op[r].type = "get" THEN Master ELSE IF Op[r].vid = NoVid THEN NullKey ELSE Op[r].vid

\* get(): its read goes to the database, past the write cache.
GetRead(r) ==
    /\ Op[r].type \in {"get", "getVersion"} /\ Start(r)
    /\ reads' = reads \cup {[req |-> r, value |-> Stored(KeyRead(r))]}
    /\ UNCHANGED <<scenario, wgVars, cacheVars, uidCounter, listVars, got>>

Answered(turn, r, value) ==
    IF r = Nobody THEN turn ELSE [turn EXCEPT !.got[r] = Append(@, value)]

GetDone(read) ==
    /\ reads' = reads \ {read}
    /\ \/ Finish(IF Op[read.req].type = "get" /\ isPHD(read.value)
                 THEN GetByListing(Turn, read.req)
                 ELSE Answered(Turn, read.req, read.value))
       \/ scenario \in Failing /\ Finish([Turn EXCEPT !.failed = {read.req}])
    /\ UNCHANGED started

----------------------------------------------------------------------------
(* The repair of a master that is a place holder.                          *)

\* The timer is armed together with the write of the place holder and lasts
\* 15 s: it is taken to fire after the writes of the master are answered.
RepairTimeout ==
    /\ repairTimer
    /\ cache = <<>>
    /\ Finish(GetByListing([Turn EXCEPT !.repairTimer = FALSE], Nobody))
    /\ UNCHANGED <<reads, started>>

\* External: the listing sees the keys of the object at one point of time.
ListRead ==
    /\ listing = <<"issued">>
    /\ listing' = <<"read", [k \in Keys |-> Stored(k)]>>
    /\ UNCHANGED <<scenario, wgVars, cacheVars, uidCounter, listQueue, repairTimer, reads, started, got>>

VersionsIn(rows) == {v \in Vids : rows[v] # NoValue}

Newest(vids) == CHOOSE v \in vids : \A w \in vids : v <= w

\* listVersionKeys() with a limit of 1: the newest version, the null key
\* taking the place of its own version id.
LatestIn(rows) ==
    LET vids  == VersionsIn(rows)
        null  == rows[NullKey]
    IN  IF null # NoValue /\ \A v \in vids : null.vid < v
        THEN <<[value |-> null, isNullKey |-> TRUE]>>
        ELSE IF vids = {} THEN <<>>
        ELSE <<[value |-> rows[Newest(vids)], isNullKey |-> FALSE]>>

\* The first key of a listing is taken for the master.
FirstIn(rows) ==
    IF rows[Master] # NoValue THEN rows[Master]
    ELSE IF rows[NullKey] # NoValue THEN rows[NullKey]
    ELSE IF VersionsIn(rows) = {} THEN NoValue
    ELSE rows[Newest(VersionsIn(rows))]

\* dequeueGet(): every get that waits for the listing has the same answer.
DequeueGet(turn, value) ==
    [turn EXCEPT !.listQueue = <<>>, !.listing = <<>>,
                 !.got = [r \in Requests |->
                            IF \E i \in DOMAIN listQueue : listQueue[i] = r
                            THEN Append(@[r], value) ELSE @[r]]]

\* The callback of listVersionKeys(), then repairMaster().
ListDone ==
    /\ listing # <<>> /\ listing[1] = "read"
    /\ \/ LET rows   == listing[2]
              master == FirstIn(rows)
              latest == LatestIn(rows)
          IN  Finish(IF ~isPHD(master) THEN DequeueGet(Turn, master)
                     ELSE CacheGet(DequeueGet(Turn, IF latest = <<>> THEN NoValue ELSE latest[1].value),
                                   RepairTask(master, latest)))
       \/ /\ scenario \in Failing
          /\ Finish([Turn EXCEPT !.listQueue = <<>>, !.listing = <<>>,
                                 !.failed = {r \in Requests : \E i \in DOMAIN listQueue : listQueue[i] = r}])
    /\ UNCHANGED <<reads, started>>

----------------------------------------------------------------------------

\* WriteCache._cacheClear(), for the batches that are answered.
CacheClear(Batches) ==
    cache' = IF /\ cache # <<>>
                /\ \E b \in Batches : \E i \in DOMAIN b :
                     b[i].key = Master /\ b[i].signature = cache[1].signature
             THEN <<>> ELSE cache

NotCommitting == UNCHANGED <<scenario, readQueue, counter, uidCounter, listVars, reads, started, got>>

VrCommitDone == CommitDone /\ CacheClear({inFlight[1]}) /\ NotCommitting

VrCommitFailed ==
    /\ scenario \in Failing
    /\ CommitFailed
    /\ CacheClear({inFlight[1]} \cup {batchCache[i] : i \in DOMAIN batchCache})
    /\ NotCommitting

Background == (CommitOnTimeout \/ DeferOnTimeout \/ DbApply) /\ UNCHANGED cache /\ NotCommitting

VrNext ==
    \/ \E r \in Requests : BlindRequest(r) \/ VersionRequest(r) \/ GetRead(r)
    \/ \E read \in reads : GetDone(read)
    \/ MasterRead \/ MasterReadDone
    \/ RepairTimeout \/ ListRead \/ ListDone
    \/ VrCommitDone \/ VrCommitFailed \/ Background

\* Timers fire and the database answers; nobody has to make a request. The
\* answers are stated by what they do to the call in progress: it is over,
\* whether its own callback or a write that overtakes it ends it.
ReadOver == readQueue # <<>> /\ readQueue[1].answer # <<>> /\ readQueue' = <<>>
ListOver == listing # <<>> /\ listing[1] = "read" /\ listing' \in {<<>>, <<"issued">>}
TimerOver == repairTimer /\ cache = <<>> /\ repairTimer' = FALSE
GetOver == \E read \in reads : reads' = reads \ {read}

VrFairness ==
    /\ WF_vrVars(Background) /\ WF_vrVars(VrCommitDone \/ VrCommitFailed)
    /\ WF_vrVars(MasterRead) /\ WF_readQueue(ReadOver)
    /\ WF_vrVars(ListRead) /\ WF_listing(ListOver)
    /\ WF_repairTimer(TimerOver)
    /\ WF_reads(GetOver)

VrSafety == VrInit /\ [][VrNext]_vrVars
VrSpec == VrSafety /\ VrFairness

----------------------------------------------------------------------------
(* Properties.                                                             *)

\* The master has at most one cached value, one queue of reads and one listing in
\* progress.
VrTypeOK ==
    /\ cache \in Seq([signature : Nat, value : Value \cup {NoValue}]) /\ Len(cache) <= 1
    /\ Len(readQueue) <= 1
    /\ counter \in Nat /\ uidCounter \in Nat
    /\ listQueue \in Seq(Requests \cup {Nobody})
    /\ Len(listing) <= 2
    /\ repairTimer \in BOOLEAN
    /\ reads \subseteq [req : Requests, value : Value \cup {NoValue}]
    /\ started \subseteq Requests
    /\ got \in [Requests -> Seq(Value \cup {NoValue})]

\* Nothing is being written, read from the database, or listed.
Idle == batchCache = <<>> /\ inFlight = <<>> /\ readQueue = <<>> /\ listing = <<>>

Present == {v \in Vids : Stored(v) # NoValue}

\* A master that is not a place holder is the newest of the versions and has its
\* content, it has a version key unless it is the null version, and versions have a master.
MasterLeads ==
    LET master == Stored(Master)
    IN  /\ master = NoValue => Present = {} /\ Stored(NullKey) = NoValue
        /\ (master # NoValue /\ ~master.phd /\ master.vid # NoVid) =>
              /\ \A v \in Present : master.vid <= v
              /\ master.vid \in Present => Stored(master.vid).from = master.from
              /\ ~master.null => master.vid \in Present
              /\ Stored(NullKey) # NoValue => master.vid <= Stored(NullKey).vid

\* A version was put between a place holder and the repair that follows it.
PutBeforeRepair ==
    \E h, i, j \in DOMAIN dbLog :
        /\ h < i /\ i < j
        /\ isPHD(dbLog[h].value) /\ dbLog[j].req = Nobody
        /\ dbLog[i].req # Nobody /\ Op[dbLog[i].req].type = "putVersion"

\* Once nothing is under way the master is the latest version: neither the order of the
\* writes of several puts, nor that of deletions and the repairs that follow them, nor a
\* failed batch leaves it behind. Excused is one case, in which the code does not keep it:
\* a version that is put while its object waits for a repair, which writes the version it
\* has listed before (RepairedMasterIsLatest).
MasterIsLatest == Idle /\ ~PutBeforeRepair => MasterLeads

\* "Search for the latest version of an object to update its master version in an atomic
\* manner when the master version is a PHD": the same, of every repair.
RepairedMasterIsLatest == Idle => MasterLeads

\* Once nothing is under way, the object has one null version: the values that
\* say they are it have one version id, whichever keys they are kept at.
OneNullVersion ==
    Idle =>
      \A j, k \in Keys :
        (/\ Stored(j) # NoValue /\ Stored(k) # NoValue
         /\ Stored(j).null /\ Stored(k).null) => Stored(j).vid = Stored(k).vid

\* A version whose deletion was acknowledged is neither in the database nor on
\* its way there, under its own key or as the master.
DeletedStaysDeleted ==
    \A r \in Requests :
        IsDeleted(r) /\ Op[r].isNull # "true" =>
            LET vid   == Op[r].vid
                batch == IF batchCache = <<>> THEN <<>> ELSE batchCache[1]
            IN  /\ Stored(vid) = NoValue
                /\ Stored(Master) # NoValue => Stored(Master).vid # vid
                /\ \A i \in DOMAIN batch : batch[i].value # NoValue => batch[i].value.vid # vid

\* Neither the database fails, which drops the repair, nor a get by listing takes
\* over the timer of the repair.
RepairIsUndisturbed ==
    scenario \notin Failing /\ \A r \in Calls[scenario] : Op[r].type # "get"

\* A place holder is replaced in the end.
PlaceHolderIsReplaced ==
    (isPHD(Stored(Master)) /\ RepairIsUndisturbed) ~> ~isPHD(Stored(Master))

\* A get never returns a place holder, and is answered only once.
GetsSeeNoPlaceHolder ==
    \A r \in Requests : Len(got[r]) <= 1 /\ \A i \in DOMAIN got[r] : ~isPHD(got[r][i])

\* The put of a null version that a newer one has replaced as the master: it has no
\* operations, and the manager calls nobody back for them.
PutsNothing(r) ==
    /\ Op[r].type = "putVersion" /\ Op[r].isNull = "true"
    /\ Stored(Master) # NoValue /\ Stored(Master).null
    /\ Stored(Master).vid # NoVid /\ Stored(Master).vid < Op[r].vid

\* "expect callback(err, data)": every request that was made is answered in the end, unless
\* it comes to put nothing, and a get only once and without a place holder.
EveryRequestIsAnswered ==
    /\ []GetsSeeNoPlaceHolder
    /\ []<>(\A r \in started : IsAnswered(r) \/ PutsNothing(r))
================================================================================
