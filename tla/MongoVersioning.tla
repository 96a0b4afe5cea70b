---------------------------- MODULE MongoVersioning ----------------------------
(***************************************************************************)
(* One object in the MongoDB metadata backend (MongoClientInterface.js),   *)
(* written by many processes at once. MongoDB executes an operation on one *)
(* document atomically and nothing more: an ordered bulk write is a        *)
(* sequence of such operations, so every step below is one operation,      *)
(* together with the turn of the process that its answer starts.           *)
(*                                                                         *)
(* The object has a master document and one document per version. A        *)
(* smaller version id is newer. "deleted" of the source, the flag a        *)
(* document carries while it is being removed, is the field flagged.       *)
(***************************************************************************)
EXTENDS Integers, FiniteSets, FiniteSetsExt

CONSTANTS
    Requests,       \* the calls that clients make, each once and in a process of its own
    Op,             \* Op[r]: the type of the call, its version id, whether it puts a delete marker
    Scenarios,      \* situations a behaviour can begin in:
    InitialDocs,    \* the documents of the object,
    Format,         \* the format of its keys, "v0" or "v1",
    Calls,          \* the requests made
    MaxVid,         \* version ids are 1 .. MaxVid
    FirstVid,       \* the first version id that is generated; the next ones are smaller
    MaxCrashes,     \* how many processes may crash
    MaxErrors,      \* how many operations may fail
    LongDelay,      \* whether a repair waits for the requests that began before its timer
    Master, NoVid, NoDoc, Nobody, NoReply

Vids == 1 .. MaxVid
Keys == Vids \cup {Master}

PutTypes == {"putNew", "putSuspended", "putVersion", "putRepair", "putPlain", "putPlainOplog"}
GetTypes == {"get", "getVersion", "getObjects"}
VersionDeletes == {"delVersion", "delVersionFast"}
DeleteTypes == VersionDeletes \cup {"delPlain"}

\* The calls that name a version.
Naming == {"putVersion", "putRepair", "getVersion", "getObjects"} \cup VersionDeletes

Doc == [vid : Vids \cup {NoVid}, phd : BOOLEAN, marker : BOOLEAN, flagged : BOOLEAN,
        from : Requests \cup {Nobody}]

\* The versions that are there at first are older than those that are generated.
ASSUME MongoAssumption ==
    /\ MaxVid \in Nat \ {0} /\ FirstVid \in 1 .. MaxVid
    /\ MaxCrashes \in Nat /\ MaxErrors \in Nat /\ LongDelay \in BOOLEAN
    /\ Master \notin Int /\ NoVid \notin Int /\ NoDoc \notin Doc
    /\ \A r \in Requests :
           /\ Op[r].type \in PutTypes \cup GetTypes \cup DeleteTypes /\ Op[r].marker \in BOOLEAN
           /\ Op[r].vid \in IF Op[r].type \in Naming THEN Vids ELSE {NoVid}
    /\ \A s \in Scenarios :
           /\ Format[s] \in {"v0", "v1"} /\ Calls[s] \subseteq Requests
           /\ InitialDocs[s] \in [Keys -> Doc \cup {NoDoc}]
           /\ \A v \in Vids : InitialDocs[s][v] # NoDoc =>
                  InitialDocs[s][v].vid = v /\ ~InitialDocs[s][v].phd /\ v > FirstVid
           /\ InitialDocs[s][Master] # NoDoc =>
                  InitialDocs[s][Master].vid = NoVid \/ InitialDocs[s][Master].vid > FirstVid

VARIABLES
    scenario,
    docs,       \* the collection: a document or NoDoc for each key
    nextVid,    \* the version id generated next
    pc,         \* the operation each request executes next
    vid,        \* the version id that a request has generated
    seen,       \* the document that a request has read last
    target,     \* what a request is removing: a version, the version of the master, the master
    repair,     \* for each request: its repair timer, or the repair in progress
    reply,      \* the answer given to each request
    answers,    \* what getObjects was answered for the version, beside its reply
    crashes, errs,
    gone,       \* history: version ids whose removal was acknowledged
    acked,      \* history: version ids of the new versions whose put was acknowledged
    began,      \* history: gone and acked when each get began
    unchecked   \* history: what the master has undergone that no filter of a write prevents:
                \* "replaced", by a place holder that is older than a version; "inserted",
                \* where there was none, by a put older than a version; "restored", where
                \* there was none, by a repair; "removed", although a version had been put;
                \* "marked", by the repair with a delete marker in the v1 format

mgVars == <<scenario, docs, nextVid, pc, vid, seen, target, repair, reply, answers, crashes, errs,
            gone, acked, began, unchecked>>

NoRepair == [at |-> "none", value |-> NoDoc, during |-> {}]

-----------------------------------------------------------------------------
(* Documents and the operations of MongoDB on them. *)

Live(d) == d # NoDoc /\ ~d.flagged

\* Mutant: flagged documents are found.
LatestOfAll ==
    LET all == {v \in Vids : docs[v] # NoDoc}
    IN  IF all = {} THEN NoDoc ELSE docs[Min(all)]

\* getLatestVersion(): the first version key, flagged documents left out.
LatestVersion ==
    LET live == {v \in Vids : Live(docs[v])}
    IN  IF live = {} THEN NoDoc ELSE docs[Min(live)]

\* There is a version newer than v.
HasNewer(v) == LatestVersion # NoDoc /\ LatestVersion.vid < v

\* What request r puts.
ValueOf(r, v) == [vid |-> v, phd |-> FALSE, marker |-> Op[r].marker, flagged |-> FALSE, from |-> r]

\* An updateOne or deleteOne of the master with a filter, which matches or not:
\* the master afterwards and whether the key was duplicated by an upsert.
UpdateDeleteMaster(value, matches, upsert) ==
    LET delete == value.marker /\ Format[scenario] = "v1"
        none   == docs[Master] = NoDoc
    IN  [doc |-> IF matches THEN (IF delete THEN NoDoc ELSE value)
                 ELSE IF none /\ upsert /\ ~delete THEN value ELSE docs[Master],
         dup |-> ~matches /\ ~none /\ upsert /\ ~delete]

\* The id of the version that request r puts: given or generated.
PutVid(r) == IF Op[r].type = "putNew" THEN vid[r] ELSE Op[r].vid

-----------------------------------------------------------------------------
(* The first operation of each call. *)

FirstStep(r) ==
    CASE Op[r].type \in {"putNew", "putSuspended"}           -> "generate"
      [] Op[r].type \in {"putVersion"} \cup VersionDeletes -> "findMaster"
      [] Op[r].type = "putRepair"                            -> "writeVersion"
      [] Op[r].type = "putPlain"                             -> "overwrite"
      [] Op[r].type \in {"putPlainOplog", "delPlain"}        -> "flag"
      [] Op[r].type \in GetTypes                             -> "read"

MgInit ==
    /\ scenario \in Scenarios
    /\ docs = InitialDocs[scenario]
    /\ nextVid = FirstVid
    /\ pc = [r \in Requests |-> IF r \in Calls[scenario] THEN FirstStep(r) ELSE "done"]
    /\ vid = [r \in Requests |-> NoVid]
    /\ seen = [r \in Requests |-> NoDoc]
    /\ target = [r \in Requests |-> IF Op[r].type = "delPlain" THEN "plain" ELSE "none"]
    /\ repair = [r \in Requests |-> NoRepair]
    /\ reply = [r \in Requests |-> NoReply]
    /\ answers = [r \in Requests |-> NoReply]
    /\ crashes = 0 /\ errs = 0
    /\ gone = {} /\ acked = {}
    /\ began = [r \in Requests |-> [gone |-> {}, acked |-> {}]]
    /\ unchecked = {}

Goto(r, step) == pc' = [pc EXCEPT ![r] = step]

Finished(r, result, doc) ==
    /\ Goto(r, "done")
    /\ reply' = [reply EXCEPT ![r] = [result |-> result, doc |-> doc]]

\* The callback with an error or without a document.
Answer(r, result) == Finished(r, result, NoDoc)

Generated(r) == vid' = [vid EXCEPT ![r] = nextVid] /\ nextVid' = nextVid - 1

\* The history variables and counters that most steps leave alone.
Unnoticed == UNCHANGED <<scenario, answers, crashes, errs, gone, acked, began,
                          unchecked>>

Notice(what, happens) == unchecked' = IF happens THEN unchecked \cup {what} ELSE unchecked

-----------------------------------------------------------------------------
(* Puts. *)

\* putObjectVerCase1() and putObjectVerCase2() generate the version id and send
\* their writes in the same turn. Ids are unique here, so that the retry of
\* putObjectVerCase1 for an id that exists is not reached.
Generate(r) ==
    /\ pc[r] = "generate" /\ nextVid > 0
    /\ Generated(r)
    /\ Goto(r, IF Op[r].type = "putNew" THEN "writeVersion" ELSE "overwrite")
    /\ UNCHANGED <<docs, seen, target, repair, reply>> /\ Unnoticed

\* putObjectVerCase3() looks for the master, then for the version.
FindMasterToPut(r) ==
    /\ pc[r] = "findMaster" /\ Op[r].type = "putVersion"
    /\ seen' = [seen EXCEPT ![r] = docs[Master]]
    /\ Goto(r, "findVersion")
    /\ UNCHANGED <<docs, nextVid, vid, target, repair, reply>> /\ Unnoticed

\* A version that exists behind no master leaves the master alone.
FindVersionToPut(r) ==
    /\ pc[r] = "findVersion"
    /\ target' = [target EXCEPT ![r] =
           IF docs[Op[r].vid] # NoDoc /\ seen[r] = NoDoc THEN "version" ELSE "master"]
    /\ Goto(r, "writeVersion")
    /\ UNCHANGED <<docs, nextVid, vid, seen, repair, reply>> /\ Unnoticed

\* The upsert of the version key, the first operation of cases 1, 3 and 4.
WriteVersion(r) ==
    /\ pc[r] = "writeVersion"
    /\ docs' = [docs EXCEPT ![PutVid(r)] = ValueOf(r, PutVid(r))]
    /\ \/ /\ Op[r].type = "putRepair" /\ Goto(r, "latest") /\ UNCHANGED reply
       \/ /\ Op[r].type = "putVersion" /\ target[r] = "version" /\ Answer(r, "ok")
       \/ /\ Op[r].type = "putNew" \/ target[r] = "master"
          /\ Goto(r, "writeMaster") /\ UNCHANGED reply
    /\ UNCHANGED <<nextVid, vid, seen, target, repair>> /\ Unnoticed

\* Mutant: the filter on the version id is missing.
WriteMasterOfAny(r) ==
    /\ pc[r] = "writeMaster" /\ Op[r].type = "putNew"
    /\ docs' = [docs EXCEPT ![Master] =
                    UpdateDeleteMaster(ValueOf(r, vid[r]), docs[Master] # NoDoc, TRUE).doc]
    /\ Answer(r, "ok")
    /\ acked' = acked \cup {vid[r]}
    /\ UNCHANGED <<scenario, nextVid, vid, seen, target, repair, answers, crashes, errs, gone,
                   began, unchecked>>

\* Case 1: unless the master is newer. A duplicate key means that it is. Without
\* a master nothing is compared.
WriteMasterOfNew(r) ==
    /\ pc[r] = "writeMaster" /\ Op[r].type = "putNew"
    /\ LET m       == docs[Master]
           matches == m # NoDoc /\ (m.vid = NoVid \/ m.vid > vid[r])
           after   == UpdateDeleteMaster(ValueOf(r, vid[r]), matches, TRUE)
       IN  /\ docs' = [docs EXCEPT ![Master] = after.doc]
           /\ Notice("inserted", m = NoDoc /\ after.doc # NoDoc /\ HasNewer(vid[r]))
    /\ Answer(r, "ok")
    /\ acked' = acked \cup {vid[r]}
    /\ UNCHANGED <<scenario, nextVid, vid, seen, target, repair, answers, crashes, errs, gone, began>>

\* Case 3: if the master has the version id, or there was none.
WriteMasterOfVersion(r) ==
    /\ pc[r] = "writeMaster" /\ Op[r].type = "putVersion"
    /\ LET m       == docs[Master]
           matches == m # NoDoc /\ m.vid = Op[r].vid
           after   == UpdateDeleteMaster(ValueOf(r, Op[r].vid), matches, seen[r] = NoDoc)
       IN  /\ docs' = [docs EXCEPT ![Master] = after.doc]
           /\ Answer(r, IF after.dup THEN "InternalError" ELSE "ok")
           /\ Notice("inserted", m = NoDoc /\ after.doc # NoDoc /\ HasNewer(Op[r].vid))
    /\ UNCHANGED <<scenario, nextVid, vid, seen, target, repair, answers, crashes, errs, gone,
                   acked, began>>

\* Case 4 reads the latest version after it has written its own.
LatestToPut(r) ==
    /\ pc[r] = "latest" /\ Op[r].type = "putRepair"
    /\ seen' = [seen EXCEPT ![r] = LatestVersion]
    /\ IF LatestVersion = NoDoc THEN Answer(r, "NoSuchKey")
       ELSE Goto(r, "writeMaster") /\ UNCHANGED reply
    /\ UNCHANGED <<docs, nextVid, vid, target, repair>> /\ Unnoticed

\* Case 4: the latest version becomes the master unless that one is newer.
WriteMasterOfLatest(r) ==
    /\ pc[r] = "writeMaster" /\ Op[r].type = "putRepair"
    /\ LET m       == docs[Master]
           matches == m # NoDoc /\ m.vid # NoVid /\ m.vid >= seen[r].vid
           after   == UpdateDeleteMaster(seen[r], matches, TRUE)
       IN  /\ docs' = [docs EXCEPT ![Master] = after.doc]
           /\ Notice("restored", m = NoDoc /\ after.doc # NoDoc)
    /\ Answer(r, "ok")
    /\ UNCHANGED <<scenario, nextVid, vid, seen, target, repair, answers, crashes, errs, gone,
                   acked, began>>

\* Case 2 and putObjectNoVer() replace the master whatever it is.
Overwrite(r) ==
    /\ pc[r] = "overwrite"
    /\ docs' = [docs EXCEPT ![Master] = ValueOf(r, vid[r])]
    /\ Answer(r, "ok")
    /\ UNCHANGED <<nextVid, vid, seen, target, repair>> /\ Unnoticed

-----------------------------------------------------------------------------
(* putObjectNoVerWithOplogUpdate() and internalDeleteObject(): flag the document,   *)
(* write it again for the oplog, then replace or remove it.                         *)

TargetKey(r) == IF target[r] \in {"version", "masterVersion"} THEN Op[r].vid ELSE Master

\* The filter of the removal of a place holder.
MatchesTarget(r, d) == target[r] = "placeHolder" => d.phd /\ d.vid = vid[r]

\* The callback of internalDeleteObject(), in each of its callers.
RemovalDone(r, found) ==
    \/ /\ target[r] = "version"
       /\ Answer(r, IF found THEN "ok" ELSE "NoSuchKey")
       /\ gone' = IF found THEN gone \cup {Op[r].vid} ELSE gone
    \/ /\ target[r] = "masterVersion"
       /\ Goto(r, "latest") /\ UNCHANGED <<reply, gone>>
    \/ /\ target[r] = "placeHolder"
       /\ Answer(r, "ok") /\ gone' = gone \cup {Op[r].vid}
    \/ /\ target[r] = "plain"
       /\ Answer(r, "ok") /\ UNCHANGED gone

Flag(r) ==
    /\ pc[r] = "flag"
    /\ LET k == TargetKey(r)
           d == docs[k]
           found == Live(d) /\ MatchesTarget(r, d)
       IN  \/ /\ found
              /\ docs' = [docs EXCEPT ![k].flagged = TRUE]
              /\ seen' = [seen EXCEPT ![r] = [d EXCEPT !.flagged = TRUE]]
              /\ Goto(r, "flagAgain") /\ UNCHANGED <<reply, gone>>
           \/ /\ ~found /\ Op[r].type = "putPlainOplog"
              /\ Answer(r, "InternalError") /\ UNCHANGED <<docs, seen, gone>>
           \/ /\ ~found /\ Op[r].type # "putPlainOplog"
              /\ RemovalDone(r, FALSE) /\ UNCHANGED <<docs, seen>>
    /\ UNCHANGED <<scenario, nextVid, vid, target, repair, answers, crashes, errs, acked,
                   began, unchecked>>

\* The document is written again as it was when it was flagged.
FlagAgain(r) ==
    /\ pc[r] = "flagAgain"
    /\ LET k == TargetKey(r)
           d == docs[k]
       IN  docs' = IF d # NoDoc /\ d.flagged /\ MatchesTarget(r, d)
                   THEN [docs EXCEPT ![k] = seen[r]] ELSE docs
    /\ Goto(r, IF Op[r].type = "putPlainOplog" THEN "overwrite" ELSE "remove")
    /\ UNCHANGED <<nextVid, vid, seen, target, repair, reply>> /\ Unnoticed

\* What is no longer flagged was put again and stays.
Remove(r) ==
    /\ pc[r] = "remove"
    /\ LET k == TargetKey(r)
           d == docs[k]
           flagged == Op[r].type # "delVersionFast" \/ target[r] = "placeHolder"
           found == d # NoDoc /\ (flagged => d.flagged) /\ MatchesTarget(r, d)
       IN  /\ docs' = IF found THEN [docs EXCEPT ![k] = NoDoc] ELSE docs
           /\ Notice("removed", /\ found /\ target[r] = "placeHolder" /\ LatestVersion # NoDoc
                                /\ Format[scenario] = "v1" => ~LatestVersion.marker)
    /\ RemovalDone(r, TRUE)
    /\ UNCHANGED <<scenario, nextVid, vid, seen, target, repair, answers, crashes, errs,
                   acked, began>>

-----------------------------------------------------------------------------
(* Deletion of a version. *)

\* doesNotNeedOpogUpdate: the document is removed without a flag.
FirstOfRemoval(r) == IF Op[r].type = "delVersionFast" THEN "remove" ELSE "flag"

\* deleteObjectVer() compares the version with the master, or with the latest
\* version in its place. A place holder is generated with an id of its own.
ChooseDeletion(r, mst) ==
    IF mst.phd \/ mst.vid = Op[r].vid
    THEN /\ nextVid > 0 /\ Generated(r) /\ Goto(r, "placeHolder") /\ UNCHANGED target
    ELSE /\ target' = [target EXCEPT ![r] = "version"] /\ Goto(r, FirstOfRemoval(r))
         /\ UNCHANGED <<vid, nextVid>>

FindMasterToDelete(r) ==
    /\ pc[r] = "findMaster" /\ Op[r].type \in DeleteTypes
    /\ IF Live(docs[Master]) THEN ChooseDeletion(r, docs[Master])
       ELSE Goto(r, "latest") /\ UNCHANGED <<vid, nextVid, target>>
    /\ UNCHANGED <<docs, seen, repair, reply>> /\ Unnoticed

LatestToDelete(r) ==
    /\ pc[r] = "latest" /\ Op[r].type \in DeleteTypes /\ vid[r] = NoVid
    /\ IF LatestVersion # NoDoc THEN ChooseDeletion(r, LatestVersion) /\ UNCHANGED reply
       ELSE Answer(r, "NoSuchKey") /\ UNCHANGED <<vid, nextVid, target>>
    /\ UNCHANGED <<docs, seen, repair>> /\ Unnoticed

\* deleteObjectVerMaster(): the master becomes a place holder, whatever it is
\* now, and no longer flagged; its other fields stay.
PlaceHolder(r) ==
    /\ pc[r] = "placeHolder"
    /\ LET m == docs[Master]
       IN  /\ docs' = [docs EXCEPT ![Master] =
                  [vid |-> vid[r], phd |-> TRUE, flagged |-> FALSE,
                   marker |-> IF m = NoDoc THEN FALSE ELSE m.marker,
                   from |-> IF m = NoDoc THEN Nobody ELSE m.from]]
           /\ Notice("replaced", IF m = NoDoc THEN HasNewer(vid[r])
                                 ELSE m.vid # NoVid /\ m.vid < vid[r])
    /\ target' = [target EXCEPT ![r] = "masterVersion"]
    /\ Goto(r, FirstOfRemoval(r))
    /\ UNCHANGED <<scenario, nextVid, vid, seen, repair, reply, answers, crashes, errs, gone, acked,
                   began>>

DeleteOnlyPHD(r) ==
    /\ pc[r] = "latest" /\ Op[r].type \in DeleteTypes /\ vid[r] # NoVid
    /\ \/ /\ LatestVersion = NoDoc
          /\ target' = [target EXCEPT ![r] = "placeHolder"]
          /\ Goto(r, "flag") /\ UNCHANGED reply
       \/ LatestVersion # NoDoc /\ Answer(r, "ok") /\ UNCHANGED target
    /\ UNCHANGED <<docs, nextVid, vid, seen, repair>> /\ Unnoticed

\* deleteOrRepairPHD(): the place holder goes if no version is left, or in v1 if
\* the latest one is a delete marker; otherwise it is repaired later.
DeleteOrRepairPHD(r) ==
    /\ pc[r] = "latest" /\ Op[r].type \in DeleteTypes /\ vid[r] # NoVid
    /\ LET latest == LatestVersion
       IN  IF latest = NoDoc \/ (latest.marker /\ Format[scenario] = "v1")
           THEN /\ target' = [target EXCEPT ![r] = "placeHolder"]
                /\ Goto(r, "flag")
                /\ UNCHANGED <<repair, reply, gone>>
           ELSE /\ repair' = [repair EXCEPT ![r] =
                      [at |-> "armed", value |-> NoDoc,
                       during |-> {q \in Requests \ {r} : pc[q] \notin {"done", FirstStep(q)}}]]
                /\ Answer(r, "ok")
                /\ gone' = gone \cup {Op[r].vid}
                /\ UNCHANGED target
    /\ UNCHANGED <<scenario, docs, nextVid, vid, seen, answers, crashes, errs, acked,
                          began, unchecked>>

\* The requests that were being executed when the timer was armed are over: it
\* lasts 15 seconds.
EarlierRequestsAreOver(r) == \A q \in repair[r].during : pc[q] = "done"

\* asyncRepair(), from the timer: the latest version is read ...
RepairReads(r) ==
    /\ repair[r].at = "armed"
    /\ LongDelay => EarlierRequestsAreOver(r)
    /\ repair' = [repair EXCEPT ![r] =
           IF LatestVersion = NoDoc THEN NoRepair
           ELSE [at |-> "write", value |-> LatestVersion, during |-> {}]]
    /\ UNCHANGED <<docs, nextVid, pc, vid, seen, target, reply>> /\ Unnoticed

\* ... and repair() replaces the place holder, or inserts a master if there is none.
RepairWrites(r) ==
    /\ repair[r].at = "write"
    /\ LET m == docs[Master]
           mayReplace == m # NoDoc /\ m.phd /\ m.vid = vid[r]
       IN  /\ docs' = IF mayReplace \/ m = NoDoc
                      THEN [docs EXCEPT ![Master] = repair[r].value] ELSE docs
           /\ unchecked' = unchecked
                  \cup {what \in {"restored"} : m = NoDoc}
                  \cup {what \in {"marked"} :
                            mayReplace /\ repair[r].value.marker /\ Format[scenario] = "v1"}
    /\ repair' = [repair EXCEPT ![r] = NoRepair]
    /\ UNCHANGED <<scenario, nextVid, pc, vid, seen, target, reply, answers, crashes, errs, gone,
                   acked, began>>

-----------------------------------------------------------------------------
(* Gets. *)

GetKey(r) == IF Op[r].type = "getVersion" THEN Op[r].vid ELSE Master

\* getObject() and getObjects(): flagged documents are not found. A version is
\* found or not; without a master, or with a place holder, the latest version
\* is looked for. The find() of getObjects() may read its two documents one after the
\* other; they are read in one step, as each has an answer of its own.
Read(r) ==
    /\ pc[r] = "read"
    /\ began' = [began EXCEPT ![r] = [gone |-> gone, acked |-> acked]]
    /\ answers' = IF Op[r].type # "getObjects" THEN answers
                  ELSE [answers EXCEPT ![r] =
                           IF Live(docs[Op[r].vid]) THEN [result |-> "ok", doc |-> docs[Op[r].vid]]
                           ELSE [result |-> "NoSuchKey", doc |-> NoDoc]]
    /\ LET d == docs[GetKey(r)]
       IN  \/ /\ Op[r].type = "getVersion"
              /\ IF Live(d) THEN Finished(r, "ok", d) ELSE Answer(r, "NoSuchKey")
           \/ /\ Op[r].type # "getVersion" /\ Live(d) /\ ~d.phd
              /\ Finished(r, "ok", d)
           \/ /\ Op[r].type # "getVersion" /\ ~(Live(d) /\ ~d.phd)
              /\ Goto(r, "latest") /\ UNCHANGED reply
    /\ UNCHANGED <<scenario, docs, nextVid, vid, seen, target, repair, crashes, errs, gone,
                   acked, unchecked>>

LatestToGet(r) ==
    /\ pc[r] = "latest" /\ Op[r].type \in GetTypes
    /\ IF LatestVersion = NoDoc THEN Answer(r, "NoSuchKey") ELSE Finished(r, "ok", LatestVersion)
    /\ UNCHANGED <<docs, nextVid, vid, seen, target, repair>> /\ Unnoticed

-----------------------------------------------------------------------------
(* Failures. *)

\* A process crashes between two operations; what it has written stays.
Crash(r) ==
    /\ crashes < MaxCrashes
    /\ pc[r] # "done" \/ repair[r] # NoRepair
    /\ crashes' = crashes + 1
    /\ Goto(r, "done")
    /\ repair' = [repair EXCEPT ![r] = NoRepair]
    /\ UNCHANGED <<scenario, docs, nextVid, vid, seen, target, reply, answers, errs, gone,
                   acked, began, unchecked>>

RemovalErrorIsIgnored(r) ==
    /\ pc[r] \in {"flagAgain", "remove"} /\ Op[r].type \in DeleteTypes
    /\ Op[r].type = "delVersionFast" => target[r] = "placeHolder"

\* An operation fails without an effect. The error of the bulk write that ends
\* a removal is ignored; the writes of putObjectVerCase3 report an error of
\* their own.
OperationFails(r) ==
    /\ errs < MaxErrors
    /\ errs' = errs + 1
    /\ pc[r] \notin {"generate", "done"}
    /\ \/ RemovalErrorIsIgnored(r) /\ RemovalDone(r, TRUE) /\ UNCHANGED target
       \/ /\ pc[r] \in {"writeVersion", "writeMaster"} /\ Op[r].type = "putVersion"
          /\ Answer(r, "NoSuchVersion") /\ UNCHANGED <<gone, target>>
       \/ /\ ~RemovalErrorIsIgnored(r)
          /\ ~(pc[r] \in {"writeVersion", "writeMaster"} /\ Op[r].type = "putVersion")
          /\ Answer(r, "InternalError") /\ UNCHANGED <<gone, target>>
    /\ UNCHANGED <<scenario, docs, nextVid, vid, seen, repair, answers, crashes,
                   acked, began, unchecked>>

\* A repair that fails is forgotten.
RepairFails(r) ==
    /\ errs < MaxErrors /\ errs' = errs + 1
    /\ repair[r] # NoRepair
    /\ repair' = [repair EXCEPT ![r] = NoRepair]
    /\ UNCHANGED <<scenario, docs, nextVid, pc, vid, seen, target, reply, answers, crashes, gone,
                   acked, began, unchecked>>

RequestStep(r) ==
    \/ Generate(r) \/ FindMasterToPut(r) \/ FindVersionToPut(r) \/ WriteVersion(r)
    \/ WriteMasterOfNew(r) \/ WriteMasterOfVersion(r) \/ LatestToPut(r) \/ WriteMasterOfLatest(r)
    \/ Overwrite(r) \/ Flag(r) \/ FlagAgain(r) \/ Remove(r)
    \/ FindMasterToDelete(r) \/ LatestToDelete(r) \/ PlaceHolder(r) \/ DeleteOrRepairPHD(r)
    \/ Read(r) \/ LatestToGet(r)

RepairStep(r) == RepairReads(r) \/ RepairWrites(r)

MgNext ==
    \E r \in Requests :
        RequestStep(r) \/ RepairStep(r) \/ Crash(r) \/ OperationFails(r) \/ RepairFails(r)

MgSafety == MgInit /\ [][MgNext]_mgVars

\* MongoDB answers every operation, with a result or an error, and timers fire.
MgSpec ==
    /\ MgSafety
    /\ \A r \in Requests : WF_mgVars(RequestStep(r)) /\ WF_mgVars(RepairStep(r))
-----------------------------------------------------------------------------
(* Properties. *)

Undisturbed == crashes = 0 /\ errs = 0

Idle == \A r \in Requests : pc[r] = "done" /\ repair[r] = NoRepair

\* The calls of bucket without versioning, or with suspended versioning, write
\* masters that are not versions.
OnlyVersions == \A r \in Calls[scenario] :
    Op[r].type \notin {"putSuspended", "putPlain", "putPlainOplog", "delPlain"}

Steps == {"generate", "findMaster", "findVersion", "writeVersion", "writeMaster", "latest",
          "overwrite", "flag", "flagAgain", "remove", "placeHolder", "read", "done"}

Replies == [result : {"ok", "NoSuchKey", "NoSuchVersion", "InternalError"}, doc : Doc \cup {NoDoc}]

\* The variables have their types, a version key holds the version of its name, and no
\* place holder is a version.
MgTypeOK ==
    /\ scenario \in Scenarios
    /\ docs \in [Keys -> Doc \cup {NoDoc}]
    /\ \A v \in Vids : docs[v] # NoDoc => docs[v].vid = v /\ ~docs[v].phd
    /\ nextVid \in 0 .. FirstVid
    /\ pc \in [Requests -> Steps]
    /\ vid \in [Requests -> Vids \cup {NoVid}]
    /\ seen \in [Requests -> Doc \cup {NoDoc}]
    /\ target \in [Requests -> {"none", "version", "master", "masterVersion", "placeHolder", "plain"}]
    /\ repair \in [Requests -> [at : {"none", "armed", "write"}, value : Doc \cup {NoDoc},
                               during : SUBSET Requests]]
    /\ reply \in [Requests -> Replies \cup {NoReply}]
    /\ answers \in [Requests -> Replies \cup {NoReply}]
    /\ crashes \in 0 .. MaxCrashes /\ errs \in 0 .. MaxErrors
    /\ gone \subseteq Vids /\ acked \subseteq Vids
    /\ began \in [Requests -> [gone : SUBSET Vids, acked : SUBSET Vids]]
    /\ unchecked \subseteq {"inserted", "restored", "replaced", "removed", "marked"}

\* The updates of the master by puts, deletions and repairs of several processes
\* (putObjectVerCase1 and its filter, deleteOrRepairPHD, repair) leave the latest
\* version as master, in the v1 format none behind a delete marker, and no
\* document flagged. A place holder may stay where no version is left: its repair
\* gives up when the last version was removed after the repair was decided. Excepted are
\* the behaviours of one of the four writes of the master that no filter keeps from doing
\* otherwise (unchecked): a place holder over a newer master, an insertion where no master
\* is, the removal of a place holder that hides a new version, and, in the v1 format, a
\* delete marker that a repair makes the master.
MasterIsLatest ==
    Idle /\ Undisturbed /\ unchecked = {} /\ OnlyVersions =>
        /\ \A k \in Keys : docs[k] # NoDoc => Live(docs[k])
        /\ \/ docs[Master] = IF LatestVersion # NoDoc /\ LatestVersion.marker
                                 /\ Format[scenario] = "v1"
                             THEN NoDoc ELSE LatestVersion
           \/ LatestVersion = NoDoc /\ docs[Master].phd

\* "It is possible that 2 version creations are inverted in flight so we also check that we
\* update a master only if the version in place is greater" (putObjectVerCase1): the master
\* is the newest version.
NewestPutIsMaster ==
    Idle /\ Undisturbed /\ OnlyVersions /\ docs[Master] # NoDoc /\ ~docs[Master].phd =>
        docs[Master] = LatestVersion

\* The versions that a call of the behaviour puts, or deletes.
IsPut(v) == \E p \in Calls[scenario] : Op[p].type \in PutTypes /\ v \in {Op[p].vid, vid[p]}
IsDeleted(v) == \E p \in Calls[scenario] : Op[p].type \in DeleteTypes /\ Op[p].vid = v

\* No get was answered with a place holder, a flagged document or a version whose deletion
\* was acknowledged (deleteObjectVer) before the get began. Versions that a request puts,
\* once more or at all, are left out.
NothingDeletedIsServed ==
    \A r \in Calls[scenario] :
        Op[r].type \in GetTypes /\ reply[r] # NoReply /\ reply[r].doc # NoDoc =>
            /\ ~reply[r].doc.phd /\ ~reply[r].doc.flagged
            /\ reply[r].doc.vid \in began[r].gone => IsPut(reply[r].doc.vid)

\* Nothing deleted is served, through crashes and errors and also when a put has inserted
\* an older master, unless a repair has inserted a master where it found none: what it
\* inserts may have been deleted since it was read (RepairIsSafe).
DeletedIsNotServed == "restored" \notin unchecked => NothingDeletedIsServed

\* "The process is safe because we never replace a non-PHD master" (asyncRepair): neither
\* does a repair bring back what is deleted.
RepairIsSafe == Undisturbed => NothingDeletedIsServed

\* A get that begins after a new version was acknowledged (putObjectVerCase1 takes
\* a duplicate key for a success), which nobody deletes, is served that version or
\* a newer one, crashes and errors of others included. Excepted are the behaviours in which
\* a put or a repair has inserted a master where it found none, or a place holder has
\* replaced a newer master: each of them may hide the version.
AcknowledgedPutIsServed ==
    \A r \in Calls[scenario] :
        Op[r].type \in {"get", "getObjects"} /\ reply[r] # NoReply
            /\ reply[r].result # "InternalError" /\ OnlyVersions
            /\ unchecked \cap {"inserted", "restored", "replaced"} = {} =>
            \A v \in began[r].acked : ~IsDeleted(v) => reply[r].doc # NoDoc /\ reply[r].doc.vid <= v

\* A place holder is replaced or removed (deleteOrRepairPHD), unless a crash or an
\* error has cost its repair, or no version is left.
PlaceHolderIsReplaced ==
    (docs[Master] # NoDoc /\ docs[Master].phd)
        ~> (~Undisturbed \/ docs[Master] = NoDoc \/ ~docs[Master].phd \/ LatestVersion = NoDoc)
================================================================================
