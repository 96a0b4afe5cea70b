------------------------- MODULE MongoVersioning_proofs -------------------------
(***************************************************************************)
(* Proofs about MongoVersioning: for any number of calls of any types, any *)
(* documents to begin with, any number of crashes and errors.              *)
(***************************************************************************)
EXTENDS MongoVersioning, NaturalsInduction, WellFoundedInduction, TLAPS

-----------------------------------------------------------------------------
(* The latest version.                                                     *)

\* A set of numbers that is not empty has a least one.
LEMMA LeastVid ==
    ASSUME NEW T \in SUBSET Vids, T # {}
    PROVE  Min(T) \in T /\ \A n \in T : Min(T) <= n
<1>1. T \in SUBSET Nat
  BY MongoAssumption DEF Vids
<1>2. \E m \in T : \A n \in T : ~ (<<n, m>> \in OpToRel(<, Nat))
  BY <1>1, NatLessThanWellFounded, WFMin
<1>3. PICK m \in T : \A n \in T : ~ (<<n, m>> \in OpToRel(<, Nat))
  BY <1>2
<1>4. ASSUME NEW n \in T
      PROVE  m <= n
  <2>1. ~ (<<n, m>> \in OpToRel(<, Nat))
    BY <1>3
  <2>2. ~ (n < m)
    BY <2>1, <1>1 DEF OpToRel
  <2>3. QED
    BY <2>2, <1>1
<1>5. QED
  BY <1>4 DEF Min

\* The latest version is the first of the version keys that is live.
LEMMA LatestIsFirst ==
    ASSUME MgTypeOK
    PROVE  /\ LatestVersion = NoDoc => \A v \in Vids : ~Live(docs[v])
           /\ LatestVersion # NoDoc =>
                  /\ LatestVersion \in Doc /\ LatestVersion.vid \in Vids
                  /\ LatestVersion = docs[LatestVersion.vid]
                  /\ Live(LatestVersion) /\ ~LatestVersion.phd
                  /\ \A v \in Vids : Live(docs[v]) => LatestVersion.vid <= v
<1> DEFINE live == {v \in Vids : Live(docs[v])}
<1>1. LatestVersion = IF live = {} THEN NoDoc ELSE docs[Min(live)]
  BY DEF LatestVersion
<1>2. CASE live = {}
  BY <1>1, <1>2
<1>3. CASE live # {}
  <2>1. live \in SUBSET Vids
    OBVIOUS
  <2>2. Min(live) \in live /\ \A v \in live : Min(live) <= v
    BY <1>3, <2>1, LeastVid
  <2>3. Live(docs[Min(live)]) /\ Min(live) \in Vids
    BY <2>2
  <2>4. LatestVersion = docs[Min(live)] /\ LatestVersion # NoDoc
    BY <1>1, <1>3, <2>3 DEF Live
  <2>5. docs[Min(live)] \in Doc \cup {NoDoc} /\ docs[Min(live)].vid = Min(live) /\ ~docs[Min(live)].phd
    BY <2>3 DEF MgTypeOK, Live, Keys
  <2>6. \A v \in Vids : Live(docs[v]) => Min(live) <= v
    BY <2>2
  <2> HIDE DEF live
  <2>7. QED
    BY <2>3, <2>4, <2>5, <2>6
<1>4. QED
  BY <1>2, <1>3

-----------------------------------------------------------------------------
(* Types, and what a request is doing.                                     *)

\* The version ids that were generated are different and not to be generated again.
FreshVids ==
    /\ \A r \in Requests : vid[r] # NoVid => nextVid < vid[r] /\ vid[r] <= FirstVid
    /\ \A q, r \in Requests : vid[q] = vid[r] /\ vid[q] # NoVid => q = r

\* The operation that r executes next is one of its call.
StepFits(r) ==
    /\ pc[r] # "done" => r \in Calls[scenario] /\ reply[r] = NoReply
    /\ pc[r] = "generate" => Op[r].type \in {"putNew", "putSuspended"} /\ vid[r] = NoVid
    /\ pc[r] = "findMaster" => Op[r].type \in {"putVersion"} \cup VersionDeletes /\ vid[r] = NoVid
    /\ pc[r] = "findVersion" => Op[r].type = "putVersion"
    /\ pc[r] \in {"writeVersion", "writeMaster"} =>
           /\ Op[r].type \in {"putNew", "putVersion", "putRepair"}
           /\ Op[r].type = "putNew" => vid[r] # NoVid
    /\ pc[r] = "overwrite" => Op[r].type \in {"putSuspended", "putPlain", "putPlainOplog"}
    /\ pc[r] = "latest" => Op[r].type \in {"putRepair"} \cup GetTypes \cup VersionDeletes
    /\ pc[r] = "placeHolder" => Op[r].type \in VersionDeletes /\ vid[r] # NoVid
    /\ pc[r] = "read" => Op[r].type \in GetTypes
    /\ vid[r] # NoVid => Op[r].type \in {"putNew", "putSuspended"} \cup VersionDeletes

\* What r removes is what its call deletes, and it has flagged the document it writes again.
TargetFits(r) ==
    /\ pc[r] = "latest" /\ Op[r].type \in VersionDeletes /\ vid[r] # NoVid => target[r] = "masterVersion"
    /\ pc[r] \in {"flag", "flagAgain", "remove"} =>
           \/ Op[r].type \in VersionDeletes /\ target[r] = "version"
           \/ Op[r].type \in VersionDeletes /\ target[r] \in {"masterVersion", "placeHolder"} /\ vid[r] # NoVid
           \/ Op[r].type = "delPlain" /\ target[r] = "plain"
           \/ Op[r].type = "putPlainOplog" /\ target[r] = "none"
    /\ Op[r].type = "delPlain" => target[r] = "plain"
    /\ Op[r].type = "putPlainOplog" => target[r] = "none"
    /\ target[r] = "master" => Op[r].type = "putVersion"

\* What r has read and is about to write.
SeenFits(r) ==
    /\ pc[r] = "writeMaster" /\ Op[r].type = "putRepair" =>
           Live(seen[r]) /\ seen[r].vid \in Vids /\ ~seen[r].phd
    /\ pc[r] = "flagAgain" =>
           /\ seen[r] # NoDoc /\ seen[r].flagged
           /\ target[r] \in {"version", "masterVersion"} => seen[r].vid = Op[r].vid /\ ~seen[r].phd
           /\ target[r] = "placeHolder" => seen[r].vid = vid[r] /\ seen[r].phd

\* A repair is that of a deletion which is over.
RepairFits(r) ==
    /\ repair[r].at # "none" =>
           /\ pc[r] = "done" /\ vid[r] # NoVid
           /\ Op[r].type \in VersionDeletes /\ target[r] = "masterVersion"
    /\ repair[r].at = "write" =>
           Live(repair[r].value) /\ repair[r].value.vid \in Vids /\ ~repair[r].value.phd

\* What a get remembers has happened.
BeganFits(r) == began[r].gone \subseteq gone /\ began[r].acked \subseteq acked

Fits(r) == StepFits(r) /\ TargetFits(r) /\ SeenFits(r) /\ RepairFits(r) /\ BeganFits(r)

ControlOK == FreshVids /\ \A r \in Requests : Fits(r)

\* The steps of one request, or of the repair it leaves behind.
StepOf(r) == RequestStep(r) \/ RepairStep(r) \/ Crash(r) \/ OperationFails(r) \/ RepairFails(r)

\* A step of r changes the state of r only.
OthersStay(r) ==
    \A q \in Requests \ {r} :
        /\ pc'[q] = pc[q] /\ vid'[q] = vid[q] /\ seen'[q] = seen[q] /\ target'[q] = target[q]
        /\ repair'[q] = repair[q] /\ reply'[q] = reply[q] /\ began'[q] = began[q]

\* A step of one call leaves the control of the other calls alone, and the scenario.
LEMMA StepChangesOne ==
    ASSUME MgTypeOK, NEW r \in Requests, StepOf(r)
    PROVE  OthersStay(r) /\ scenario' = scenario
<1>1. CASE RequestStep(r)
  <2> USE DEF OthersStay, Goto, Answer, Finished, Generated, Unnoticed, Notice, MgTypeOK
  <2>1. CASE Generate(r)
    BY <2>1 DEF Generate
  <2>2. CASE FindMasterToPut(r)
    BY <2>2 DEF FindMasterToPut
  <2>3. CASE FindVersionToPut(r)
    BY <2>3 DEF FindVersionToPut
  <2>4. CASE WriteVersion(r)
    BY <2>4 DEF WriteVersion
  <2>5. CASE WriteMasterOfNew(r)
    BY <2>5 DEF WriteMasterOfNew
  <2>6. CASE WriteMasterOfVersion(r)
    BY <2>6 DEF WriteMasterOfVersion
  <2>7. CASE LatestToPut(r)
    BY <2>7 DEF LatestToPut
  <2>8. CASE WriteMasterOfLatest(r)
    BY <2>8 DEF WriteMasterOfLatest
  <2>9. CASE Overwrite(r)
    BY <2>9 DEF Overwrite
  <2>10. CASE Flag(r)
    BY <2>10 DEF Flag, RemovalDone
  <2>11. CASE FlagAgain(r)
    BY <2>11 DEF FlagAgain
  <2>12. CASE Remove(r)
    BY <2>12 DEF Remove, RemovalDone
  <2>13. CASE FindMasterToDelete(r)
    BY <2>13 DEF FindMasterToDelete, ChooseDeletion
  <2>14. CASE LatestToDelete(r)
    BY <2>14 DEF LatestToDelete, ChooseDeletion
  <2>15. CASE PlaceHolder(r)
    BY <2>15 DEF PlaceHolder
  <2>16. CASE DeleteOrRepairPHD(r)
    BY <2>16 DEF DeleteOrRepairPHD
  <2>17. CASE Read(r)
    BY <2>17 DEF Read
  <2>18. CASE LatestToGet(r)
    BY <2>18 DEF LatestToGet
  <2>19. QED
    BY <1>1, <2>1, <2>2, <2>3, <2>4, <2>5, <2>6, <2>7, <2>8, <2>9, <2>10, <2>11, <2>12, <2>13,
       <2>14, <2>15, <2>16, <2>17, <2>18 DEF RequestStep
<1>2. CASE RepairStep(r)
  BY <1>2 DEF RepairStep, RepairReads, RepairWrites, OthersStay, Unnoticed, MgTypeOK
<1>3. CASE Crash(r)
  BY <1>3 DEF Crash, Goto, OthersStay, MgTypeOK
<1>4. CASE OperationFails(r)
  BY <1>4 DEF OperationFails, RemovalDone, Answer, Finished, Goto, OthersStay, MgTypeOK
<1>5. CASE RepairFails(r)
  BY <1>5 DEF RepairFails, OthersStay, MgTypeOK
<1>6. QED
  BY <1>1, <1>2, <1>3, <1>4, <1>5 DEF StepOf
\* What the assumption says of the parameters, in the form the proofs use.
LEMMA Parameters ==
    /\ Vids \subseteq Nat \ {0} /\ Master \notin Vids /\ NoVid \notin Vids /\ NoDoc \notin Doc
    /\ FirstVid \in Vids
    /\ \A r \in Requests :
           /\ Op[r].type \in Naming => Op[r].vid \in Vids
           /\ Op[r].type \notin Naming => Op[r].vid = NoVid
           /\ Op[r].marker \in BOOLEAN
<1>1. Vids \subseteq Nat \ {0} /\ FirstVid \in Vids
  BY MongoAssumption DEF Vids
<1>2. Master \notin Vids /\ NoVid \notin Vids
  BY MongoAssumption, <1>1
<1>3. QED
  BY <1>1, <1>2, MongoAssumption

\* What a request puts is a document.
LEMMA ValueIsDoc ==
    ASSUME NEW r \in Requests, NEW v \in Vids \cup {NoVid}
    PROVE  /\ ValueOf(r, v) \in Doc
           /\ ValueOf(r, v).vid = v /\ ~ValueOf(r, v).phd /\ ~ValueOf(r, v).flagged
           /\ ValueOf(r, v).marker = Op[r].marker
BY Parameters DEF ValueOf, Doc

\* The master after a write with a filter is the value, none, or what it was.
LEMMA UpdateIs ==
    ASSUME NEW value, NEW matches \in BOOLEAN, NEW upsert \in BOOLEAN
    PROVE  LET after == UpdateDeleteMaster(value, matches, upsert).doc
           IN  /\ after \in {value, NoDoc, docs[Master]}
               /\ ~matches /\ docs[Master] # NoDoc => after = docs[Master]
               /\ matches => after \in {value, NoDoc}
BY DEF UpdateDeleteMaster

\* The documents are documents, each version under its own key.
DocsOK ==
    /\ docs \in [Keys -> Doc \cup {NoDoc}]
    /\ \A v \in Vids : docs[v] # NoDoc => docs[v].vid = v /\ ~docs[v].phd

\* The documents are typed.
LEMMA TypesOfDocs == MgTypeOK => DocsOK
BY DEF MgTypeOK, DocsOK

\* The filter matches or not.
LEMMA BooleanTests ==
    ASSUME NEW x, NEW y
    PROVE  (x = y) \in BOOLEAN /\ (x # y) \in BOOLEAN
OBVIOUS

\* A document that is written under its key.
LEMMA DocsStay ==
    ASSUME DocsOK, NEW k \in Keys, NEW d \in Doc \cup {NoDoc}, docs' = [docs EXCEPT ![k] = d],
           k \in Vids /\ d # NoDoc => d.vid = k /\ ~d.phd
    PROVE  /\ DocsOK' /\ docs'[k] = d
           /\ \A j \in Keys : j # k => docs'[j] = docs[j]
<1>1. docs' \in [Keys -> Doc \cup {NoDoc}]
  BY DEF DocsOK
<1>2. \A v \in Keys : docs'[v] = IF v = k THEN d ELSE docs[v]
  BY DEF DocsOK
<1>3. \A v \in Vids : docs[v] # NoDoc => docs[v].vid = v /\ ~docs[v].phd
  BY DEF DocsOK
<1>4. Vids \subseteq Keys
  BY DEF Keys
<1>5. QED
  BY <1>1, <1>2, <1>3, <1>4 DEF DocsOK

\* The master is written with a document, or removed.
MasterWritten(d) ==
    /\ DocsOK' /\ docs'[Master] = d /\ \A v \in Vids : docs'[v] = docs[v]

\* The master alone is written.
LEMMA MasterStays ==
    ASSUME DocsOK, NEW d \in Doc \cup {NoDoc}, docs' = [docs EXCEPT ![Master] = d]
    PROVE  MasterWritten(d)
<1>1. Master \in Keys /\ Master \notin Vids /\ Vids \subseteq Keys
  BY Parameters DEF Keys
<1>2. DocsOK' /\ docs'[Master] = d /\ \A j \in Keys : j # Master => docs'[j] = docs[j]
  BY <1>1, DocsStay
<1>3. QED
  BY <1>1, <1>2 DEF MasterWritten

\* A version is written, or removed.
VersionWritten(v, d) ==
    /\ DocsOK' /\ docs'[v] = d /\ docs'[Master] = docs[Master]
    /\ \A w \in Vids \ {v} : docs'[w] = docs[w]

\* A version key alone is written, with a version of its own id.
LEMMA VersionStays ==
    ASSUME DocsOK, NEW v \in Vids, NEW d \in Doc \cup {NoDoc}, docs' = [docs EXCEPT ![v] = d],
           d # NoDoc => d.vid = v /\ ~d.phd
    PROVE  VersionWritten(v, d)
<1>1. Master \in Keys /\ Master \notin Vids /\ Vids \subseteq Keys
  BY Parameters DEF Keys
<1>2. DocsOK' /\ docs'[v] = d /\ \A j \in Keys : j # v => docs'[j] = docs[j]
  BY <1>1, DocsStay
<1>3. QED
  BY <1>1, <1>2 DEF VersionWritten
-----------------------------------------------------------------------------
(* What each action does to the documents.                                 *)

\* The key that a removal is about: the version its call deletes, or the master.
LEMMA TargetIs ==
    ASSUME NEW r \in Requests, Fits(r), pc[r] \in {"flag", "flagAgain", "remove"}
    PROVE  \/ /\ target[r] \in {"version", "masterVersion"} /\ TargetKey(r) = Op[r].vid
              /\ Op[r].vid \in Vids /\ Op[r].type \in VersionDeletes /\ r \in Calls[scenario]
           \/ target[r] \notin {"version", "masterVersion"} /\ TargetKey(r) = Master
<1>1. CASE target[r] \in {"version", "masterVersion"}
  <2>1. Op[r].type \in VersionDeletes /\ r \in Calls[scenario]
    BY <1>1 DEF Fits, TargetFits, StepFits
  <2>2. Op[r].vid \in Vids
    BY <2>1, Parameters DEF Naming
  <2>3. QED
    BY <1>1, <2>1, <2>2 DEF TargetKey
<1>2. CASE target[r] \notin {"version", "masterVersion"}
  BY <1>2 DEF TargetKey
<1>3. QED
  BY <1>1, <1>2

\* A put writes its version key with its own version.
LEMMA DocsOfWriteVersion ==
    ASSUME DocsOK, NEW r \in Requests, Fits(r), vid[r] \in Vids \cup {NoVid}, WriteVersion(r)
    PROVE  /\ PutVid(r) \in Vids
           /\ VersionWritten(PutVid(r), ValueOf(r, PutVid(r)))
<1>1. PutVid(r) \in Vids
  <2>1. pc[r] = "writeVersion"
    BY DEF WriteVersion
  <2>2. /\ Op[r].type \in {"putNew", "putVersion", "putRepair"}
        /\ Op[r].type = "putNew" => vid[r] # NoVid
    BY <2>1 DEF Fits, StepFits
  <2>3. QED
    BY <2>2, Parameters DEF PutVid, Naming
<1>2. docs' = [docs EXCEPT ![PutVid(r)] = ValueOf(r, PutVid(r))]
  BY DEF WriteVersion
<1>3. QED
  BY <1>1, <1>2, ValueIsDoc, VersionStays

\* A new version becomes the master, or removes it when it is a delete marker,
\* unless the master is newer.
LEMMA DocsOfWriteMasterOfNew ==
    ASSUME DocsOK, NEW r \in Requests, Fits(r), vid[r] \in Vids \cup {NoVid}, WriteMasterOfNew(r)
    PROVE  LET m == docs[Master]
               d == docs'[Master]
           IN  /\ vid[r] \in Vids
               /\ MasterWritten(d)
               /\ d \in {ValueOf(r, vid[r]), NoDoc, m}
               /\ m # NoDoc /\ ~(m.vid = NoVid \/ m.vid > vid[r]) => d = m
               /\ m # NoDoc /\ (m.vid = NoVid \/ m.vid > vid[r]) => d \in {ValueOf(r, vid[r]), NoDoc}
               /\ m = NoDoc /\ d # NoDoc /\ HasNewer(vid[r]) => "inserted" \in unchecked'
<1> DEFINE m       == docs[Master]
           matches == m # NoDoc /\ (m.vid = NoVid \/ m.vid > vid[r])
           d       == UpdateDeleteMaster(ValueOf(r, vid[r]), matches, TRUE).doc
<1>1. vid[r] \in Vids
  <2>1. pc[r] = "writeMaster" /\ Op[r].type = "putNew"
    BY DEF WriteMasterOfNew
  <2>2. QED
    BY <2>1 DEF Fits, StepFits
<1>2. docs' = [docs EXCEPT ![Master] = d] /\ Notice("inserted", m = NoDoc /\ d # NoDoc /\ HasNewer(vid[r]))
  BY DEF WriteMasterOfNew
<1>3. /\ d \in {ValueOf(r, vid[r]), NoDoc, m}
      /\ ~matches /\ m # NoDoc => d = m
      /\ matches => d \in {ValueOf(r, vid[r]), NoDoc}
  <2>1. matches \in BOOLEAN
    OBVIOUS
  <2> HIDE DEF matches
  <2>2. QED
    BY <2>1, UpdateIs
<1>4. m \in Doc \cup {NoDoc} /\ ValueOf(r, vid[r]) \in Doc
  BY <1>1, ValueIsDoc DEF DocsOK, Keys
<1> HIDE DEF d
<1>5. MasterWritten(d)
  BY <1>2, <1>3, <1>4, MasterStays
<1>6. docs'[Master] = d
  BY <1>5 DEF MasterWritten
<1>7. m = NoDoc /\ d # NoDoc /\ HasNewer(vid[r]) => "inserted" \in unchecked'
  BY <1>2 DEF Notice
<1>8. QED
  BY <1>1, <1>3, <1>5, <1>6, <1>7

\* A version that is put again becomes the master if the master has its id or there was none.
LEMMA DocsOfWriteMasterOfVersion ==
    ASSUME DocsOK, NEW r \in Requests, WriteMasterOfVersion(r)
    PROVE  LET m == docs[Master]
               d == docs'[Master]
           IN  /\ Op[r].vid \in Vids
               /\ MasterWritten(d)
               /\ d \in {ValueOf(r, Op[r].vid), NoDoc, m}
               /\ m # NoDoc /\ m.vid # Op[r].vid => d = m
               /\ m # NoDoc /\ m.vid = Op[r].vid => d \in {ValueOf(r, Op[r].vid), NoDoc}
               /\ m = NoDoc /\ d # NoDoc /\ HasNewer(Op[r].vid) => "inserted" \in unchecked'
<1> DEFINE m       == docs[Master]
           matches == m # NoDoc /\ m.vid = Op[r].vid
           upsert  == seen[r] = NoDoc
           d       == UpdateDeleteMaster(ValueOf(r, Op[r].vid), matches, upsert).doc
<1>1. Op[r].vid \in Vids
  <2>1. Op[r].type = "putVersion"
    BY DEF WriteMasterOfVersion
  <2>2. QED
    BY <2>1, Parameters DEF Naming
<1>2. docs' = [docs EXCEPT ![Master] = d] /\ Notice("inserted", m = NoDoc /\ d # NoDoc /\ HasNewer(Op[r].vid))
  BY DEF WriteMasterOfVersion
<1>3. /\ d \in {ValueOf(r, Op[r].vid), NoDoc, m}
      /\ ~matches /\ m # NoDoc => d = m
      /\ matches => d \in {ValueOf(r, Op[r].vid), NoDoc}
  <2>1. matches \in BOOLEAN /\ upsert \in BOOLEAN
    OBVIOUS
  <2> HIDE DEF matches, upsert
  <2>2. QED
    BY <2>1, UpdateIs
<1>4. m \in Doc \cup {NoDoc} /\ ValueOf(r, Op[r].vid) \in Doc
  BY <1>1, ValueIsDoc DEF DocsOK, Keys
<1> HIDE DEF d
<1>5. MasterWritten(d)
  BY <1>2, <1>3, <1>4, MasterStays
<1>6. docs'[Master] = d
  BY <1>5 DEF MasterWritten
<1>7. m = NoDoc /\ d # NoDoc /\ HasNewer(Op[r].vid) => "inserted" \in unchecked'
  BY <1>2 DEF Notice
<1>8. QED
  BY <1>1, <1>3, <1>5, <1>6, <1>7

\* The latest version that the repair of a put has read becomes the master if that
\* one is not newer.
LEMMA DocsOfWriteMasterOfLatest ==
    ASSUME DocsOK, NEW r \in Requests, seen[r] \in Doc \cup {NoDoc}, WriteMasterOfLatest(r)
    PROVE  LET m == docs[Master]
               d == docs'[Master]
           IN  /\ MasterWritten(d)
               /\ d \in {seen[r], NoDoc, m}
               /\ m # NoDoc /\ ~(m.vid # NoVid /\ m.vid >= seen[r].vid) => d = m
               /\ m = NoDoc /\ d # NoDoc => "restored" \in unchecked'
<1> DEFINE m       == docs[Master]
           matches == m # NoDoc /\ m.vid # NoVid /\ m.vid >= seen[r].vid
           d       == UpdateDeleteMaster(seen[r], matches, TRUE).doc
<1>2. docs' = [docs EXCEPT ![Master] = d] /\ Notice("restored", m = NoDoc /\ d # NoDoc)
  BY DEF WriteMasterOfLatest
<1>3. /\ d \in {seen[r], NoDoc, m}
      /\ ~matches /\ m # NoDoc => d = m
  <2>1. matches \in BOOLEAN
    OBVIOUS
  <2> HIDE DEF matches
  <2>2. QED
    BY <2>1, UpdateIs
<1>4. m \in Doc \cup {NoDoc}
  BY DEF DocsOK, Keys
<1> HIDE DEF d
<1>5. MasterWritten(d)
  BY <1>2, <1>3, <1>4, MasterStays
<1>6. docs'[Master] = d
  BY <1>5 DEF MasterWritten
<1>7. m = NoDoc /\ d # NoDoc => "restored" \in unchecked'
  BY <1>2 DEF Notice
<1>8. QED
  BY <1>3, <1>5, <1>6, <1>7
\* A put without a condition writes the master.
LEMMA DocsOfOverwrite ==
    ASSUME DocsOK, NEW r \in Requests, vid[r] \in Vids \cup {NoVid}, Overwrite(r)
    PROVE  MasterWritten(ValueOf(r, vid[r]))
<1>1. docs' = [docs EXCEPT ![Master] = ValueOf(r, vid[r])]
  BY DEF Overwrite
<1>2. QED
  BY <1>1, ValueIsDoc, MasterStays

\* A document is written under the key of a removal: a version or the master.
TargetWritten(r, d) ==
    \/ /\ target[r] \in {"version", "masterVersion"} /\ Op[r].type \in VersionDeletes
       /\ Op[r].vid \in Vids /\ r \in Calls[scenario]
       /\ VersionWritten(Op[r].vid, d)
    \/ target[r] \notin {"version", "masterVersion"} /\ MasterWritten(d)

\* A deletion writes the document it is about alone.
LEMMA TargetStays ==
    ASSUME DocsOK, NEW r \in Requests, Fits(r), pc[r] \in {"flag", "flagAgain", "remove"},
           NEW d \in Doc \cup {NoDoc}, docs' = [docs EXCEPT ![TargetKey(r)] = d],
           d # NoDoc /\ target[r] \in {"version", "masterVersion"} => d.vid = Op[r].vid /\ ~d.phd
    PROVE  TargetWritten(r, d)
<1>1. CASE target[r] \in {"version", "masterVersion"}
  <2>1. /\ TargetKey(r) = Op[r].vid /\ Op[r].vid \in Vids /\ Op[r].type \in VersionDeletes
        /\ r \in Calls[scenario]
    BY <1>1, TargetIs
  <2>2. docs' = [docs EXCEPT ![Op[r].vid] = d]
    BY <2>1
  <2>3. d # NoDoc => d.vid = Op[r].vid /\ ~d.phd
    BY <1>1
  <2>4. VersionWritten(Op[r].vid, d)
    BY <2>1, <2>2, <2>3, VersionStays
  <2>5. QED
    BY <1>1, <2>1, <2>4 DEF TargetWritten
<1>2. CASE target[r] \notin {"version", "masterVersion"}
  <2>1. docs' = [docs EXCEPT ![Master] = d]
    BY <1>2, TargetIs
  <2>2. QED
    BY <1>2, <2>1, MasterStays DEF TargetWritten
<1>3. QED
  BY <1>1, <1>2

\* A document is flagged, and its other fields stay.
LEMMA FlaggedIs ==
    ASSUME NEW d \in Doc
    PROVE  LET f == [d EXCEPT !.flagged = TRUE]
           IN  /\ f \in Doc /\ f # NoDoc /\ f.flagged
               /\ f.vid = d.vid /\ f.phd = d.phd /\ f.marker = d.marker
<1>1. [d EXCEPT !.flagged = TRUE] \in Doc
  BY DEF Doc
<1>2. QED
  BY <1>1, Parameters DEF Doc

\* The removal flags the document, if it is there, live, and the one to remove.
LEMMA DocsOfFlag ==
    ASSUME DocsOK, NEW r \in Requests, Fits(r), Flag(r)
    PROVE  \/ /\ docs' = docs /\ pc' \in {[pc EXCEPT ![r] = "done"], [pc EXCEPT ![r] = "latest"]}
              /\ ~(Live(docs[TargetKey(r)]) /\ MatchesTarget(r, docs[TargetKey(r)]))
           \/ LET d == docs[TargetKey(r)]
                  f == [d EXCEPT !.flagged = TRUE]
              IN  /\ Live(d) /\ MatchesTarget(r, d) /\ d \in Doc
                  /\ target[r] \in {"version", "masterVersion"} => d.vid = Op[r].vid /\ ~d.phd
                  /\ TargetWritten(r, f) /\ f \in Doc /\ f.flagged /\ f.vid = d.vid /\ f.phd = d.phd
                  /\ seen' = [seen EXCEPT ![r] = f] /\ pc' = [pc EXCEPT ![r] = "flagAgain"]
                  /\ UNCHANGED <<reply, gone>>
<1> DEFINE k == TargetKey(r)
           d == docs[k]
           f == [d EXCEPT !.flagged = TRUE]
           found == Live(d) /\ MatchesTarget(r, d)
<1>1. pc[r] = "flag"
  BY DEF Flag
<1>2. k \in Keys /\ d \in Doc \cup {NoDoc}
  BY <1>1, TargetIs DEF DocsOK, Keys
<1>3. CASE found
  <2>1. /\ docs' = [docs EXCEPT ![k].flagged = TRUE]
        /\ seen' = [seen EXCEPT ![r] = f] /\ pc' = [pc EXCEPT ![r] = "flagAgain"]
        /\ UNCHANGED <<reply, gone>>
    BY <1>3 DEF Flag, Goto
  <2>2. d \in Doc /\ Live(d) /\ MatchesTarget(r, d)
    BY <1>2, <1>3 DEF Live
  <2>3. f \in Doc /\ f # NoDoc /\ f.flagged /\ f.vid = d.vid /\ f.phd = d.phd
    BY <2>2, FlaggedIs
  <2>4. docs' = [docs EXCEPT ![k] = f]
    BY <2>1
  <2>5. target[r] \in {"version", "masterVersion"} => d.vid = Op[r].vid /\ ~d.phd
    <3>1. target[r] \in {"version", "masterVersion"} => k = Op[r].vid /\ k \in Vids
      BY <1>1, TargetIs
    <3>2. QED
      BY <3>1, <2>2 DEF DocsOK, Live
  <2> HIDE DEF k, d, f
  <2>6. TargetWritten(r, f)
    <3>1. pc[r] \in {"flag", "flagAgain", "remove"}
      BY <1>1
    <3>2. docs' = [docs EXCEPT ![TargetKey(r)] = f]
      BY <2>4 DEF k
    <3>3. f \in Doc \cup {NoDoc}
      BY <2>3
    <3>4. target[r] \in {"version", "masterVersion"} => f.vid = Op[r].vid /\ ~f.phd
      BY <2>3, <2>5
    <3>5. QED
      BY <3>1, <3>2, <3>3, <3>4, TargetStays
  <2>7. QED
    BY <2>1, <2>2, <2>3, <2>5, <2>6 DEF k, d, f
<1>4. CASE ~found
  <2>1. docs' = docs /\ pc' \in {[pc EXCEPT ![r] = "done"], [pc EXCEPT ![r] = "latest"]}
    <3>1. /\ docs' = docs
          /\ Answer(r, "InternalError") \/ RemovalDone(r, FALSE)
      BY <1>4 DEF Flag
    <3> HIDE DEF found
    <3>2. QED
      BY <3>1 DEF RemovalDone, Answer, Finished, Goto
  <2>2. QED
    BY <1>4, <2>1
<1>5. QED
  BY <1>3, <1>4
\* The removal writes the document again as it was flagged, if it still is.
LEMMA DocsOfFlagAgain ==
    ASSUME DocsOK, NEW r \in Requests, Fits(r), seen[r] \in Doc \cup {NoDoc}, FlagAgain(r)
    PROVE  \/ docs' = docs
           \/ LET d == docs[TargetKey(r)]
              IN  /\ d # NoDoc /\ d.flagged /\ MatchesTarget(r, d)
                  /\ TargetWritten(r, seen[r]) /\ seen[r] # NoDoc /\ seen[r].flagged
<1> DEFINE d == docs[TargetKey(r)]
           found == d # NoDoc /\ d.flagged /\ MatchesTarget(r, d)
<1>1. pc[r] = "flagAgain"
  BY DEF FlagAgain
<1>2. /\ seen[r] # NoDoc /\ seen[r].flagged
      /\ target[r] \in {"version", "masterVersion"} => seen[r].vid = Op[r].vid /\ ~seen[r].phd
  BY <1>1 DEF Fits, SeenFits
<1>3. docs' = IF found THEN [docs EXCEPT ![TargetKey(r)] = seen[r]] ELSE docs
  BY DEF FlagAgain
<1>4. CASE found
  <2>1. pc[r] \in {"flag", "flagAgain", "remove"}
    BY <1>1
  <2>2. docs' = [docs EXCEPT ![TargetKey(r)] = seen[r]]
    BY <1>3, <1>4
  <2>3. TargetWritten(r, seen[r])
    BY <1>2, <2>1, <2>2, TargetStays
  <2>4. QED
    BY <1>2, <1>4, <2>3
<1>5. CASE ~found
  BY <1>3, <1>5
<1>6. QED
  BY <1>4, <1>5

\* The removal removes the document, if it is still the one, or without a flag whatever it is.
LEMMA DocsOfRemove ==
    ASSUME DocsOK, NEW r \in Requests, Fits(r), Remove(r)
    PROVE  LET d == docs[TargetKey(r)]
               found == /\ d # NoDoc /\ MatchesTarget(r, d)
                        /\ Op[r].type # "delVersionFast" \/ target[r] = "placeHolder" => d.flagged
           IN  \/ found /\ TargetWritten(r, NoDoc)
               \/ ~found /\ docs' = docs
<1> DEFINE d == docs[TargetKey(r)]
           found == /\ d # NoDoc /\ MatchesTarget(r, d)
                    /\ Op[r].type # "delVersionFast" \/ target[r] = "placeHolder" => d.flagged
<1>1. pc[r] = "remove"
  BY DEF Remove
<1>2. docs' = IF found THEN [docs EXCEPT ![TargetKey(r)] = NoDoc] ELSE docs
  BY DEF Remove
<1>3. CASE found
  <2>1. pc[r] \in {"flag", "flagAgain", "remove"}
    BY <1>1
  <2>2. docs' = [docs EXCEPT ![TargetKey(r)] = NoDoc]
    BY <1>2, <1>3
  <2> HIDE DEF found
  <2>3. TargetWritten(r, NoDoc)
    BY <2>1, <2>2, TargetStays
  <2>4. QED
    BY <1>3, <2>3 DEF found
<1>4. CASE ~found
  BY <1>2, <1>4
<1>5. QED
  BY <1>3, <1>4

\* The master becomes a place holder, and the write is noticed if it is older than what it replaces.
LEMMA DocsOfPlaceHolder ==
    ASSUME DocsOK, NEW r \in Requests, Fits(r), vid[r] \in Vids \cup {NoVid}, PlaceHolder(r)
    PROVE  LET m == docs[Master]
               d == docs'[Master]
           IN  /\ vid[r] \in Vids
               /\ MasterWritten(d) /\ d \in Doc /\ d.vid = vid[r] /\ d.phd /\ ~d.flagged
               /\ m # NoDoc /\ m.vid # NoVid /\ m.vid < vid[r] => "replaced" \in unchecked'
               /\ m = NoDoc /\ HasNewer(vid[r]) => "replaced" \in unchecked'
<1> DEFINE m == docs[Master]
           marker == IF m = NoDoc THEN FALSE ELSE m.marker
           from == IF m = NoDoc THEN Nobody ELSE m.from
           d == [vid |-> vid[r], phd |-> TRUE, flagged |-> FALSE, marker |-> marker, from |-> from]
           replaces == IF m = NoDoc THEN HasNewer(vid[r]) ELSE m.vid # NoVid /\ m.vid < vid[r]
<1>1. vid[r] \in Vids
  <2>1. pc[r] = "placeHolder"
    BY DEF PlaceHolder
  <2>2. QED
    BY <2>1 DEF Fits, StepFits
<1>2. docs' = [docs EXCEPT ![Master] = d] /\ Notice("replaced", replaces)
  BY DEF PlaceHolder
<1>3. marker \in BOOLEAN /\ from \in Requests \cup {Nobody}
  <2>1. m \in Doc \cup {NoDoc}
    BY DEF DocsOK, Keys
  <2> HIDE DEF m
  <2>2. QED
    BY <2>1 DEF Doc
<1> HIDE DEF marker, from
<1>4. d \in Doc
  BY <1>1, <1>3 DEF Doc
<1>5. d.vid = vid[r] /\ d.phd /\ ~d.flagged
  OBVIOUS
<1> HIDE DEF d
<1>6. MasterWritten(d)
  BY <1>2, <1>4, MasterStays
<1>7. docs'[Master] = d
  BY <1>6 DEF MasterWritten
<1>8. replaces => "replaced" \in unchecked'
  BY <1>2 DEF Notice
<1>9. QED
  BY <1>1, <1>4, <1>5, <1>6, <1>7, <1>8

\* A repair replaces the place holder of its deletion, or inserts a master.
LEMMA DocsOfRepairWrites ==
    ASSUME DocsOK, NEW r \in Requests, repair[r].value \in Doc \cup {NoDoc}, RepairWrites(r)
    PROVE  LET m == docs[Master]
           IN  \/ docs' = docs /\ m # NoDoc /\ ~(m.phd /\ m.vid = vid[r])
               \/ m = NoDoc /\ MasterWritten(repair[r].value) /\ "restored" \in unchecked'
               \/ m # NoDoc /\ m.phd /\ m.vid = vid[r] /\ MasterWritten(repair[r].value)
<1> DEFINE m == docs[Master]
           mayReplace == m # NoDoc /\ m.phd /\ m.vid = vid[r]
<1>1. /\ docs' = IF mayReplace \/ m = NoDoc THEN [docs EXCEPT ![Master] = repair[r].value] ELSE docs
      /\ m = NoDoc => "restored" \in unchecked'
  BY DEF RepairWrites
<1>2. CASE m = NoDoc
  <2>1. docs' = [docs EXCEPT ![Master] = repair[r].value]
    BY <1>1, <1>2
  <2>2. MasterWritten(repair[r].value)
    BY <2>1, MasterStays
  <2>3. QED
    BY <1>1, <1>2, <2>2
<1>3. CASE mayReplace
  <2>1. docs' = [docs EXCEPT ![Master] = repair[r].value]
    BY <1>1, <1>3
  <2>2. MasterWritten(repair[r].value)
    BY <2>1, MasterStays
  <2>3. QED
    BY <1>3, <2>2
<1>4. CASE m # NoDoc /\ ~mayReplace
  BY <1>1, <1>4
<1>5. QED
  BY <1>2, <1>3, <1>4

\* The steps that read, choose or fail leave the documents alone.
DocsAlone(r) ==
    \/ Generate(r) \/ FindMasterToPut(r) \/ FindVersionToPut(r) \/ LatestToPut(r)
    \/ FindMasterToDelete(r) \/ LatestToDelete(r) \/ DeleteOrRepairPHD(r) \/ Read(r) \/ LatestToGet(r)
    \/ RepairReads(r) \/ Crash(r) \/ OperationFails(r) \/ RepairFails(r)

\* The other steps write nothing.
LEMMA DocsOfOthers ==
    ASSUME NEW r \in Requests, DocsAlone(r)
    PROVE  docs' = docs
BY DEF DocsAlone, Generate, FindMasterToPut, FindVersionToPut, LatestToPut, FindMasterToDelete,
       LatestToDelete, DeleteOrRepairPHD, Read, LatestToGet, RepairReads, Crash, OperationFails, RepairFails

\* A step that writes a document.
DocsWritten(r) ==
    \/ WriteVersion(r) \/ WriteMasterOfNew(r) \/ WriteMasterOfVersion(r) \/ WriteMasterOfLatest(r)
    \/ Overwrite(r) \/ Flag(r) \/ FlagAgain(r) \/ Remove(r) \/ PlaceHolder(r) \/ RepairWrites(r)

\* A step writes a document, or none.
LEMMA StepsSplit ==
    ASSUME NEW r \in Requests, StepOf(r)
    PROVE  DocsWritten(r) \/ DocsAlone(r)
BY DEF StepOf, RequestStep, RepairStep, DocsWritten, DocsAlone
-----------------------------------------------------------------------------
(* Types.                                                                  *)

\* Every step keeps the documents typed.
LEMMA DocsOKStays ==
    ASSUME MgTypeOK, ControlOK, NEW r \in Requests, StepOf(r)
    PROVE  DocsOK'
<1>1. /\ DocsOK /\ Fits(r) /\ vid[r] \in Vids \cup {NoVid} /\ seen[r] \in Doc \cup {NoDoc}
      /\ repair[r].value \in Doc \cup {NoDoc}
  BY DEF MgTypeOK, DocsOK, ControlOK
<1>2. CASE DocsWritten(r)
  <2>1. CASE WriteVersion(r)
    BY <1>1, <2>1, DocsOfWriteVersion DEF VersionWritten
  <2>2. CASE WriteMasterOfNew(r)
    BY <1>1, <2>2, DocsOfWriteMasterOfNew DEF MasterWritten
  <2>3. CASE WriteMasterOfVersion(r)
    BY <1>1, <2>3, DocsOfWriteMasterOfVersion DEF MasterWritten
  <2>4. CASE WriteMasterOfLatest(r)
    BY <1>1, <2>4, DocsOfWriteMasterOfLatest DEF MasterWritten
  <2>5. CASE Overwrite(r)
    BY <1>1, <2>5, DocsOfOverwrite DEF MasterWritten
  <2>6. CASE Flag(r)
    <3>1. docs' = docs \/ \E d : TargetWritten(r, d)
      BY <1>1, <2>6, DocsOfFlag
    <3>2. QED
      BY <1>1, <3>1 DEF TargetWritten, MasterWritten, VersionWritten, DocsOK
  <2>7. CASE FlagAgain(r)
    <3>1. docs' = docs \/ TargetWritten(r, seen[r])
      BY <1>1, <2>7, DocsOfFlagAgain
    <3>2. QED
      BY <1>1, <3>1 DEF TargetWritten, MasterWritten, VersionWritten, DocsOK
  <2>8. CASE Remove(r)
    <3>1. docs' = docs \/ TargetWritten(r, NoDoc)
      BY <1>1, <2>8, DocsOfRemove
    <3>2. QED
      BY <1>1, <3>1 DEF TargetWritten, MasterWritten, VersionWritten, DocsOK
  <2>9. CASE PlaceHolder(r)
    BY <1>1, <2>9, DocsOfPlaceHolder DEF MasterWritten
  <2>10. CASE RepairWrites(r)
    <3>1. docs' = docs \/ MasterWritten(repair[r].value)
      BY <1>1, <2>10, DocsOfRepairWrites
    <3>2. QED
      BY <1>1, <3>1 DEF MasterWritten, DocsOK
  <2>11. QED
    BY <1>2, <2>1, <2>2, <2>3, <2>4, <2>5, <2>6, <2>7, <2>8, <2>9, <2>10 DEF DocsWritten
<1>3. CASE DocsAlone(r)
  BY <1>1, <1>3, DocsOfOthers DEF DocsOK
<1>4. QED
  BY <1>2, <1>3, StepsSplit

\* The types of the other variables.
OthersOK ==
    /\ scenario \in Scenarios
    /\ nextVid \in 0 .. FirstVid
    /\ pc \in [Requests -> Steps]
    /\ vid \in [Requests -> Vids \cup {NoVid}]
    /\ seen \in [Requests -> Doc \cup {NoDoc}]
    /\ target \in [Requests -> {"none", "version", "master", "masterVersion", "placeHolder", "plain"}]
    /\ repair \in [Requests -> [at : {"none", "armed", "write"}, value : Doc \cup {NoDoc},
                               during : SUBSET Requests]]
    /\ reply \in [Requests -> Replies \cup {NoReply}]
    /\ answers \in [Requests -> Replies \cup {NoReply}]
    /\ crashes \in 0 .. MaxCrashes /\ errs \in 0 .. MaxErrors
    /\ gone \subseteq Vids /\ acked \subseteq Vids
    /\ began \in [Requests -> [gone : SUBSET Vids, acked : SUBSET Vids]]
    /\ unchecked \subseteq {"inserted", "restored", "replaced", "removed", "marked"}

\* The type invariant is that of the documents and that of the rest.
LEMMA TypesAre == MgTypeOK <=> DocsOK /\ OthersOK
BY DEF MgTypeOK, DocsOK, OthersOK
\* Every step keeps the rest typed.
LEMMA OthersOKStay ==
    ASSUME MgTypeOK, ControlOK, NEW r \in Requests, StepOf(r)
    PROVE  OthersOK'
<1>1. OthersOK
  BY TypesAre
<1>2. Vids \subseteq Nat \ {0} /\ FirstVid \in Vids /\ Vids = 1 .. MaxVid /\ MaxVid \in Nat
  BY Parameters, MongoAssumption DEF Vids
<1>3. /\ docs[Master] \in Doc \cup {NoDoc}
      /\ Op[r].type \in Naming => docs[Op[r].vid] \in Doc \cup {NoDoc}
  BY Parameters DEF MgTypeOK, Keys
<1>4. WriteMasterOfNew(r) => vid[r] \in Vids
  BY DocsOfWriteMasterOfNew, TypesAre DEF ControlOK, OthersOK
<1>5. target[r] \in {"version", "placeHolder"} /\ pc[r] \in {"flag", "flagAgain", "remove"} => Op[r].vid \in Vids
  BY Parameters DEF ControlOK, Fits, TargetFits, Naming
<1>6. Op[r].type \in DeleteTypes /\ pc[r] = "latest" => Op[r].vid \in Vids
  BY Parameters DEF ControlOK, Fits, StepFits, Naming, GetTypes, DeleteTypes, VersionDeletes
<1>7. LatestVersion \in Doc \cup {NoDoc}
  BY LatestIsFirst
<1>8. Flag(r) => seen' \in [Requests -> Doc \cup {NoDoc}]
  <2>1. seen' = seen => seen' \in [Requests -> Doc \cup {NoDoc}]
    BY <1>1 DEF OthersOK
  <2>2. ASSUME NEW f \in Doc, seen' = [seen EXCEPT ![r] = f]
        PROVE  seen' \in [Requests -> Doc \cup {NoDoc}]
    BY <1>1, <2>2 DEF OthersOK
  <2>3. Flag(r) => seen' = seen \/ \E f \in Doc : seen' = [seen EXCEPT ![r] = f]
    <3>1. DocsOK /\ Fits(r)
      BY TypesAre DEF ControlOK
    <3>2. ASSUME Flag(r), seen' # seen
          PROVE  Live(docs[TargetKey(r)]) /\ MatchesTarget(r, docs[TargetKey(r)])
      BY <3>2 DEF Flag
    <3>3. QED
      BY <3>1, <3>2, DocsOfFlag
  <2>4. QED
    BY <2>1, <2>2, <2>3
<1> DEFINE Typed == pc' \in [Requests -> Steps] /\ reply' \in [Requests -> Replies \cup {NoReply}]
           Results == {"ok", "NoSuchKey", "NoSuchVersion", "InternalError"}
<1>9. /\ \A step \in Steps : Goto(r, step) => pc' \in [Requests -> Steps]
      /\ reply' = reply => reply' \in [Requests -> Replies \cup {NoReply}]
  BY <1>1 DEF OthersOK, Goto
<1>10. \A result \in Results, doc \in Doc \cup {NoDoc} : Finished(r, result, doc) => Typed
  <2>1. "done" \in Steps
    BY DEF Steps
  <2>2. ASSUME NEW result \in Results, NEW doc \in Doc \cup {NoDoc}, Finished(r, result, doc)
        PROVE  Typed
    <3>1. [result |-> result, doc |-> doc] \in Replies
      BY DEF Replies
    <3>2. QED
      BY <1>1, <1>9, <2>1, <2>2, <3>1 DEF OthersOK, Finished
  <2>3. QED
    BY <2>2
<1>11. \A result \in Results : Answer(r, result) => Typed
  BY <1>10 DEF Answer
<1>12. CASE Generate(r)
  BY <1>1, <1>9, <1>10, <1>11, <1>12, <1>2 DEF Generate, Generated, Unnoticed, OthersOK, Steps
<1>13. CASE FindMasterToPut(r)
  BY <1>1, <1>9, <1>10, <1>11, <1>13, <1>3 DEF FindMasterToPut, Unnoticed, OthersOK, Steps
<1>14. CASE FindVersionToPut(r)
  BY <1>1, <1>9, <1>10, <1>11, <1>14 DEF FindVersionToPut, Unnoticed, OthersOK, Steps
<1>15. CASE WriteVersion(r)
  BY <1>1, <1>9, <1>10, <1>11, <1>15 DEF WriteVersion, Unnoticed, OthersOK, Steps
<1>16. CASE WriteMasterOfNew(r)
  BY <1>1, <1>9, <1>10, <1>11, <1>16, <1>4 DEF WriteMasterOfNew, Notice, OthersOK, Steps
<1>17. CASE WriteMasterOfVersion(r)
  BY <1>1, <1>9, <1>10, <1>11, <1>17 DEF WriteMasterOfVersion, Notice, OthersOK, Steps
<1>18. CASE LatestToPut(r)
  BY <1>1, <1>9, <1>10, <1>11, <1>18, <1>7 DEF LatestToPut, Unnoticed, OthersOK, Steps
<1>19. CASE WriteMasterOfLatest(r)
  BY <1>1, <1>9, <1>10, <1>11, <1>19 DEF WriteMasterOfLatest, Notice, OthersOK, Steps
<1>20. CASE Overwrite(r)
  BY <1>1, <1>9, <1>10, <1>11, <1>20 DEF Overwrite, Unnoticed, OthersOK, Steps
<1>21. CASE Flag(r)
  BY <1>1, <1>9, <1>10, <1>11, <1>21, <1>5, <1>8 DEF Flag, RemovalDone, OthersOK, Steps
<1>22. CASE FlagAgain(r)
  BY <1>1, <1>9, <1>10, <1>11, <1>22 DEF FlagAgain, Unnoticed, OthersOK, Steps
<1>23. CASE Remove(r)
  BY <1>1, <1>9, <1>10, <1>11, <1>23, <1>5 DEF Remove, RemovalDone, Notice, OthersOK, Steps
<1>24. CASE FindMasterToDelete(r)
  <2>1. Typed
    BY <1>9, <1>11, <1>24 DEF FindMasterToDelete, ChooseDeletion, FirstOfRemoval, Steps
  <2>2. \/ nextVid' = nextVid /\ vid' = vid
        \/ nextVid > 0 /\ nextVid' = nextVid - 1 /\ vid' = [vid EXCEPT ![r] = nextVid]
    <3>1. (nextVid > 0 /\ Generated(r)) \/ UNCHANGED <<vid, nextVid>>
      BY <1>24 DEF FindMasterToDelete, ChooseDeletion
    <3>2. QED
      BY <3>1 DEF Generated
  <2>3. nextVid' \in 0 .. FirstVid /\ vid' \in [Requests -> Vids \cup {NoVid}]
    <3>1. nextVid \in 0 .. FirstVid /\ vid \in [Requests -> Vids \cup {NoVid}]
      BY <1>1 DEF OthersOK
    <3>2. QED
      BY <1>2, <2>2, <3>1
  <2>4. target' = target \/ target' = [target EXCEPT ![r] = "version"]
    BY <1>24 DEF FindMasterToDelete, ChooseDeletion
  <2> HIDE DEF Typed
  <2>5. QED
    BY <1>1, <2>1, <2>3, <2>4, <1>24 DEF FindMasterToDelete, Unnoticed, OthersOK, Typed
<1>25. CASE LatestToDelete(r)
  <2>1. Typed
    BY <1>9, <1>11, <1>25 DEF LatestToDelete, ChooseDeletion, FirstOfRemoval, Steps
  <2>2. \/ nextVid' = nextVid /\ vid' = vid
        \/ nextVid > 0 /\ nextVid' = nextVid - 1 /\ vid' = [vid EXCEPT ![r] = nextVid]
    <3>1. (nextVid > 0 /\ Generated(r)) \/ UNCHANGED <<vid, nextVid>>
      BY <1>25 DEF LatestToDelete, ChooseDeletion
    <3>2. QED
      BY <3>1 DEF Generated
  <2>3. nextVid' \in 0 .. FirstVid /\ vid' \in [Requests -> Vids \cup {NoVid}]
    <3>1. nextVid \in 0 .. FirstVid /\ vid \in [Requests -> Vids \cup {NoVid}]
      BY <1>1 DEF OthersOK
    <3>2. QED
      BY <1>2, <2>2, <3>1
  <2>4. target' = target \/ target' = [target EXCEPT ![r] = "version"]
    BY <1>25 DEF LatestToDelete, ChooseDeletion
  <2> HIDE DEF Typed
  <2>5. QED
    BY <1>1, <2>1, <2>3, <2>4, <1>25 DEF LatestToDelete, Unnoticed, OthersOK, Typed
<1>26. CASE PlaceHolder(r)
  BY <1>1, <1>9, <1>10, <1>11, <1>26 DEF PlaceHolder, FirstOfRemoval, Notice, OthersOK, Steps
<1>27. CASE DeleteOrRepairPHD(r)
  <2>1. Typed
    BY <1>9, <1>11, <1>27 DEF DeleteOrRepairPHD, Steps
  <2>2. gone' \subseteq Vids
    BY <1>1, <1>6, <1>27 DEF DeleteOrRepairPHD, OthersOK
  <2>3. ASSUME NEW during \in SUBSET Requests,
               repair' = [repair EXCEPT ![r] = [at |-> "armed", value |-> NoDoc, during |-> during]]
        PROVE  repair' \in [Requests -> [at : {"none", "armed", "write"}, value : Doc \cup {NoDoc},
                                         during : SUBSET Requests]]
    BY <1>1, <2>3 DEF OthersOK
  <2>4. repair' = repair \/ \E during \in SUBSET Requests :
            repair' = [repair EXCEPT ![r] = [at |-> "armed", value |-> NoDoc, during |-> during]]
    BY <1>27 DEF DeleteOrRepairPHD
  <2>5. repair' \in [Requests -> [at : {"none", "armed", "write"}, value : Doc \cup {NoDoc},
                                  during : SUBSET Requests]]
    BY <1>1, <2>3, <2>4 DEF OthersOK
  <2>6. target' = target \/ target' = [target EXCEPT ![r] = "placeHolder"]
    BY <1>27 DEF DeleteOrRepairPHD
  <2> HIDE DEF Typed
  <2>7. QED
    BY <1>1, <2>1, <2>2, <2>5, <2>6, <1>27 DEF DeleteOrRepairPHD, OthersOK, Typed
<1>28. CASE Read(r)
  <2>1. Typed
    BY <1>3, <1>9, <1>10, <1>11, <1>28 DEF Read, GetKey, Naming, Steps
  <2>2. began' \in [Requests -> [gone : SUBSET Vids, acked : SUBSET Vids]]
    BY <1>1, <1>28 DEF Read, OthersOK
  <2>3. answers' \in [Requests -> Replies \cup {NoReply}]
    <3> DEFINE d == docs[Op[r].vid]
               found == [result |-> "ok", doc |-> d]
               missing == [result |-> "NoSuchKey", doc |-> NoDoc]
    <3>1. answers' = answers \/ answers' = [answers EXCEPT ![r] = IF Live(d) THEN found ELSE missing]
      BY <1>28 DEF Read
    <3>2. missing \in Replies
      BY DEF Replies
    <3>3. Op[r].type = "getObjects" => found \in Replies
      BY <1>3 DEF Replies, Naming
    <3>4. Op[r].type # "getObjects" => answers' = answers
      BY <1>28 DEF Read
    <3> HIDE DEF found, missing, d
    <3>5. QED
      BY <1>1, <3>1, <3>2, <3>3, <3>4 DEF OthersOK
  <2> HIDE DEF Typed
  <2>4. QED
    BY <1>1, <2>1, <2>2, <2>3, <1>28 DEF Read, OthersOK, Typed
<1>29. CASE LatestToGet(r)
  BY <1>1, <1>9, <1>10, <1>11, <1>29, <1>7 DEF LatestToGet, Unnoticed, OthersOK, Steps
<1>30. CASE RepairReads(r)
  BY <1>1, <1>9, <1>10, <1>11, <1>30, <1>7 DEF RepairReads, Unnoticed, OthersOK, Steps, NoRepair
<1>31. CASE RepairWrites(r)
  BY <1>1, <1>9, <1>10, <1>11, <1>31 DEF RepairWrites, OthersOK, Steps, NoRepair
<1>32. CASE Crash(r)
  BY <1>1, <1>9, <1>10, <1>11, <1>32, MongoAssumption DEF Crash, OthersOK, Steps, NoRepair
<1>33. CASE OperationFails(r)
  BY <1>1, <1>9, <1>10, <1>11, <1>33, MongoAssumption, <1>5 DEF OperationFails, RemovalDone,
     RemovalErrorIsIgnored, OthersOK, Steps
<1>34. CASE RepairFails(r)
  BY <1>1, <1>9, <1>10, <1>11, <1>34, MongoAssumption DEF RepairFails, OthersOK, Steps, NoRepair
<1>35. QED
  BY <1>12, <1>13, <1>14, <1>15, <1>16, <1>17, <1>18, <1>19, <1>20, <1>21, <1>22, <1>23, <1>24, <1>25,
     <1>26, <1>27, <1>28, <1>29, <1>30, <1>31, <1>32, <1>33, <1>34 DEF StepOf, RequestStep, RepairStep

\* Every step keeps the types.
LEMMA TypesStay ==
    ASSUME MgTypeOK, ControlOK, NEW r \in Requests, StepOf(r)
    PROVE  MgTypeOK'
BY DocsOKStays, OthersOKStay, TypesAre, PTL
-----------------------------------------------------------------------------
(* What a request is doing.                                                *)

\* The histories grow.
LEMMA HistoryGrows ==
    ASSUME NEW r \in Requests, StepOf(r)
    PROVE  gone \subseteq gone' /\ acked \subseteq acked' /\ unchecked \subseteq unchecked'
<1>1. CASE Generate(r)
  BY <1>1 DEF Generate, Unnoticed
<1>2. CASE FindMasterToPut(r)
  BY <1>2 DEF FindMasterToPut, Unnoticed
<1>3. CASE FindVersionToPut(r)
  BY <1>3 DEF FindVersionToPut, Unnoticed
<1>4. CASE WriteVersion(r)
  BY <1>4 DEF WriteVersion, Unnoticed
<1>5. CASE WriteMasterOfNew(r)
  BY <1>5 DEF WriteMasterOfNew, Notice
<1>6. CASE WriteMasterOfVersion(r)
  BY <1>6 DEF WriteMasterOfVersion, Notice
<1>7. CASE LatestToPut(r)
  BY <1>7 DEF LatestToPut, Unnoticed
<1>8. CASE WriteMasterOfLatest(r)
  BY <1>8 DEF WriteMasterOfLatest, Notice
<1>9. CASE Overwrite(r)
  BY <1>9 DEF Overwrite, Unnoticed
<1>10. CASE Flag(r)
  BY <1>10 DEF Flag, RemovalDone
<1>11. CASE FlagAgain(r)
  BY <1>11 DEF FlagAgain, Unnoticed
<1>12. CASE Remove(r)
  BY <1>12 DEF Remove, RemovalDone, Notice
<1>13. CASE FindMasterToDelete(r)
  BY <1>13 DEF FindMasterToDelete, Unnoticed
<1>14. CASE LatestToDelete(r)
  BY <1>14 DEF LatestToDelete, Unnoticed
<1>15. CASE PlaceHolder(r)
  BY <1>15 DEF PlaceHolder, Notice
<1>16. CASE DeleteOrRepairPHD(r)
  BY <1>16 DEF DeleteOrRepairPHD
<1>17. CASE Read(r)
  BY <1>17 DEF Read
<1>18. CASE LatestToGet(r)
  BY <1>18 DEF LatestToGet, Unnoticed
<1>19. CASE RepairReads(r)
  BY <1>19 DEF RepairReads, Unnoticed
<1>20. CASE RepairWrites(r)
  BY <1>20 DEF RepairWrites
<1>21. CASE Crash(r)
  BY <1>21 DEF Crash
<1>22. CASE OperationFails(r)
  BY <1>22 DEF OperationFails, RemovalDone
<1>23. CASE RepairFails(r)
  BY <1>23 DEF RepairFails
<1>24. QED
  BY <1>1, <1>2, <1>3, <1>4, <1>5, <1>6, <1>7, <1>8, <1>9, <1>10, <1>11, <1>12, <1>13, <1>14, <1>15,
     <1>16, <1>17, <1>18, <1>19, <1>20, <1>21, <1>22, <1>23 DEF StepOf, RequestStep, RepairStep

\* A version id is generated for a request that has none.
LEMMA VidsStay ==
    ASSUME MgTypeOK, ControlOK, NEW r \in Requests, StepOf(r)
    PROVE  \/ UNCHANGED <<vid, nextVid>>
           \/ nextVid > 0 /\ Generated(r) /\ vid[r] = NoVid
<1>1. Fits(r)
  BY DEF ControlOK
<1>2. CASE Generate(r)
  BY <1>1, <1>2 DEF Generate, Fits, StepFits
<1>3. CASE FindMasterToPut(r)
  BY <1>3 DEF FindMasterToPut
<1>4. CASE FindVersionToPut(r)
  BY <1>4 DEF FindVersionToPut
<1>5. CASE WriteVersion(r)
  BY <1>5 DEF WriteVersion
<1>6. CASE WriteMasterOfNew(r)
  BY <1>6 DEF WriteMasterOfNew
<1>7. CASE WriteMasterOfVersion(r)
  BY <1>7 DEF WriteMasterOfVersion
<1>8. CASE LatestToPut(r)
  BY <1>8 DEF LatestToPut
<1>9. CASE WriteMasterOfLatest(r)
  BY <1>9 DEF WriteMasterOfLatest
<1>10. CASE Overwrite(r)
  BY <1>10 DEF Overwrite
<1>11. CASE Flag(r)
  BY <1>11 DEF Flag
<1>12. CASE FlagAgain(r)
  BY <1>12 DEF FlagAgain
<1>13. CASE Remove(r)
  BY <1>13 DEF Remove
<1>14. CASE FindMasterToDelete(r)
  BY <1>1, <1>14 DEF FindMasterToDelete, ChooseDeletion, Fits, StepFits
<1>15. CASE LatestToDelete(r)
  BY <1>1, <1>15 DEF LatestToDelete, ChooseDeletion, Fits, StepFits
<1>16. CASE PlaceHolder(r)
  BY <1>16 DEF PlaceHolder
<1>17. CASE DeleteOrRepairPHD(r)
  BY <1>17 DEF DeleteOrRepairPHD
<1>18. CASE Read(r)
  BY <1>18 DEF Read
<1>19. CASE LatestToGet(r)
  BY <1>19 DEF LatestToGet
<1>20. CASE RepairReads(r)
  BY <1>20 DEF RepairReads
<1>21. CASE RepairWrites(r)
  BY <1>21 DEF RepairWrites
<1>22. CASE Crash(r)
  BY <1>22 DEF Crash
<1>23. CASE OperationFails(r)
  BY <1>23 DEF OperationFails
<1>24. CASE RepairFails(r)
  BY <1>24 DEF RepairFails
<1>25. QED
  BY <1>2, <1>3, <1>4, <1>5, <1>6, <1>7, <1>8, <1>9, <1>10, <1>11, <1>12, <1>13, <1>14, <1>15, <1>16,
     <1>17, <1>18, <1>19, <1>20, <1>21, <1>22, <1>23, <1>24 DEF StepOf, RequestStep, RepairStep

\* No step generates an id that is given out, and none reuses one.
LEMMA FreshVidsStay ==
    ASSUME MgTypeOK, ControlOK, NEW r \in Requests, StepOf(r)
    PROVE  FreshVids'
<1>1. FreshVids /\ OthersOK
  BY TypesAre DEF ControlOK
<1>2. CASE UNCHANGED <<vid, nextVid>>
  BY <1>1, <1>2 DEF FreshVids
<1>3. CASE nextVid > 0 /\ Generated(r) /\ vid[r] = NoVid
  <2>1. \A q \in Requests : vid'[q] = IF q = r THEN nextVid ELSE vid[q]
    BY <1>1, <1>3 DEF OthersOK, Generated
  <2>2. nextVid' = nextVid - 1 /\ nextVid \in Nat /\ nextVid <= FirstVid /\ FirstVid \in Nat
    BY <1>1, <1>3, Parameters DEF OthersOK, Generated
  <2>3. \A q \in Requests : vid[q] # NoVid => nextVid < vid[q] /\ vid[q] <= FirstVid /\ vid[q] \in Nat
    BY <1>1, Parameters DEF FreshVids, OthersOK
  <2>4. \A q \in Requests : vid'[q] # NoVid => nextVid' < vid'[q] /\ vid'[q] <= FirstVid
    BY <2>1, <2>2, <2>3
  <2>5. \A q \in Requests : vid[q] # nextVid
    <3>1. nextVid \in Vids
      BY <1>3, <2>2, Parameters, MongoAssumption DEF Vids
    <3>2. nextVid # NoVid
      BY <3>1, Parameters
    <3>3. QED
      BY <2>2, <2>3, <3>2
  <2>6. \A p, q \in Requests : vid'[p] = vid'[q] /\ vid'[p] # NoVid => p = q
    BY <1>1, <2>1, <2>5 DEF FreshVids
  <2>7. QED
    BY <2>4, <2>6 DEF FreshVids
<1>4. QED
  BY <1>2, <1>3, VidsStay

\* A request that does not step stays as it is.
LEMMA OthersFit ==
    ASSUME MgTypeOK, ControlOK, NEW r \in Requests, StepOf(r), NEW q \in Requests \ {r}
    PROVE  Fits(q)'
<1>1. /\ pc'[q] = pc[q] /\ vid'[q] = vid[q] /\ seen'[q] = seen[q] /\ target'[q] = target[q]
      /\ repair'[q] = repair[q] /\ reply'[q] = reply[q] /\ began'[q] = began[q]
      /\ scenario' = scenario
  BY StepChangesOne DEF OthersStay
<1>2. gone \subseteq gone' /\ acked \subseteq acked'
  BY HistoryGrows
<1>3. StepFits(q) /\ TargetFits(q) /\ SeenFits(q) /\ RepairFits(q) /\ BeganFits(q)
  BY DEF ControlOK, Fits
<1>4. StepFits(q)'
  BY <1>1, <1>3 DEF StepFits
<1>5. TargetFits(q)'
  BY <1>1, <1>3 DEF TargetFits
<1>6. SeenFits(q)'
  BY <1>1, <1>3 DEF SeenFits, Live
<1>7. RepairFits(q)'
  BY <1>1, <1>3 DEF RepairFits, Live
<1>8. BeganFits(q)'
  BY <1>1, <1>2, <1>3 DEF BeganFits
<1>9. QED
  BY <1>4, <1>5, <1>6, <1>7, <1>8 DEF Fits
\* The request that steps does what its call does.
LEMMA OneFits ==
    ASSUME MgTypeOK, ControlOK, NEW r \in Requests, StepOf(r)
    PROVE  Fits(r)'
<1>1. OthersOK /\ DocsOK
  BY TypesAre
<1>2. StepFits(r) /\ TargetFits(r) /\ SeenFits(r) /\ RepairFits(r) /\ BeganFits(r)
  BY DEF ControlOK, Fits
<1>3. gone \subseteq gone' /\ acked \subseteq acked' /\ scenario' = scenario
  BY HistoryGrows, StepChangesOne
<1>4. \A step \in Steps : Goto(r, step) => pc'[r] = step
  BY <1>1 DEF OthersOK, Goto
<1>5. \A result, doc : Finished(r, result, doc) => pc'[r] = "done"
  BY <1>1, <1>4 DEF Finished, Steps
<1>6. \A result : Answer(r, result) => pc'[r] = "done"
  BY <1>5 DEF Answer
<1>7. Generated(r) => vid'[r] = nextVid
  BY <1>1 DEF OthersOK, Generated
<1>8. nextVid > 0 => nextVid # NoVid
  <2>1. nextVid > 0 => nextVid \in Vids
    BY <1>1, Parameters, MongoAssumption DEF OthersOK, Vids
  <2>2. QED
    BY <2>1, Parameters
<1>9. CASE Generate(r)
  BY <1>1, <1>2, <1>3, <1>4, <1>5, <1>6, <1>7, <1>8, <1>9 DEF Generate, OthersOK, Steps, Fits, StepFits,
     TargetFits, SeenFits, RepairFits, BeganFits, VersionDeletes, Unnoticed
<1>10. CASE FindMasterToPut(r)
  BY <1>1, <1>2, <1>3, <1>4, <1>5, <1>6, <1>10 DEF FindMasterToPut, OthersOK, Steps, Fits, StepFits,
     TargetFits, SeenFits, RepairFits, BeganFits, VersionDeletes, Unnoticed
<1>11. CASE FindVersionToPut(r)
  BY <1>1, <1>2, <1>3, <1>4, <1>5, <1>6, <1>11 DEF FindVersionToPut, OthersOK, Steps, Fits, StepFits,
     TargetFits, SeenFits, RepairFits, BeganFits, VersionDeletes, Unnoticed
<1>12. CASE WriteVersion(r)
  BY <1>1, <1>2, <1>3, <1>4, <1>5, <1>6, <1>12 DEF WriteVersion, OthersOK, Steps, Fits, StepFits,
     TargetFits, SeenFits, RepairFits, BeganFits, VersionDeletes, Unnoticed
<1>13. CASE WriteMasterOfNew(r)
  BY <1>1, <1>2, <1>3, <1>4, <1>5, <1>6, <1>13 DEF WriteMasterOfNew, OthersOK, Steps, Fits, StepFits,
     TargetFits, SeenFits, RepairFits, BeganFits, VersionDeletes
<1>14. CASE WriteMasterOfVersion(r)
  BY <1>1, <1>2, <1>3, <1>4, <1>5, <1>6, <1>14 DEF WriteMasterOfVersion, OthersOK, Steps, Fits,
     StepFits, TargetFits, SeenFits, RepairFits, BeganFits, VersionDeletes
<1>15. CASE LatestToPut(r)
  BY <1>1, <1>2, <1>3, <1>4, <1>5, <1>6, <1>15, LatestIsFirst DEF LatestToPut, OthersOK, Steps, Fits,
     StepFits, TargetFits, SeenFits, RepairFits, BeganFits, VersionDeletes, Unnoticed
<1>16. CASE WriteMasterOfLatest(r)
  BY <1>1, <1>2, <1>3, <1>4, <1>5, <1>6, <1>16 DEF WriteMasterOfLatest, OthersOK, Steps, Fits, StepFits,
     TargetFits, SeenFits, RepairFits, BeganFits, VersionDeletes
<1>17. CASE Overwrite(r)
  BY <1>1, <1>2, <1>3, <1>4, <1>5, <1>6, <1>17 DEF Overwrite, OthersOK, Steps, Fits, StepFits,
     TargetFits, SeenFits, RepairFits, BeganFits, VersionDeletes, Unnoticed
<1>18. CASE Flag(r)
  <2>1. pc[r] = "flag" /\ UNCHANGED <<vid, target, repair, began>>
    BY <1>18 DEF Flag
  <2>2. CASE docs' = docs /\ pc' \in {[pc EXCEPT ![r] = "done"], [pc EXCEPT ![r] = "latest"]}
    <3>1. Answer(r, "InternalError") \/ RemovalDone(r, FALSE) \/ pc'[r] = "flagAgain"
      BY <1>4, <1>18 DEF Flag, Steps
    <3>2. pc'[r] # "flagAgain"
      BY <1>1, <2>2 DEF OthersOK
    <3>3. /\ pc'[r] = "done" \/ (pc'[r] = "latest" /\ target[r] = "masterVersion")
          /\ pc'[r] = "latest" => reply' = reply
      <4>1. \/ \E result : Answer(r, result)
            \/ target[r] = "masterVersion" /\ Goto(r, "latest") /\ reply' = reply
        BY <3>1, <3>2 DEF RemovalDone
      <4>2. "latest" \in Steps
        BY DEF Steps
      <4>3. CASE \E result : Answer(r, result)
        <5>1. pc'[r] = "done"
          BY <1>6, <4>3
        <5>2. QED
          BY <5>1
      <4>4. CASE target[r] = "masterVersion" /\ Goto(r, "latest") /\ reply' = reply
        BY <1>4, <4>2, <4>4
      <4>5. QED
        BY <4>1, <4>3, <4>4
    <3>4. QED
      BY <1>2, <1>3, <2>1, <3>3 DEF Fits, StepFits, TargetFits, SeenFits, RepairFits, BeganFits
  <2>3. ASSUME NEW f \in Doc, f.flagged, seen' = [seen EXCEPT ![r] = f],
               target[r] \in {"version", "masterVersion"} => f.vid = Op[r].vid /\ ~f.phd,
               target[r] = "placeHolder" => f.vid = vid[r] /\ f.phd,
               pc' = [pc EXCEPT ![r] = "flagAgain"], UNCHANGED <<reply, gone>>
        PROVE  Fits(r)'
    <3>1. pc'[r] = "flagAgain" /\ seen'[r] = f /\ f # NoDoc
      BY <1>1, <2>3, Parameters DEF OthersOK
    <3>2. QED
      BY <1>2, <1>3, <2>1, <2>3, <3>1 DEF Fits, StepFits, TargetFits, SeenFits, RepairFits, BeganFits
  <2>4. DocsOK /\ Fits(r)
    BY <1>1 DEF ControlOK
  <2>5. \/ docs' = docs /\ pc' \in {[pc EXCEPT ![r] = "done"], [pc EXCEPT ![r] = "latest"]}
        \/ \E f \in Doc :
              /\ f.flagged /\ seen' = [seen EXCEPT ![r] = f]
              /\ target[r] \in {"version", "masterVersion"} => f.vid = Op[r].vid /\ ~f.phd
              /\ target[r] = "placeHolder" => f.vid = vid[r] /\ f.phd
              /\ pc' = [pc EXCEPT ![r] = "flagAgain"] /\ UNCHANGED <<reply, gone>>
    <3> DEFINE d == docs[TargetKey(r)]
               f == [d EXCEPT !.flagged = TRUE]
    <3>1. \/ docs' = docs /\ pc' \in {[pc EXCEPT ![r] = "done"], [pc EXCEPT ![r] = "latest"]}
          \/ /\ MatchesTarget(r, d) /\ f \in Doc /\ f.flagged /\ f.vid = d.vid /\ f.phd = d.phd
             /\ target[r] \in {"version", "masterVersion"} => d.vid = Op[r].vid /\ ~d.phd
             /\ seen' = [seen EXCEPT ![r] = f] /\ pc' = [pc EXCEPT ![r] = "flagAgain"]
             /\ UNCHANGED <<reply, gone>>
      BY <2>4, <1>18, DocsOfFlag
    <3> HIDE DEF d, f
    <3>2. QED
      BY <3>1 DEF MatchesTarget
  <2>6. QED
    BY <2>2, <2>3, <2>5
<1>19. CASE FlagAgain(r)
  BY <1>1, <1>2, <1>3, <1>4, <1>5, <1>6, <1>19 DEF FlagAgain, OthersOK, Steps, Fits, StepFits,
     TargetFits, SeenFits, RepairFits, BeganFits, VersionDeletes, Unnoticed
<1>20. CASE Remove(r)
  BY <1>1, <1>2, <1>3, <1>4, <1>5, <1>6, <1>20 DEF Remove, RemovalDone, OthersOK, Steps, Fits, StepFits,
     TargetFits, SeenFits, RepairFits, BeganFits, VersionDeletes
<1>21. CASE FindMasterToDelete(r)
  <2>1. /\ vid[r] = NoVid /\ Op[r].type \in VersionDeletes /\ r \in Calls[scenario] /\ reply[r] = NoReply
        /\ UNCHANGED <<seen, repair, began>>
    BY <1>2, <1>21 DEF FindMasterToDelete, StepFits, VersionDeletes, GetTypes, DeleteTypes, Unnoticed
  <2>2. ASSUME NEW mst, ChooseDeletion(r, mst), reply' = reply
        PROVE  Fits(r)'
    <3>1. CASE Generated(r) /\ nextVid > 0 /\ Goto(r, "placeHolder") /\ UNCHANGED target
      <4>1. pc'[r] = "placeHolder" /\ vid'[r] # NoVid
        BY <1>4, <1>7, <1>8, <3>1 DEF Steps
      <4>2. QED
        BY <1>2, <1>3, <2>1, <2>2, <3>1, <4>1
        DEF Fits, StepFits, TargetFits, SeenFits, RepairFits, BeganFits, VersionDeletes
    <3>2. CASE target' = [target EXCEPT ![r] = "version"] /\ Goto(r, FirstOfRemoval(r)) /\ UNCHANGED vid
      <4>1. pc'[r] \in {"flag", "remove"} /\ target'[r] = "version"
        BY <1>1, <1>4, <3>2 DEF Steps, FirstOfRemoval, OthersOK
      <4>2. QED
        BY <1>2, <1>3, <2>1, <2>2, <3>2, <4>1
        DEF Fits, StepFits, TargetFits, SeenFits, RepairFits, BeganFits, VersionDeletes
    <3>3. QED
      BY <2>2, <3>1, <3>2 DEF ChooseDeletion
  <2>3. ASSUME UNCHANGED <<vid, target>>, pc'[r] \in {"latest", "done"}, pc'[r] = "latest" => reply' = reply
        PROVE  Fits(r)'
    BY <1>2, <1>3, <2>1, <2>3
    DEF Fits, StepFits, TargetFits, SeenFits, RepairFits, BeganFits, VersionDeletes
  <2>4. QED
    BY <1>4, <1>6, <2>2, <2>3, <1>21 DEF FindMasterToDelete, Unnoticed, Steps
<1>22. CASE LatestToDelete(r)
  <2>1. /\ vid[r] = NoVid /\ Op[r].type \in VersionDeletes /\ r \in Calls[scenario] /\ reply[r] = NoReply
        /\ UNCHANGED <<seen, repair, began>>
    BY <1>2, <1>22 DEF LatestToDelete, StepFits, VersionDeletes, GetTypes, DeleteTypes, Unnoticed
  <2>2. ASSUME NEW mst, ChooseDeletion(r, mst), reply' = reply
        PROVE  Fits(r)'
    <3>1. CASE Generated(r) /\ nextVid > 0 /\ Goto(r, "placeHolder") /\ UNCHANGED target
      <4>1. pc'[r] = "placeHolder" /\ vid'[r] # NoVid
        BY <1>4, <1>7, <1>8, <3>1 DEF Steps
      <4>2. QED
        BY <1>2, <1>3, <2>1, <2>2, <3>1, <4>1
        DEF Fits, StepFits, TargetFits, SeenFits, RepairFits, BeganFits, VersionDeletes
    <3>2. CASE target' = [target EXCEPT ![r] = "version"] /\ Goto(r, FirstOfRemoval(r)) /\ UNCHANGED vid
      <4>1. pc'[r] \in {"flag", "remove"} /\ target'[r] = "version"
        BY <1>1, <1>4, <3>2 DEF Steps, FirstOfRemoval, OthersOK
      <4>2. QED
        BY <1>2, <1>3, <2>1, <2>2, <3>2, <4>1
        DEF Fits, StepFits, TargetFits, SeenFits, RepairFits, BeganFits, VersionDeletes
    <3>3. QED
      BY <2>2, <3>1, <3>2 DEF ChooseDeletion
  <2>3. ASSUME UNCHANGED <<vid, target>>, pc'[r] \in {"latest", "done"}, pc'[r] = "latest" => reply' = reply
        PROVE  Fits(r)'
    BY <1>2, <1>3, <2>1, <2>3
    DEF Fits, StepFits, TargetFits, SeenFits, RepairFits, BeganFits, VersionDeletes
  <2>4. QED
    BY <1>4, <1>6, <2>2, <2>3, <1>22 DEF LatestToDelete, Unnoticed, Steps
<1>23. CASE PlaceHolder(r)
  BY <1>1, <1>2, <1>3, <1>4, <1>5, <1>6, <1>23 DEF PlaceHolder, FirstOfRemoval, OthersOK, Steps, Fits,
     StepFits, TargetFits, SeenFits, RepairFits, BeganFits, VersionDeletes
<1>24. CASE DeleteOrRepairPHD(r)
  BY <1>1, <1>2, <1>3, <1>4, <1>5, <1>6, <1>24 DEF DeleteOrRepairPHD, OthersOK, Steps, Fits, StepFits,
     TargetFits, SeenFits, RepairFits, BeganFits, VersionDeletes, GetTypes, DeleteTypes
<1>25. CASE Read(r)
  BY <1>1, <1>2, <1>3, <1>4, <1>5, <1>6, <1>25 DEF Read, OthersOK, Steps, Fits, StepFits, TargetFits,
     SeenFits, RepairFits, BeganFits, VersionDeletes, GetTypes, DeleteTypes
<1>26. CASE LatestToGet(r)
  BY <1>1, <1>2, <1>3, <1>4, <1>5, <1>6, <1>26 DEF LatestToGet, OthersOK, Steps, Fits, StepFits,
     TargetFits, SeenFits, RepairFits, BeganFits, VersionDeletes, Unnoticed, GetTypes, DeleteTypes
<1>27. CASE RepairReads(r)
  BY <1>1, <1>2, <1>3, <1>4, <1>5, <1>6, <1>27, LatestIsFirst DEF RepairReads, OthersOK, Steps, Fits,
     StepFits, TargetFits, SeenFits, RepairFits, BeganFits, VersionDeletes, Unnoticed, NoRepair
<1>28. CASE RepairWrites(r)
  BY <1>1, <1>2, <1>3, <1>4, <1>5, <1>6, <1>28 DEF RepairWrites, OthersOK, Steps, Fits, StepFits,
     TargetFits, SeenFits, RepairFits, BeganFits, VersionDeletes, NoRepair
<1>29. CASE Crash(r)
  BY <1>1, <1>2, <1>3, <1>4, <1>5, <1>6, <1>29 DEF Crash, OthersOK, Steps, Fits, StepFits, TargetFits,
     SeenFits, RepairFits, BeganFits, VersionDeletes, NoRepair
<1>30. CASE OperationFails(r)
  BY <1>1, <1>2, <1>3, <1>4, <1>5, <1>6, <1>30 DEF OperationFails, RemovalDone, OthersOK, Steps, Fits,
     StepFits, TargetFits, SeenFits, RepairFits, BeganFits, VersionDeletes, RemovalErrorIsIgnored,
     DeleteTypes
<1>31. CASE RepairFails(r)
  BY <1>1, <1>2, <1>3, <1>4, <1>5, <1>6, <1>31 DEF RepairFails, OthersOK, Steps, Fits, StepFits,
     TargetFits, SeenFits, RepairFits, BeganFits, VersionDeletes, NoRepair
<1>32. QED
  BY <1>9, <1>10, <1>11, <1>12, <1>13, <1>14, <1>15, <1>16, <1>17, <1>18, <1>19, <1>20, <1>21, <1>22,
     <1>23, <1>24, <1>25, <1>26, <1>27, <1>28, <1>29, <1>30, <1>31 DEF StepOf, RequestStep, RepairStep
\* Every step keeps the calls at steps of their own.
LEMMA ControlStays ==
    ASSUME MgTypeOK, ControlOK, NEW r \in Requests, StepOf(r)
    PROVE  ControlOK'
<1>1. FreshVids'
  BY FreshVidsStay
<1>2. ASSUME NEW q \in Requests
      PROVE  Fits(q)'
  <2>1. CASE q = r
    BY <2>1, OneFits
  <2>2. CASE q # r
    BY <2>2, OthersFit
  <2>3. QED
    BY <2>1, <2>2
<1>3. QED
  BY <1>1, <1>2 DEF ControlOK

\* A step is a step of one request.
LEMMA NextIsStep ==
    MgNext => \E r \in Requests : StepOf(r)
BY DEF MgNext, StepOf

\* A step that changes nothing keeps types and control.
LEMMA StutterKeepsControl ==
    ASSUME MgTypeOK, ControlOK, UNCHANGED mgVars
    PROVE  MgTypeOK' /\ ControlOK'
<1> USE DEF mgVars
<1>1. MgTypeOK'
  BY DEF MgTypeOK
<1>2. FreshVids'
  BY DEF ControlOK, FreshVids
<1>3. ASSUME NEW q \in Requests
      PROVE  Fits(q)'
  <2>1. StepFits(q) /\ TargetFits(q) /\ SeenFits(q) /\ RepairFits(q) /\ BeganFits(q)
    BY DEF ControlOK, Fits
  <2>2. StepFits(q)' /\ TargetFits(q)' /\ BeganFits(q)'
    BY <2>1 DEF StepFits, TargetFits, BeganFits
  <2>3. SeenFits(q)' /\ RepairFits(q)'
    BY <2>1 DEF SeenFits, RepairFits, Live
  <2>4. QED
    BY <2>2, <2>3 DEF Fits
<1>4. QED
  BY <1>1, <1>2, <1>3 DEF ControlOK

\* Types and control hold to begin with.
LEMMA InitControl ==
    ASSUME MgInit
    PROVE  MgTypeOK /\ ControlOK
<1>1. \A r \in Requests : Op[r].type \in PutTypes \cup GetTypes \cup DeleteTypes
  BY MongoAssumption
<1>2. \A r \in Requests : FirstStep(r) \in Steps
  BY <1>1 DEF FirstStep, Steps, PutTypes, GetTypes, DeleteTypes, VersionDeletes
<1>3. NoRepair \in [at : {"none", "armed", "write"}, value : Doc \cup {NoDoc}, during : SUBSET Requests]
      /\ NoRepair.at = "none"
  BY DEF NoRepair
<1>4. DocsOK
  BY MongoAssumption DEF MgInit, DocsOK
<1>5. OthersOK
  <2>1. nextVid \in 0 .. FirstVid
    BY Parameters DEF MgInit
  <2>2. pc \in [Requests -> Steps]
    BY <1>2 DEF MgInit, Steps
  <2>3. crashes \in 0 .. MaxCrashes /\ errs \in 0 .. MaxErrors
    BY MongoAssumption DEF MgInit
  <2>4. repair \in [Requests -> [at : {"none", "armed", "write"}, value : Doc \cup {NoDoc},
                                 during : SUBSET Requests]]
    BY <1>3 DEF MgInit
  <2>5. QED
    BY <2>1, <2>2, <2>3, <2>4 DEF MgInit, OthersOK
<1>6. FreshVids
  BY DEF MgInit, FreshVids
<1>7. ASSUME NEW r \in Requests
      PROVE  Fits(r)
  <2>1. /\ vid[r] = NoVid /\ reply[r] = NoReply /\ repair[r] = NoRepair
        /\ began[r] = [gone |-> {}, acked |-> {}] /\ gone = {} /\ acked = {}
        /\ target[r] = IF Op[r].type = "delPlain" THEN "plain" ELSE "none"
        /\ pc[r] = IF r \in Calls[scenario] THEN FirstStep(r) ELSE "done"
    BY DEF MgInit
  <2>2. /\ FirstStep(r) \in {"generate", "findMaster", "writeVersion", "overwrite", "flag", "read"}
        /\ FirstStep(r) = "generate" => Op[r].type \in {"putNew", "putSuspended"}
        /\ FirstStep(r) = "findMaster" => Op[r].type \in {"putVersion"} \cup VersionDeletes
        /\ FirstStep(r) = "writeVersion" => Op[r].type = "putRepair"
        /\ FirstStep(r) = "overwrite" => Op[r].type = "putPlain"
        /\ FirstStep(r) = "flag" => Op[r].type \in {"putPlainOplog", "delPlain"}
        /\ FirstStep(r) = "read" => Op[r].type \in GetTypes
    BY <1>1 DEF FirstStep, PutTypes, GetTypes, DeleteTypes, VersionDeletes
  <2>3. StepFits(r)
    BY <2>1, <2>2 DEF StepFits
  <2>4. TargetFits(r)
    BY <2>1, <2>2 DEF TargetFits
  <2>5. SeenFits(r) /\ RepairFits(r) /\ BeganFits(r)
    BY <1>3, <2>1, <2>2 DEF SeenFits, RepairFits, BeganFits
  <2>6. QED
    BY <2>3, <2>4, <2>5 DEF Fits
<1>8. QED
  BY <1>4, <1>5, <1>6, <1>7, TypesAre DEF ControlOK

\* The variables keep their types, version keys hold versions, and every call does what
\* its type says: for any calls, any documents to begin with, crashes and errors.
THEOREM MongoTypes == MgSafety => [](MgTypeOK /\ ControlOK)
<1>1. MgInit => MgTypeOK /\ ControlOK
  BY InitControl
<1>2. MgTypeOK /\ ControlOK /\ [MgNext]_mgVars => (MgTypeOK /\ ControlOK)'
  BY NextIsStep, TypesStay, ControlStays, StutterKeepsControl
<1>3. QED
  BY <1>1, <1>2, PTL DEF MgSafety
-----------------------------------------------------------------------------
(* A new version that was acknowledged is served.                          *)

\* Version v was acknowledged and nobody deletes it.
Kept(v) == v \in acked /\ ~IsDeleted(v)

\* The calls only concern versions, and no write of the master has escaped its filter.
Calm == OnlyVersions /\ unchecked \cap {"inserted", "restored", "replaced"} = {}

\* The master is the place holder of request r.
IsPlaceHolderOf(r) ==
    vid[r] # NoVid /\ docs[Master] # NoDoc /\ docs[Master].phd /\ docs[Master].vid = vid[r]

\* A version that was acknowledged, or that is about to be, is there until a call deletes it.
KeptAreLive ==
    \A v \in Vids :
        ~IsDeleted(v) /\ (\/ v \in acked
                          \/ \E q \in Requests : Op[q].type = "putNew" /\ pc[q] = "writeMaster" /\ vid[q] = v)
            => Live(docs[v])

\* No master is older than an acknowledged version.
MasterIsNewEnough ==
    Calm => \A v \in Vids : Kept(v) /\ docs[Master] # NoDoc => docs[Master].vid \in Vids /\ docs[Master].vid <= v

\* Request q puts a version that is older than the place holder of r.
Older(q, r) == Op[q].type = "putNew" /\ pc[q] \in {"writeVersion", "writeMaster"} /\ vid[q] > vid[r]

\* The timer of a repair outlasts the puts whose versions are older than its place holder.
RepairsWait ==
    \A r \in Requests :
        /\ repair[r].at = "armed" => \A q \in Requests : Older(q, r) => q \in repair[r].during
        /\ repair[r].at = "write" => \A q \in Requests : ~Older(q, r)

\* A repair is about to replace its place holder by a version that is new enough.
RepairsAreNewEnough ==
    Calm => \A r \in Requests :
        repair[r].at = "write" /\ IsPlaceHolderOf(r) =>
            \A v \in Vids : Kept(v) => repair[r].value.vid <= v

\* So is every answer.
AnswersAreNewEnough ==
    Calm => \A r \in Requests :
        Op[r].type \in {"get", "getObjects"} /\ reply[r] # NoReply /\ reply[r].result # "InternalError" =>
            \A v \in began[r].acked : ~IsDeleted(v) =>
                reply[r].doc # NoDoc /\ reply[r].doc.vid \in Vids /\ reply[r].doc.vid <= v

PutsInv ==
    /\ MgTypeOK /\ ControlOK /\ KeptAreLive /\ MasterIsNewEnough /\ RepairsWait /\ RepairsAreNewEnough
    /\ AnswersAreNewEnough

\* Only the last write of a new version acknowledges it.
LEMMA AckedChanges ==
    ASSUME NEW r \in Requests, StepOf(r)
    PROVE  acked' = acked \/ (WriteMasterOfNew(r) /\ acked' = acked \cup {vid[r]})
<1>1. CASE Generate(r)
  BY <1>1 DEF Generate, Unnoticed
<1>2. CASE FindMasterToPut(r)
  BY <1>2 DEF FindMasterToPut, Unnoticed
<1>3. CASE FindVersionToPut(r)
  BY <1>3 DEF FindVersionToPut, Unnoticed
<1>4. CASE WriteVersion(r)
  BY <1>4 DEF WriteVersion, Unnoticed
<1>5. CASE WriteMasterOfNew(r)
  BY <1>5 DEF WriteMasterOfNew
<1>6. CASE WriteMasterOfVersion(r)
  BY <1>6 DEF WriteMasterOfVersion
<1>7. CASE LatestToPut(r)
  BY <1>7 DEF LatestToPut, Unnoticed
<1>8. CASE WriteMasterOfLatest(r)
  BY <1>8 DEF WriteMasterOfLatest
<1>9. CASE Overwrite(r)
  BY <1>9 DEF Overwrite, Unnoticed
<1>10. CASE Flag(r)
  BY <1>10 DEF Flag
<1>11. CASE FlagAgain(r)
  BY <1>11 DEF FlagAgain, Unnoticed
<1>12. CASE Remove(r)
  BY <1>12 DEF Remove
<1>13. CASE FindMasterToDelete(r)
  BY <1>13 DEF FindMasterToDelete, Unnoticed
<1>14. CASE LatestToDelete(r)
  BY <1>14 DEF LatestToDelete, Unnoticed
<1>15. CASE PlaceHolder(r)
  BY <1>15 DEF PlaceHolder
<1>16. CASE DeleteOrRepairPHD(r)
  BY <1>16 DEF DeleteOrRepairPHD
<1>17. CASE Read(r)
  BY <1>17 DEF Read
<1>18. CASE LatestToGet(r)
  BY <1>18 DEF LatestToGet, Unnoticed
<1>19. CASE RepairReads(r)
  BY <1>19 DEF RepairReads, Unnoticed
<1>20. CASE RepairWrites(r)
  BY <1>20 DEF RepairWrites
<1>21. CASE Crash(r)
  BY <1>21 DEF Crash
<1>22. CASE OperationFails(r)
  BY <1>22 DEF OperationFails
<1>23. CASE RepairFails(r)
  BY <1>23 DEF RepairFails
<1>24. QED
  BY <1>1, <1>2, <1>3, <1>4, <1>5, <1>6, <1>7, <1>8, <1>9, <1>10, <1>11, <1>12, <1>13, <1>14, <1>15,
     <1>16, <1>17, <1>18, <1>19, <1>20, <1>21, <1>22, <1>23 DEF StepOf, RequestStep, RepairStep

\* A put reaches its second write through the first.
LEMMA WritesMasterNext ==
    ASSUME MgTypeOK, NEW r \in Requests, StepOf(r), pc'[r] = "writeMaster", Op[r].type = "putNew"
    PROVE  WriteVersion(r) \/ pc' = pc
<1>1. \A step \in Steps : Goto(r, step) => pc'[r] = step
  BY DEF Goto, MgTypeOK
<1>2. \A result, doc : Finished(r, result, doc) => pc'[r] = "done"
  BY <1>1 DEF Finished, Steps
<1>3. \A result : Answer(r, result) => pc'[r] = "done"
  BY <1>2 DEF Answer
<1>4. CASE Generate(r)
  BY <1>1, <1>2, <1>3, <1>4 DEF Generate, Steps
<1>5. CASE FindMasterToPut(r)
  BY <1>1, <1>2, <1>3, <1>5 DEF FindMasterToPut, Steps
<1>6. CASE FindVersionToPut(r)
  BY <1>1, <1>2, <1>3, <1>6 DEF FindVersionToPut, Steps
<1>7. CASE WriteVersion(r)
  BY <1>1, <1>2, <1>3, <1>7 DEF WriteVersion, Steps
<1>8. CASE WriteMasterOfNew(r)
  BY <1>1, <1>2, <1>3, <1>8 DEF WriteMasterOfNew, Steps
<1>9. CASE WriteMasterOfVersion(r)
  BY <1>1, <1>2, <1>3, <1>9 DEF WriteMasterOfVersion, Steps
<1>10. CASE LatestToPut(r)
  BY <1>1, <1>2, <1>3, <1>10 DEF LatestToPut, Steps
<1>11. CASE WriteMasterOfLatest(r)
  BY <1>1, <1>2, <1>3, <1>11 DEF WriteMasterOfLatest, Steps
<1>12. CASE Overwrite(r)
  BY <1>1, <1>2, <1>3, <1>12 DEF Overwrite, Steps
<1>13. CASE Flag(r)
  BY <1>1, <1>2, <1>3, <1>13 DEF Flag, RemovalDone, Steps
<1>14. CASE FlagAgain(r)
  BY <1>1, <1>2, <1>3, <1>14 DEF FlagAgain, Steps
<1>15. CASE Remove(r)
  BY <1>1, <1>2, <1>3, <1>15 DEF Remove, RemovalDone, Steps
<1>16. CASE FindMasterToDelete(r)
  BY <1>1, <1>2, <1>3, <1>16 DEF FindMasterToDelete, ChooseDeletion, FirstOfRemoval, Steps,
     VersionDeletes, DeleteTypes, GetTypes
<1>17. CASE LatestToDelete(r)
  BY <1>1, <1>2, <1>3, <1>17 DEF LatestToDelete, ChooseDeletion, FirstOfRemoval, Steps, VersionDeletes,
     DeleteTypes, GetTypes
<1>18. CASE PlaceHolder(r)
  BY <1>1, <1>2, <1>3, <1>18 DEF PlaceHolder, FirstOfRemoval, Steps
<1>19. CASE DeleteOrRepairPHD(r)
  BY <1>1, <1>2, <1>3, <1>19 DEF DeleteOrRepairPHD, Steps, VersionDeletes, DeleteTypes, GetTypes
<1>20. CASE Read(r)
  BY <1>1, <1>2, <1>3, <1>20 DEF Read, Steps
<1>21. CASE LatestToGet(r)
  BY <1>1, <1>2, <1>3, <1>21 DEF LatestToGet, Steps
<1>22. CASE RepairReads(r)
  BY <1>1, <1>2, <1>3, <1>22 DEF RepairReads, Steps
<1>23. CASE RepairWrites(r)
  BY <1>1, <1>2, <1>3, <1>23 DEF RepairWrites, Steps
<1>24. CASE Crash(r)
  BY <1>1, <1>2, <1>3, <1>24 DEF Crash, Steps
<1>25. CASE OperationFails(r)
  BY <1>1, <1>2, <1>3, <1>25 DEF OperationFails, RemovalDone, Steps
<1>26. CASE RepairFails(r)
  BY <1>1, <1>2, <1>3, <1>26 DEF RepairFails, Steps
<1>27. QED
  BY <1>4, <1>5, <1>6, <1>7, <1>8, <1>9, <1>10, <1>11, <1>12, <1>13, <1>14, <1>15, <1>16, <1>17, <1>18,
     <1>19, <1>20, <1>21, <1>22, <1>23, <1>24, <1>25, <1>26 DEF StepOf, RequestStep, RepairStep

\* The version of another id that a step writes or removes is one that a call deletes.
LEMMA KeptAreLiveStay ==
    ASSUME MgTypeOK, ControlOK, KeptAreLive, NEW r \in Requests, StepOf(r)
    PROVE  KeptAreLive'
<1>1. /\ DocsOK /\ OthersOK /\ Fits(r) /\ vid[r] \in Vids \cup {NoVid} /\ seen[r] \in Doc \cup {NoDoc}
      /\ repair[r].value \in Doc \cup {NoDoc}
  BY TypesAre DEF ControlOK, OthersOK
<1>2. \A v : IsDeleted(v)' <=> IsDeleted(v)
  BY StepChangesOne DEF IsDeleted
<1>3. \/ \A v \in Vids : ~IsDeleted(v) => (Live(docs[v]) => Live(docs'[v]))
      \/ WriteVersion(r)
  <2>1. CASE docs' = docs
    BY <2>1
  <2>2. CASE \E d : MasterWritten(d)
    BY <2>2 DEF MasterWritten
  <2>3. CASE \E d : TargetWritten(r, d)
    <3>1. \E d : \/ VersionWritten(Op[r].vid, d) /\ r \in Calls[scenario] /\ Op[r].type \in VersionDeletes
                 \/ MasterWritten(d)
      BY <2>3 DEF TargetWritten
    <3>2. \A d : VersionWritten(Op[r].vid, d) /\ r \in Calls[scenario] /\ Op[r].type \in VersionDeletes =>
              \A v \in Vids : ~IsDeleted(v) => docs'[v] = docs[v]
      BY DEF VersionWritten, IsDeleted, DeleteTypes
    <3>3. QED
      BY <2>2, <3>1, <3>2
  <2>4. WriteVersion(r) \/ docs' = docs \/ (\E d : MasterWritten(d)) \/ (\E d : TargetWritten(r, d))
    <3>1. DocsAlone(r) => docs' = docs
      BY DocsOfOthers
    <3>2. WriteMasterOfNew(r) \/ WriteMasterOfVersion(r) \/ WriteMasterOfLatest(r) \/ Overwrite(r)
          \/ PlaceHolder(r) => \E d : MasterWritten(d)
      BY <1>1, DocsOfWriteMasterOfNew, DocsOfWriteMasterOfVersion, DocsOfWriteMasterOfLatest,
         DocsOfOverwrite, DocsOfPlaceHolder
    <3>3. RepairWrites(r) => docs' = docs \/ \E d : MasterWritten(d)
      BY <1>1, DocsOfRepairWrites
    <3>4. Flag(r) => docs' = docs \/ \E d : TargetWritten(r, d)
      BY <1>1, DocsOfFlag
    <3>5. FlagAgain(r) => docs' = docs \/ \E d : TargetWritten(r, d)
      BY <1>1, DocsOfFlagAgain
    <3>6. Remove(r) => docs' = docs \/ \E d : TargetWritten(r, d)
      BY <1>1, DocsOfRemove
    <3>7. QED
      BY <3>1, <3>2, <3>3, <3>4, <3>5, <3>6, StepsSplit DEF DocsWritten
  <2>5. QED
    BY <2>1, <2>2, <2>3, <2>4
<1>4. WriteVersion(r) => \A v \in Vids : /\ Live(docs[v]) => Live(docs'[v])
                                         /\ Op[r].type = "putNew" /\ vid[r] = v => Live(docs'[v])
  <2>1. SUFFICES ASSUME WriteVersion(r)
                 PROVE  \A v \in Vids : /\ Live(docs[v]) => Live(docs'[v])
                                        /\ Op[r].type = "putNew" /\ vid[r] = v => Live(docs'[v])
    OBVIOUS
  <2>2. PutVid(r) \in Vids /\ VersionWritten(PutVid(r), ValueOf(r, PutVid(r)))
    BY <1>1, <2>1, DocsOfWriteVersion
  <2>3. Live(ValueOf(r, PutVid(r)))
    BY <2>2, ValueIsDoc, Parameters DEF Live
  <2>4. \A v \in Vids : docs'[v] = IF v = PutVid(r) THEN ValueOf(r, PutVid(r)) ELSE docs[v]
    BY <2>2 DEF VersionWritten
  <2>5. Op[r].type = "putNew" => PutVid(r) = vid[r]
    BY DEF PutVid
  <2>6. QED
    BY <2>3, <2>4, <2>5
<1>5. ASSUME NEW v \in Vids, ~IsDeleted(v), v \in acked'
      PROVE  Live(docs'[v])
  <2>1. v \in acked \/ \E q \in Requests : Op[q].type = "putNew" /\ pc[q] = "writeMaster" /\ vid[q] = v
    <3>1. v \in acked \/ (WriteMasterOfNew(r) /\ v = vid[r])
      BY <1>5, AckedChanges
    <3>2. WriteMasterOfNew(r) => Op[r].type = "putNew" /\ pc[r] = "writeMaster"
      BY DEF WriteMasterOfNew
    <3>3. QED
      BY <3>1, <3>2
  <2>2. Live(docs[v])
    BY <1>5, <2>1 DEF KeptAreLive
  <2>3. QED
    BY <1>3, <1>4, <1>5, <2>2
<1>6. ASSUME NEW v \in Vids, ~IsDeleted(v), NEW q \in Requests, Op[q].type = "putNew",
             pc'[q] = "writeMaster", vid'[q] = v
      PROVE  Live(docs'[v])
  <2>1. CASE pc[q] = "writeMaster" /\ vid[q] = v
    <3>1. Live(docs[v])
      BY <1>6, <2>1 DEF KeptAreLive
    <3>2. QED
      BY <1>3, <1>4, <1>6, <3>1
  <2>2. CASE ~(pc[q] = "writeMaster" /\ vid[q] = v)
    <3>1. q = r
      BY <1>6, <2>2, StepChangesOne DEF OthersStay
    <3>2. CASE WriteVersion(r)
      <4>1. vid' = vid
        BY <3>2 DEF WriteVersion
      <4>2. QED
        BY <1>4, <1>6, <3>1, <3>2, <4>1
    <3>3. CASE pc' = pc /\ ~WriteVersion(r)
      <4>1. pc[r] = "writeMaster" /\ vid[r] # NoVid
        BY <1>1, <1>6, <3>1, <3>3 DEF Fits, StepFits
      <4>2. vid' = vid
        BY <4>1, VidsStay
      <4>3. QED
        BY <1>6, <2>2, <3>1, <4>1, <4>2
    <3>4. QED
      BY <1>6, <3>1, <3>2, <3>3, WritesMasterNext
  <2>3. QED
    BY <2>1, <2>2
<1>7. QED
  BY <1>2, <1>5, <1>6 DEF KeptAreLive, Live
\* Unless the latest version is newer than v, no version that is live is.
LEMMA NothingNewer ==
    ASSUME MgTypeOK, NEW v \in Vids, ~HasNewer(v), NEW w \in Vids, Live(docs[w])
    PROVE  v <= w
<1>1. LatestVersion # NoDoc /\ LatestVersion.vid \in Vids /\ LatestVersion.vid <= w
  BY LatestIsFirst
<1>2. ~(LatestVersion.vid < v)
  BY <1>1 DEF HasNewer
<1>3. v \in Nat /\ w \in Nat /\ LatestVersion.vid \in Nat
  BY <1>1, Parameters
<1>4. QED
  BY <1>1, <1>2, <1>3

\* What is noticed once is not forgotten.
LEMMA CalmBefore ==
    ASSUME NEW r \in Requests, MgTypeOK, StepOf(r), Calm'
    PROVE  Calm /\ OnlyVersions /\ unchecked' \cap {"inserted", "restored", "replaced"} = {}
<1>1. scenario' = scenario /\ unchecked \subseteq unchecked'
  BY StepChangesOne, HistoryGrows
<1>2. OnlyVersions' <=> OnlyVersions
  BY <1>1 DEF OnlyVersions
<1>3. QED
  BY <1>1, <1>2 DEF Calm

\* No step makes a version the master that is older than an acknowledged one.
LEMMA MasterStaysNewEnough ==
    ASSUME PutsInv, NEW r \in Requests, StepOf(r)
    PROVE  MasterIsNewEnough'
<1>1. /\ MgTypeOK /\ ControlOK /\ KeptAreLive /\ MasterIsNewEnough /\ RepairsAreNewEnough
      /\ DocsOK /\ OthersOK /\ Fits(r) /\ vid[r] \in Vids \cup {NoVid} /\ seen[r] \in Doc \cup {NoDoc}
      /\ repair[r].value \in Doc \cup {NoDoc}
  BY TypesAre DEF PutsInv, ControlOK, OthersOK
<1>2. SUFFICES ASSUME Calm', NEW v \in Vids, Kept(v)', docs'[Master] # NoDoc
               PROVE  docs'[Master].vid \in Vids /\ docs'[Master].vid <= v
  BY DEF MasterIsNewEnough
<1>3. Calm /\ OnlyVersions /\ unchecked' \cap {"inserted", "restored", "replaced"} = {}
  BY <1>1, <1>2, CalmBefore
<1>4. ~IsDeleted(v)
  BY <1>1, <1>2, StepChangesOne DEF Kept, IsDeleted
<1> DEFINE m == docs[Master]
<1>5. Kept(v) => Live(docs[v]) /\ (m # NoDoc => m.vid \in Vids /\ m.vid <= v)
  BY <1>1, <1>3 DEF KeptAreLive, MasterIsNewEnough, Kept
<1>6. ~WriteMasterOfNew(r) => Kept(v)
  BY <1>2, <1>4, AckedChanges DEF Kept
<1>7. m \in Doc \cup {NoDoc} /\ \A n \in Vids : n \in Nat
  BY <1>1, Parameters DEF DocsOK, Keys
<1>8. CASE docs'[Master] = m /\ ~WriteMasterOfNew(r)
  BY <1>2, <1>5, <1>6, <1>8
<1>9. CASE WriteMasterOfNew(r)
  <2> DEFINE d == docs'[Master]
  <2>1. /\ vid[r] \in Vids
        /\ d \in {ValueOf(r, vid[r]), NoDoc, m}
        /\ m # NoDoc /\ ~(m.vid = NoVid \/ m.vid > vid[r]) => d = m
        /\ m # NoDoc /\ (m.vid = NoVid \/ m.vid > vid[r]) => d \in {ValueOf(r, vid[r]), NoDoc}
        /\ m = NoDoc /\ d # NoDoc => ~HasNewer(vid[r])
    BY <1>1, <1>3, <1>9, DocsOfWriteMasterOfNew
  <2>2. ValueOf(r, vid[r]).vid = vid[r]
    BY <2>1, ValueIsDoc
  <2>3. Kept(v) \/ v = vid[r]
    BY <1>2, <1>4, <1>9, AckedChanges DEF Kept
  <2>4. m # NoDoc => m.vid \in Vids \cup {NoVid}
    BY <1>7 DEF Doc
  <2>5. m = NoDoc /\ d # NoDoc /\ Kept(v) => vid[r] <= v
    BY <1>1, <1>5, <2>1, NothingNewer
  <2>6. d \in {ValueOf(r, vid[r]), m} /\ d # NoDoc
    BY <1>2, <2>1
  <2> HIDE DEF d, m
  <2>7. CASE m = NoDoc
    <3>1. d.vid = vid[r]
      BY <2>2, <2>6, <2>7
    <3>2. QED
      BY <2>1, <2>3, <2>5, <2>6, <2>7, <3>1, <1>7 DEF d
  <2>8. CASE m # NoDoc /\ d = m
    <3>1. Kept(v) => m.vid \in Vids /\ m.vid <= v
      BY <1>5, <2>8 DEF m
    <3>2. ~Kept(v) /\ d # ValueOf(r, vid[r]) => m.vid \in Vids /\ ~(m.vid > vid[r]) /\ v = vid[r]
      BY <2>1, <2>3, <2>4, <2>6, <2>8
    <3>3. ~Kept(v) /\ d = ValueOf(r, vid[r]) => m.vid = vid[r] /\ v = vid[r]
      BY <2>2, <2>3, <2>8
    <3>4. QED
      BY <2>1, <2>8, <3>1, <3>2, <3>3, <1>7 DEF d
  <2>9. CASE m # NoDoc /\ d # m
    <3>1. d.vid = vid[r] /\ (m.vid = NoVid \/ m.vid > vid[r])
      BY <2>1, <2>2, <2>6, <2>9
    <3>2. Kept(v) => m.vid \in Vids /\ m.vid <= v
      BY <1>5, <2>9 DEF m
    <3>3. v \in Nat /\ vid[r] \in Nat /\ NoVid \notin Vids
      BY <1>2, <1>7, <2>1, Parameters
    <3>4. Kept(v) => m.vid \in Nat /\ m.vid > vid[r] /\ m.vid <= v
      BY <1>7, <3>1, <3>2, <3>3
    <3>5. vid[r] <= v
      BY <2>3, <3>3, <3>4
    <3>6. QED
      BY <2>1, <3>1, <3>5 DEF d
  <2>10. QED
    BY <2>7, <2>8, <2>9
<1>10. CASE WriteMasterOfVersion(r)
  <2>1. /\ Op[r].vid \in Vids
        /\ docs'[Master] \in {ValueOf(r, Op[r].vid), m}
        /\ m # NoDoc /\ m.vid # Op[r].vid => docs'[Master] = m
        /\ m = NoDoc => ~HasNewer(Op[r].vid)
    BY <1>1, <1>2, <1>3, <1>10, DocsOfWriteMasterOfVersion
  <2>2. ValueOf(r, Op[r].vid).vid = Op[r].vid
    BY <2>1, ValueIsDoc
  <2>3. Kept(v)
    BY <1>6, <1>10 DEF WriteMasterOfVersion, WriteMasterOfNew
  <2>4. m = NoDoc => Op[r].vid <= v
    BY <1>1, <1>5, <2>1, <2>3, NothingNewer
  <2>5. QED
    BY <1>2, <1>5, <2>1, <2>2, <2>3, <2>4
<1>11. CASE WriteMasterOfLatest(r)
  <2>1. seen[r] # NoDoc /\ seen[r].vid \in Vids
    BY <1>1, <1>11 DEF WriteMasterOfLatest, Fits, SeenFits, Live
  <2>2. /\ m # NoDoc /\ docs'[Master] \in {seen[r], m}
        /\ docs'[Master] # m => m.vid # NoVid /\ m.vid >= seen[r].vid
    BY <1>1, <1>2, <1>3, <1>11, DocsOfWriteMasterOfLatest
  <2>3. Kept(v)
    BY <1>6, <1>11 DEF WriteMasterOfLatest, WriteMasterOfNew
  <2>4. QED
    BY <1>5, <2>1, <2>2, <2>3, <1>7, Parameters
<1>12. ~Overwrite(r)
  BY <1>1, <1>3 DEF Overwrite, Fits, StepFits, OnlyVersions
<1>13. CASE Flag(r)
  <2>1. \/ docs' = docs
        \/ \E f : TargetWritten(r, f) /\ f.vid = docs[TargetKey(r)].vid /\ docs[TargetKey(r)] # NoDoc
    BY <1>1, <1>13, DocsOfFlag DEF Live
  <2>2. target[r] \notin {"version", "masterVersion"} => TargetKey(r) = Master
    BY DEF TargetKey
  <2>3. docs'[Master] = m \/ (m # NoDoc /\ docs'[Master].vid = m.vid)
    BY <2>1, <2>2 DEF TargetWritten, VersionWritten, MasterWritten
  <2>4. Kept(v)
    BY <1>6, <1>13 DEF Flag, WriteMasterOfNew
  <2>5. QED
    BY <1>2, <1>5, <2>3, <2>4
<1>14. CASE FlagAgain(r)
  <2>1. \/ docs' = docs
        \/ TargetWritten(r, seen[r]) /\ docs[TargetKey(r)] # NoDoc /\ MatchesTarget(r, docs[TargetKey(r)])
    BY <1>1, <1>14, DocsOfFlagAgain
  <2>2. pc[r] = "flagAgain"
    BY <1>14 DEF FlagAgain
  <2>3. target[r] \in {"version", "masterVersion", "placeHolder"}
    BY <1>1, <1>3, <2>2 DEF Fits, StepFits, TargetFits, OnlyVersions
  <2>4. target[r] = "placeHolder" => TargetKey(r) = Master /\ seen[r].vid = vid[r]
    BY <1>1, <2>2 DEF TargetKey, Fits, SeenFits
  <2>5. docs'[Master] = m \/ (m # NoDoc /\ docs'[Master].vid = m.vid)
    BY <2>1, <2>3, <2>4 DEF TargetWritten, VersionWritten, MasterWritten, MatchesTarget
  <2>6. Kept(v)
    BY <1>6, <1>14 DEF FlagAgain, WriteMasterOfNew
  <2>7. QED
    BY <1>2, <1>5, <2>5, <2>6
<1>15. CASE Remove(r)
  <2>1. docs' = docs \/ TargetWritten(r, NoDoc)
    BY <1>1, <1>15, DocsOfRemove
  <2>2. docs'[Master] = m
    BY <1>2, <2>1 DEF TargetWritten, VersionWritten, MasterWritten
  <2>3. ~WriteMasterOfNew(r)
    BY <1>15 DEF Remove, WriteMasterOfNew
  <2>4. QED
    BY <1>8, <2>2, <2>3
<1>16. CASE PlaceHolder(r)
  <2>1. /\ vid[r] \in Vids /\ docs'[Master].vid = vid[r]
        /\ m # NoDoc => ~(m.vid # NoVid /\ m.vid < vid[r])
        /\ m = NoDoc => ~HasNewer(vid[r])
    BY <1>1, <1>3, <1>16, DocsOfPlaceHolder
  <2>2. Kept(v)
    BY <1>6, <1>16 DEF PlaceHolder, WriteMasterOfNew
  <2>3. m = NoDoc => vid[r] <= v
    BY <1>1, <1>5, <2>1, <2>2, NothingNewer
  <2>4. v \in Nat /\ vid[r] \in Nat /\ NoVid \notin Vids
    BY <1>2, <1>7, <2>1, Parameters
  <2>5. m # NoDoc => m.vid \in Nat /\ ~(m.vid < vid[r]) /\ m.vid <= v
    BY <1>5, <1>7, <2>1, <2>2, <2>4
  <2> HIDE DEF m
  <2>6. vid[r] <= v
    BY <2>3, <2>4, <2>5
  <2>7. QED
    BY <2>1, <2>6
<1>17. CASE RepairWrites(r)
  <2>1. repair[r].at = "write" /\ ~WriteMasterOfNew(r)
    BY <1>1, <1>17 DEF RepairWrites, WriteMasterOfNew, Fits, RepairFits
  <2>2. repair[r].value.vid \in Vids /\ vid[r] # NoVid
    BY <1>1, <2>1 DEF Fits, RepairFits
  <2>3. Kept(v)
    BY <1>6, <2>1
  <2>4. \/ docs' = docs
        \/ m # NoDoc /\ m.phd /\ m.vid = vid[r] /\ docs'[Master] = repair[r].value
    BY <1>1, <1>3, <1>17, DocsOfRepairWrites DEF MasterWritten
  <2>5. IsPlaceHolderOf(r) => repair[r].value.vid <= v
    BY <1>1, <1>3, <2>1, <2>3 DEF RepairsAreNewEnough
  <2>6. QED
    BY <1>2, <1>5, <2>2, <2>3, <2>4, <2>5 DEF IsPlaceHolderOf
<1>18. CASE WriteVersion(r)
  <2>1. VersionWritten(PutVid(r), ValueOf(r, PutVid(r)))
    BY <1>1, <1>18, DocsOfWriteVersion
  <2>2. QED
    BY <1>8, <1>18, <2>1 DEF VersionWritten, WriteVersion, WriteMasterOfNew
<1>19. CASE DocsAlone(r)
  <2>1. docs' = docs
    BY <1>19, DocsOfOthers
  <2>2. QED
    BY <1>8, <1>9, <2>1
<1>20. QED
  BY <1>9, <1>10, <1>11, <1>12, <1>13, <1>14, <1>15, <1>16, <1>17, <1>18, <1>19, StepsSplit DEF DocsWritten
\* A new version is written once its id is generated.
LEMMA WritesVersionNext ==
    ASSUME MgTypeOK, ControlOK, NEW r \in Requests, StepOf(r), pc'[r] = "writeVersion", Op[r].type = "putNew"
    PROVE  Generate(r) \/ pc' = pc
<1>1. \A step \in Steps : Goto(r, step) => pc'[r] = step
  BY DEF Goto, MgTypeOK
<1>2. \A result, doc : Finished(r, result, doc) => pc'[r] = "done"
  BY <1>1 DEF Finished, Steps
<1>3. \A result : Answer(r, result) => pc'[r] = "done"
  BY <1>2 DEF Answer
<1>4. StepFits(r)
  BY DEF ControlOK, Fits
<1>5. CASE Generate(r)
  BY <1>1, <1>2, <1>3, <1>5 DEF Generate, Steps
<1>6. CASE FindMasterToPut(r)
  BY <1>1, <1>2, <1>3, <1>6 DEF FindMasterToPut, Steps
<1>7. CASE FindVersionToPut(r)
  BY <1>1, <1>2, <1>3, <1>4, <1>7 DEF FindVersionToPut, Steps, StepFits
<1>8. CASE WriteVersion(r)
  BY <1>1, <1>2, <1>3, <1>8 DEF WriteVersion, Steps
<1>9. CASE WriteMasterOfNew(r)
  BY <1>1, <1>2, <1>3, <1>9 DEF WriteMasterOfNew, Steps
<1>10. CASE WriteMasterOfVersion(r)
  BY <1>1, <1>2, <1>3, <1>10 DEF WriteMasterOfVersion, Steps
<1>11. CASE LatestToPut(r)
  BY <1>1, <1>2, <1>3, <1>11 DEF LatestToPut, Steps
<1>12. CASE WriteMasterOfLatest(r)
  BY <1>1, <1>2, <1>3, <1>12 DEF WriteMasterOfLatest, Steps
<1>13. CASE Overwrite(r)
  BY <1>1, <1>2, <1>3, <1>13 DEF Overwrite, Steps
<1>14. CASE Flag(r)
  BY <1>1, <1>2, <1>3, <1>14 DEF Flag, RemovalDone, Steps
<1>15. CASE FlagAgain(r)
  BY <1>1, <1>2, <1>3, <1>15 DEF FlagAgain, Steps
<1>16. CASE Remove(r)
  BY <1>1, <1>2, <1>3, <1>16 DEF Remove, RemovalDone, Steps
<1>17. CASE FindMasterToDelete(r)
  BY <1>1, <1>2, <1>3, <1>17 DEF FindMasterToDelete, ChooseDeletion, FirstOfRemoval, Steps,
     VersionDeletes, DeleteTypes, GetTypes
<1>18. CASE LatestToDelete(r)
  BY <1>1, <1>2, <1>3, <1>18 DEF LatestToDelete, ChooseDeletion, FirstOfRemoval, Steps, VersionDeletes,
     DeleteTypes, GetTypes
<1>19. CASE PlaceHolder(r)
  BY <1>1, <1>2, <1>3, <1>19 DEF PlaceHolder, FirstOfRemoval, Steps
<1>20. CASE DeleteOrRepairPHD(r)
  BY <1>1, <1>2, <1>3, <1>20 DEF DeleteOrRepairPHD, Steps, VersionDeletes, DeleteTypes, GetTypes
<1>21. CASE Read(r)
  BY <1>1, <1>2, <1>3, <1>21 DEF Read, Steps
<1>22. CASE LatestToGet(r)
  BY <1>1, <1>2, <1>3, <1>22 DEF LatestToGet, Steps
<1>23. CASE RepairReads(r)
  BY <1>1, <1>2, <1>3, <1>23 DEF RepairReads, Steps
<1>24. CASE RepairWrites(r)
  BY <1>1, <1>2, <1>3, <1>24 DEF RepairWrites, Steps
<1>25. CASE Crash(r)
  BY <1>1, <1>2, <1>3, <1>25 DEF Crash, Steps
<1>26. CASE OperationFails(r)
  BY <1>1, <1>2, <1>3, <1>26 DEF OperationFails, RemovalDone, Steps
<1>27. CASE RepairFails(r)
  BY <1>1, <1>2, <1>3, <1>27 DEF RepairFails, Steps
<1>28. QED
  BY <1>5, <1>6, <1>7, <1>8, <1>9, <1>10, <1>11, <1>12, <1>13, <1>14, <1>15, <1>16, <1>17, <1>18, <1>19,
     <1>20, <1>21, <1>22, <1>23, <1>24, <1>25, <1>26, <1>27 DEF StepOf, RequestStep, RepairStep

\* What a step does to the repair of its request.
LEMMA RepairChanges ==
    ASSUME MgTypeOK, NEW r \in Requests, StepOf(r)
    PROVE  \/ repair'[r] = repair[r]
           \/ repair'[r] = NoRepair
           \/ /\ DeleteOrRepairPHD(r)
              /\ repair'[r] = [at |-> "armed", value |-> NoDoc,
                               during |-> {q \in Requests \ {r} : pc[q] \notin {"done", FirstStep(q)}}]
           \/ /\ RepairReads(r) /\ repair[r].at = "armed" /\ LatestVersion # NoDoc
              /\ repair'[r] = [at |-> "write", value |-> LatestVersion, during |-> {}]
<1>1. OthersOK
  BY TypesAre
<1>2. CASE Generate(r)
  BY <1>2 DEF Generate
<1>3. CASE FindMasterToPut(r)
  BY <1>3 DEF FindMasterToPut
<1>4. CASE FindVersionToPut(r)
  BY <1>4 DEF FindVersionToPut
<1>5. CASE WriteVersion(r)
  BY <1>5 DEF WriteVersion
<1>6. CASE WriteMasterOfNew(r)
  BY <1>6 DEF WriteMasterOfNew
<1>7. CASE WriteMasterOfVersion(r)
  BY <1>7 DEF WriteMasterOfVersion
<1>8. CASE LatestToPut(r)
  BY <1>8 DEF LatestToPut
<1>9. CASE WriteMasterOfLatest(r)
  BY <1>9 DEF WriteMasterOfLatest
<1>10. CASE Overwrite(r)
  BY <1>10 DEF Overwrite
<1>11. CASE Flag(r)
  BY <1>11 DEF Flag
<1>12. CASE FlagAgain(r)
  BY <1>12 DEF FlagAgain
<1>13. CASE Remove(r)
  BY <1>13 DEF Remove
<1>14. CASE FindMasterToDelete(r)
  BY <1>14 DEF FindMasterToDelete
<1>15. CASE LatestToDelete(r)
  BY <1>15 DEF LatestToDelete
<1>16. CASE PlaceHolder(r)
  BY <1>16 DEF PlaceHolder
<1>17. CASE DeleteOrRepairPHD(r)
  BY <1>1, <1>17 DEF DeleteOrRepairPHD, OthersOK
<1>18. CASE Read(r)
  BY <1>18 DEF Read
<1>19. CASE LatestToGet(r)
  BY <1>19 DEF LatestToGet
<1>20. CASE RepairReads(r)
  BY <1>1, <1>20 DEF RepairReads, OthersOK
<1>21. CASE RepairWrites(r)
  BY <1>1, <1>21 DEF RepairWrites, OthersOK
<1>22. CASE Crash(r)
  BY <1>1, <1>22 DEF Crash, OthersOK
<1>23. CASE OperationFails(r)
  BY <1>23 DEF OperationFails
<1>24. CASE RepairFails(r)
  BY <1>1, <1>24 DEF RepairFails, OthersOK
<1>25. QED
  BY <1>2, <1>3, <1>4, <1>5, <1>6, <1>7, <1>8, <1>9, <1>10, <1>11, <1>12, <1>13, <1>14, <1>15, <1>16,
     <1>17, <1>18, <1>19, <1>20, <1>21, <1>22, <1>23, <1>24 DEF StepOf, RequestStep, RepairStep

\* The versions that are generated while there is a place holder are newer.
LEMMA OlderBefore ==
    ASSUME MgTypeOK, ControlOK, NEW r \in Requests, StepOf(r), NEW p \in Requests, vid[p] # NoVid,
           NEW q \in Requests, Older(q, p)'
    PROVE  Older(q, p)
<1>1. OthersOK /\ FreshVids /\ FreshVids' /\ OthersOK'
  BY TypesAre, TypesStay, FreshVidsStay, PTL DEF ControlOK
<1>2. Op[q].type = "putNew" /\ pc'[q] \in {"writeVersion", "writeMaster"} /\ vid'[q] > vid'[p]
  BY DEF Older
<1>3. vid'[p] = vid[p]
  <2>1. Generated(r) /\ vid[r] = NoVid => vid'[p] = vid[p]
    BY <1>1 DEF Generated, OthersOK
  <2>2. QED
    BY <2>1, VidsStay
<1>4. CASE q # r
  BY <1>2, <1>3, <1>4, StepChangesOne DEF OthersStay, Older
<1>5. CASE q = r
  <2>1. CASE Generate(r)
    <3>1. vid'[r] = nextVid /\ nextVid \in Nat
      BY <1>1, <2>1 DEF Generate, Generated, OthersOK
    <3>2. nextVid < vid[p] /\ vid[p] \in Nat
      <4>1. vid[p] \in Vids
        BY <1>1 DEF OthersOK
      <4>2. nextVid < vid[p]
        BY <1>1 DEF FreshVids
      <4>3. QED
        BY <4>1, <4>2, Parameters
    <3>3. QED
      BY <1>2, <1>3, <1>5, <3>1, <3>2
  <2>2. CASE WriteVersion(r)
    <3>1. pc[r] = "writeVersion" /\ vid' = vid
      BY <2>2 DEF WriteVersion
    <3>2. QED
      BY <1>2, <1>5, <3>1 DEF Older
  <2>3. CASE pc' = pc
    <3>1. pc[r] \in {"writeVersion", "writeMaster"}
      BY <1>2, <1>5, <2>3
    <3>2. vid[r] # NoVid
      BY <1>2, <1>5, <3>1 DEF ControlOK, Fits, StepFits
    <3>3. vid'[r] = vid[r]
      BY <3>2, VidsStay
    <3>4. QED
      BY <1>2, <1>3, <1>5, <3>1, <3>3 DEF Older
  <2>4. QED
    BY <1>2, <1>5, <2>1, <2>2, <2>3, WritesVersionNext, WritesMasterNext
<1>6. QED
  BY <1>4, <1>5

\* A repair still waits, after every step, for the puts that began before its timer.
LEMMA RepairsStillWait ==
    ASSUME LongDelay, MgTypeOK, ControlOK, RepairsWait, NEW r \in Requests, StepOf(r)
    PROVE  RepairsWait'
<1>1. ASSUME NEW p \in Requests, NEW q \in Requests, Older(q, p)'
      PROVE  /\ repair'[p].at = "armed" => q \in repair'[p].during
             /\ repair'[p].at # "write"
  <2>1. NoRepair.at = "none"
    BY DEF NoRepair
  <2>2. CASE repair'[p] = repair[p]
    <3>1. CASE repair[p].at = "none"
      BY <2>2, <3>1
    <3>2. CASE repair[p].at # "none"
      <4>1. vid[p] # NoVid
        BY <3>2 DEF ControlOK, Fits, RepairFits
      <4>2. Older(q, p)
        BY <1>1, <4>1, OlderBefore
      <4>3. QED
        BY <2>2, <4>2 DEF RepairsWait
    <3>3. QED
      BY <3>1, <3>2
  <2>3. CASE repair'[p] = NoRepair
    BY <2>1, <2>3
  <2>4. CASE /\ DeleteOrRepairPHD(p)
             /\ repair'[p] = [at |-> "armed", value |-> NoDoc,
                              during |-> {x \in Requests \ {p} : pc[x] \notin {"done", FirstStep(x)}}]
    <3>1. vid[p] # NoVid /\ Op[p].type \in DeleteTypes
      BY <2>4 DEF DeleteOrRepairPHD
    <3>2. Older(q, p)
      BY <1>1, <3>1, OlderBefore
    <3>3. q # p /\ FirstStep(q) = "generate"
      <4>1. Op[q].type = "putNew"
        BY <3>2 DEF Older
      <4>2. q # p
        BY <3>1, <4>1 DEF DeleteTypes, VersionDeletes
      <4>3. FirstStep(q) = "generate"
        BY <4>1 DEF FirstStep, VersionDeletes, GetTypes
      <4>4. QED
        BY <4>2, <4>3
    <3>4. pc[q] \notin {"done", FirstStep(q)}
      BY <3>2, <3>3 DEF Older
    <3>5. QED
      BY <2>4, <3>3, <3>4
  <2>5. CASE /\ RepairReads(p) /\ repair[p].at = "armed"
             /\ repair'[p] = [at |-> "write", value |-> LatestVersion, during |-> {}]
    <3>1. vid[p] # NoVid
      BY <2>5 DEF ControlOK, Fits, RepairFits
    <3>2. Older(q, p)
      BY <1>1, <3>1, OlderBefore
    <3>3. q \in repair[p].during
      BY <2>5, <3>2 DEF RepairsWait
    <3>4. pc[q] = "done"
      BY <2>5, <3>3 DEF RepairReads, EarlierRequestsAreOver
    <3>5. QED
      BY <3>2, <3>4 DEF Older
  <2>6. QED
    <3>1. CASE p = r
      BY <2>2, <2>3, <2>4, <2>5, <3>1, RepairChanges
    <3>2. CASE p # r
      BY <2>2, <3>2, StepChangesOne DEF OthersStay
    <3>3. QED
      BY <3>1, <3>2
<1>2. QED
  BY <1>1 DEF RepairsWait
\* No call flags masters that are not place holders.
NoPlain == \A c \in Calls[scenario] : Op[c].type \notin {"putPlainOplog", "delPlain"}

\* Only a deletion makes a place holder, and only a removal of its own flags it.
LEMMA PlaceHolderMasters ==
    ASSUME MgTypeOK, ControlOK, NoPlain, NEW r \in Requests, StepOf(r),
           docs'[Master] # NoDoc, docs'[Master].phd
    PROVE  LET m == docs[Master]
               d == docs'[Master]
           IN  \/ PlaceHolder(r) /\ d.vid = vid[r] /\ vid[r] \in Vids /\ ~d.flagged
               \/ /\ ~PlaceHolder(r) /\ m # NoDoc /\ m.phd /\ m.vid = d.vid
                  /\ d.flagged => \/ m.flagged
                                  \/ target[r] = "placeHolder" /\ m.vid = vid[r] /\ vid[r] # NoVid
<1>1. /\ DocsOK /\ OthersOK /\ Fits(r) /\ vid[r] \in Vids \cup {NoVid}
      /\ seen[r] \in Doc \cup {NoDoc} /\ repair[r].value \in Doc \cup {NoDoc}
  BY TypesAre DEF ControlOK, OthersOK
<1> DEFINE m == docs[Master]
           d == docs'[Master]
<1>3. d # NoDoc /\ d.phd
  OBVIOUS
<1>4. CASE PlaceHolder(r)
  BY <1>1, <1>4, DocsOfPlaceHolder
<1>5. CASE d = m /\ ~PlaceHolder(r)
  BY <1>3, <1>5
<1>6. CASE WriteMasterOfNew(r)
  <2>1. d \in {ValueOf(r, vid[r]), NoDoc, m} /\ ~ValueOf(r, vid[r]).phd
    BY <1>1, <1>6, DocsOfWriteMasterOfNew, ValueIsDoc
  <2>2. QED
    BY <1>3, <1>5, <1>6, <2>1 DEF WriteMasterOfNew, PlaceHolder
<1>7. CASE WriteMasterOfVersion(r)
  <2>1. d \in {ValueOf(r, Op[r].vid), NoDoc, m} /\ Op[r].vid \in Vids
    BY <1>1, <1>7, DocsOfWriteMasterOfVersion
  <2>2. ~ValueOf(r, Op[r].vid).phd
    BY <2>1, ValueIsDoc
  <2>3. QED
    BY <1>3, <1>5, <1>7, <2>1, <2>2 DEF WriteMasterOfVersion, PlaceHolder
<1>8. CASE WriteMasterOfLatest(r)
  <2>1. d \in {seen[r], NoDoc, m}
    BY <1>1, <1>8, DocsOfWriteMasterOfLatest
  <2>2. ~seen[r].phd
    BY <1>1, <1>8 DEF WriteMasterOfLatest, Fits, SeenFits
  <2>3. QED
    BY <1>3, <1>5, <1>8, <2>1, <2>2 DEF WriteMasterOfLatest, PlaceHolder
<1>9. CASE Overwrite(r)
  <2>1. d = ValueOf(r, vid[r]) /\ ~ValueOf(r, vid[r]).phd
    BY <1>1, <1>9, DocsOfOverwrite, ValueIsDoc DEF MasterWritten
  <2>2. QED
    BY <1>3, <2>1
<1>10. CASE Flag(r)
  <2>1. pc[r] = "flag" /\ ~PlaceHolder(r)
    BY <1>10 DEF Flag, PlaceHolder
  <2>2. target[r] \in {"version", "masterVersion", "placeHolder"}
    BY <1>1, <2>1 DEF Fits, StepFits, TargetFits, NoPlain
  <2>3. \/ docs' = docs
        \/ \E f : /\ TargetWritten(r, f) /\ MatchesTarget(r, docs[TargetKey(r)]) /\ Live(docs[TargetKey(r)])
                  /\ f.vid = docs[TargetKey(r)].vid /\ f.phd = docs[TargetKey(r)].phd
    BY <1>1, <1>10, DocsOfFlag
  <2>4. target[r] \notin {"version", "masterVersion"} => TargetKey(r) = Master
    BY DEF TargetKey
  <2>5. \/ d = m
        \/ target[r] = "placeHolder" /\ m # NoDoc /\ m.phd /\ m.vid = vid[r] /\ d.vid = m.vid
    BY <2>2, <2>3, <2>4 DEF TargetWritten, VersionWritten, MasterWritten, MatchesTarget, Live
  <2>6. CASE target[r] = "placeHolder" /\ m # NoDoc /\ m.phd /\ m.vid = vid[r] /\ d.vid = m.vid
    <3>1. vid[r] # NoVid
      BY <1>1, <2>1, <2>6 DEF Fits, TargetFits
    <3>2. QED
      BY <2>1, <2>6, <3>1
  <2>7. QED
    BY <1>5, <2>1, <2>5, <2>6
<1>11. CASE FlagAgain(r)
  <2>1. pc[r] = "flagAgain" /\ ~PlaceHolder(r)
    BY <1>11 DEF FlagAgain, PlaceHolder
  <2>2. target[r] \in {"version", "masterVersion", "placeHolder"}
    BY <1>1, <2>1 DEF Fits, StepFits, TargetFits, NoPlain
  <2>3. \/ docs' = docs
        \/ /\ TargetWritten(r, seen[r]) /\ MatchesTarget(r, docs[TargetKey(r)])
           /\ docs[TargetKey(r)] # NoDoc /\ docs[TargetKey(r)].flagged
    BY <1>1, <1>11, DocsOfFlagAgain
  <2>4. target[r] = "placeHolder" => TargetKey(r) = Master /\ seen[r].vid = vid[r]
    BY <1>1, <2>1 DEF TargetKey, Fits, SeenFits
  <2>5. d = m \/ (m # NoDoc /\ m.phd /\ m.vid = vid[r] /\ d.vid = vid[r] /\ m.flagged)
    BY <2>2, <2>3, <2>4 DEF TargetWritten, VersionWritten, MasterWritten, MatchesTarget
  <2>6. CASE m # NoDoc /\ m.phd /\ m.vid = vid[r] /\ d.vid = vid[r] /\ m.flagged
    BY <2>1, <2>6
  <2>7. QED
    BY <1>5, <2>1, <2>5, <2>6
<1>12. CASE Remove(r)
  <2>1. docs' = docs \/ TargetWritten(r, NoDoc)
    BY <1>1, <1>12, DocsOfRemove
  <2>2. d = m
    BY <1>3, <2>1 DEF TargetWritten, VersionWritten, MasterWritten
  <2>3. ~PlaceHolder(r)
    BY <1>12 DEF Remove, PlaceHolder
  <2>4. QED
    BY <1>5, <2>2, <2>3
<1>13. CASE RepairWrites(r)
  <2>1. repair[r].at = "write" /\ ~PlaceHolder(r)
    BY <1>1, <1>13 DEF RepairWrites, PlaceHolder, Fits, RepairFits
  <2>2. ~repair[r].value.phd
    BY <1>1, <2>1 DEF Fits, RepairFits
  <2>3. docs' = docs \/ d = repair[r].value
    BY <1>1, <1>13, DocsOfRepairWrites DEF MasterWritten
  <2>4. QED
    BY <1>3, <1>5, <2>1, <2>2, <2>3
<1>14. CASE WriteVersion(r)
  <2>1. VersionWritten(PutVid(r), ValueOf(r, PutVid(r)))
    BY <1>1, <1>14, DocsOfWriteVersion
  <2>2. QED
    BY <1>5, <1>14, <2>1 DEF VersionWritten, WriteVersion, PlaceHolder
<1>15. CASE DocsAlone(r)
  BY <1>4, <1>5, <1>15, DocsOfOthers
<1>16. QED
  BY <1>4, <1>6, <1>7, <1>8, <1>9, <1>10, <1>11, <1>12, <1>13, <1>14, <1>15, StepsSplit DEF DocsWritten

\* So the place holder of a request is made and flagged by its own steps.
LEMMA PlaceHoldersComeFrom ==
    ASSUME MgTypeOK, ControlOK, NoPlain, NEW r \in Requests, StepOf(r),
           NEW p \in Requests, vid[p] # NoVid, IsPlaceHolderOf(p)'
    PROVE  \/ p = r /\ PlaceHolder(r) /\ ~docs'[Master].flagged
           \/ /\ IsPlaceHolderOf(p) /\ ~PlaceHolder(r)
              /\ docs'[Master].flagged => docs[Master].flagged \/ (p = r /\ target[r] = "placeHolder")
<1>1. FreshVids /\ OthersOK
  BY TypesAre DEF ControlOK
<1>2. vid'[p] = vid[p]
  <2>1. Generated(r) /\ vid[r] = NoVid => vid'[p] = vid[p]
    BY <1>1 DEF Generated, OthersOK
  <2>2. QED
    BY <2>1, VidsStay
<1>3. docs'[Master] # NoDoc /\ docs'[Master].phd /\ docs'[Master].vid = vid[p]
  BY <1>2 DEF IsPlaceHolderOf
<1>4. vid[p] = vid[r] => p = r
  BY <1>1 DEF FreshVids
<1>5. QED
  BY <1>3, <1>4, PlaceHolderMasters DEF IsPlaceHolderOf

\* What repairs are about to write stays new enough, whatever is put meanwhile.
LEMMA RepairsStayNewEnough ==
    ASSUME LongDelay, PutsInv, NEW r \in Requests, StepOf(r)
    PROVE  RepairsAreNewEnough'
<1>1. /\ MgTypeOK /\ ControlOK /\ KeptAreLive /\ RepairsWait /\ RepairsAreNewEnough
      /\ DocsOK /\ OthersOK /\ Fits(r) /\ vid[r] \in Vids \cup {NoVid}
  BY TypesAre DEF PutsInv, ControlOK, OthersOK
<1>2. SUFFICES ASSUME Calm', NEW p \in Requests, repair'[p].at = "write", IsPlaceHolderOf(p)',
                      NEW v \in Vids, Kept(v)'
               PROVE  repair'[p].value.vid <= v
  BY DEF RepairsAreNewEnough
<1>3. Calm /\ OnlyVersions
  BY <1>1, <1>2, CalmBefore
<1>4. NoPlain
  BY <1>3 DEF OnlyVersions, NoPlain
<1>5. ~IsDeleted(v)
  BY <1>1, <1>2, StepChangesOne DEF Kept, IsDeleted
<1>6. CASE repair'[p] = repair[p]
  <2>1. pc[p] = "done" /\ vid[p] # NoVid /\ Op[p].type \in VersionDeletes
    BY <1>1, <1>2, <1>6 DEF ControlOK, Fits, RepairFits
  <2>2. IsPlaceHolderOf(p)
    BY <1>1, <1>2, <1>4, <2>1, PlaceHoldersComeFrom DEF PlaceHolder
  <2>3. v \in acked
    <3>1. ASSUME WriteMasterOfNew(r)
          PROVE  FALSE
      <4>1. pc[r] = "writeMaster" /\ Op[r].type = "putNew" /\ vid' = vid
        BY <3>1 DEF WriteMasterOfNew
      <4>2. r # p
        BY <2>1, <4>1
      <4>3. docs'[Master].phd /\ docs[Master] # NoDoc /\ docs[Master].vid = vid[p]
        BY <1>2, <2>2, <4>1 DEF IsPlaceHolderOf
      <4>4. ~ValueOf(r, vid[r]).phd /\ docs'[Master] # NoDoc
        BY <1>1, <1>2, ValueIsDoc DEF IsPlaceHolderOf
      <4>5. ~(docs[Master].vid > vid[r]) /\ vid[r] \in Vids
        BY <1>1, <3>1, <4>3, <4>4, DocsOfWriteMasterOfNew
      <4>6. vid[p] \in Vids /\ vid[p] # vid[r]
        BY <1>1, <2>1, <4>2 DEF ControlOK, FreshVids, OthersOK
      <4>7. vid[r] > vid[p]
        <5>1. vid[r] \in Nat /\ vid[p] \in Nat
          BY <4>5, <4>6, Parameters
        <5>2. ~(vid[p] > vid[r]) /\ vid[p] # vid[r]
          BY <4>3, <4>5, <4>6
        <5>3. QED
          BY <5>1, <5>2
      <4>8. Older(r, p)
        BY <4>1, <4>7 DEF Older
      <4>9. QED
        BY <1>1, <1>2, <1>6, <4>8 DEF RepairsWait
    <3>2. QED
      BY <1>2, <3>1, AckedChanges DEF Kept
  <2>4. QED
    BY <1>1, <1>2, <1>3, <1>5, <1>6, <2>2, <2>3 DEF RepairsAreNewEnough, Kept
<1>7. CASE /\ RepairReads(p) /\ LatestVersion # NoDoc
           /\ repair'[p] = [at |-> "write", value |-> LatestVersion, during |-> {}]
  <2>1. acked' = acked
    BY <1>7 DEF RepairReads, Unnoticed
  <2>2. Live(docs[v])
    BY <1>1, <1>2, <1>5, <2>1 DEF KeptAreLive, Kept
  <2>3. LatestVersion.vid <= v
    BY <1>1, <1>7, <2>2, LatestIsFirst
  <2>4. QED
    BY <1>7, <2>3
<1>8. repair'[p] # NoRepair
  BY <1>2 DEF NoRepair
<1>9. p # r => repair'[p] = repair[p]
  BY <1>1, StepChangesOne DEF OthersStay
<1>10. \A during : repair'[p] # [at |-> "armed", value |-> NoDoc, during |-> during]
  BY <1>2
<1>11. p # r \/ repair'[p] = repair[p]
           \/ /\ RepairReads(p) /\ LatestVersion # NoDoc
              /\ repair'[p] = [at |-> "write", value |-> LatestVersion, during |-> {}]
  <2>1. SUFFICES ASSUME p = r
                 PROVE  \/ repair'[p] = repair[p]
                        \/ /\ RepairReads(p) /\ LatestVersion # NoDoc
                           /\ repair'[p] = [at |-> "write", value |-> LatestVersion, during |-> {}]
    OBVIOUS
  <2>2. QED
    BY <1>1, <1>8, <1>10, <2>1, RepairChanges
<1>12. QED
  BY <1>6, <1>7, <1>9, <1>11
\* A get is answered when it reads the master, a version or the latest version, or with an error.
LEMMA RepliesComeFrom ==
    ASSUME MgTypeOK, ControlOK, NEW r \in Requests, StepOf(r), Op[r].type \in GetTypes
    PROVE  \/ reply'[r] = reply[r] /\ began'[r] = began[r]
           \/ Read(r) /\ began'[r] = [gone |-> gone, acked |-> acked]
           \/ LatestToGet(r) /\ began'[r] = began[r]
           \/ reply'[r].result = "InternalError" /\ reply'[r].doc = NoDoc /\ began'[r] = began[r]
<1>1. OthersOK /\ StepFits(r) /\ TargetFits(r)
  BY TypesAre DEF ControlOK, Fits
<1>2. \A result : Answer(r, result) => reply'[r].result = result /\ reply'[r].doc = NoDoc
  BY <1>1 DEF OthersOK, Answer, Finished
<1>3. CASE Generate(r)
  BY <1>3 DEF Generate, Unnoticed
<1>4. CASE FindMasterToPut(r)
  BY <1>4 DEF FindMasterToPut, Unnoticed
<1>5. CASE FindVersionToPut(r)
  BY <1>5 DEF FindVersionToPut, Unnoticed
<1>6. CASE WriteVersion(r)
  BY <1>1, <1>6 DEF WriteVersion, StepFits, TargetFits, GetTypes, DeleteTypes, VersionDeletes
<1>7. CASE WriteMasterOfNew(r)
  BY <1>1, <1>7 DEF WriteMasterOfNew, StepFits, TargetFits, GetTypes, DeleteTypes, VersionDeletes
<1>8. CASE WriteMasterOfVersion(r)
  BY <1>1, <1>8 DEF WriteMasterOfVersion, StepFits, TargetFits, GetTypes, DeleteTypes, VersionDeletes
<1>9. CASE LatestToPut(r)
  BY <1>1, <1>9 DEF LatestToPut, StepFits, TargetFits, GetTypes, DeleteTypes, VersionDeletes
<1>10. CASE WriteMasterOfLatest(r)
  BY <1>1, <1>10 DEF WriteMasterOfLatest, StepFits, TargetFits, GetTypes, DeleteTypes, VersionDeletes
<1>11. CASE Overwrite(r)
  BY <1>1, <1>11 DEF Overwrite, StepFits, TargetFits, GetTypes, DeleteTypes, VersionDeletes
<1>12. CASE Flag(r)
  BY <1>1, <1>12 DEF Flag, StepFits, TargetFits, GetTypes, DeleteTypes, VersionDeletes
<1>13. CASE FlagAgain(r)
  BY <1>13 DEF FlagAgain, Unnoticed
<1>14. CASE Remove(r)
  BY <1>1, <1>14 DEF Remove, StepFits, TargetFits, GetTypes, DeleteTypes, VersionDeletes
<1>15. CASE FindMasterToDelete(r)
  BY <1>15 DEF FindMasterToDelete, Unnoticed
<1>16. CASE LatestToDelete(r)
  BY <1>1, <1>16 DEF LatestToDelete, StepFits, TargetFits, GetTypes, DeleteTypes, VersionDeletes
<1>17. CASE PlaceHolder(r)
  BY <1>17 DEF PlaceHolder
<1>18. CASE DeleteOrRepairPHD(r)
  BY <1>1, <1>18 DEF DeleteOrRepairPHD, StepFits, TargetFits, GetTypes, DeleteTypes, VersionDeletes
<1>19. CASE Read(r)
  BY <1>1, <1>19 DEF Read, OthersOK
<1>20. CASE LatestToGet(r)
  BY <1>20 DEF LatestToGet, Unnoticed
<1>21. CASE RepairReads(r)
  BY <1>21 DEF RepairReads, Unnoticed
<1>22. CASE RepairWrites(r)
  BY <1>22 DEF RepairWrites
<1>23. CASE Crash(r)
  BY <1>23 DEF Crash
<1>24. CASE OperationFails(r)
  BY <1>1, <1>2, <1>24 DEF OperationFails, RemovalErrorIsIgnored, StepFits, GetTypes, DeleteTypes,
     VersionDeletes, OthersOK
<1>25. CASE RepairFails(r)
  BY <1>25 DEF RepairFails
<1>26. QED
  BY <1>3, <1>4, <1>5, <1>6, <1>7, <1>8, <1>9, <1>10, <1>11, <1>12, <1>13, <1>14, <1>15, <1>16, <1>17,
     <1>18, <1>19, <1>20, <1>21, <1>22, <1>23, <1>24, <1>25 DEF StepOf, RequestStep, RepairStep

\* No answer is older than a version acknowledged before its get began.
LEMMA AnswersStayNewEnough ==
    ASSUME PutsInv, NEW r \in Requests, StepOf(r)
    PROVE  AnswersAreNewEnough'
<1>1. /\ MgTypeOK /\ ControlOK /\ KeptAreLive /\ MasterIsNewEnough /\ AnswersAreNewEnough
      /\ DocsOK /\ OthersOK
  BY TypesAre DEF PutsInv
<1>2. SUFFICES ASSUME Calm', NEW p \in Requests, Op[p].type \in {"get", "getObjects"},
                      reply'[p] # NoReply, reply'[p].result # "InternalError",
                      NEW v \in began'[p].acked, ~IsDeleted(v)'
               PROVE  reply'[p].doc # NoDoc /\ reply'[p].doc.vid \in Vids /\ reply'[p].doc.vid <= v
  BY DEF AnswersAreNewEnough
<1>3. Calm
  BY <1>1, <1>2, CalmBefore
<1>4. ~IsDeleted(v)
  BY <1>1, <1>2, StepChangesOne DEF IsDeleted
<1>5. CASE reply'[p] = reply[p] /\ began'[p] = began[p]
  BY <1>1, <1>2, <1>3, <1>4, <1>5 DEF AnswersAreNewEnough
<1>6. acked \subseteq Vids /\ BeganFits(p) /\ StepFits(p)
  BY <1>1 DEF OthersOK, ControlOK, Fits
<1>7. CASE p = r /\ Read(r) /\ began'[r] = [gone |-> gone, acked |-> acked]
  <2>1. v \in Vids /\ Kept(v)
    BY <1>2, <1>4, <1>6, <1>7 DEF Kept
  <2>2. reply[r] = NoReply
    BY <1>6, <1>7 DEF Read, StepFits
  <2>3. \/ reply'[r] = reply[r]
        \/ Live(docs[Master]) /\ reply'[r].doc = docs[Master]
    BY <1>1, <1>2, <1>7 DEF Read, GetKey, Finished, OthersOK
  <2>4. Live(docs[Master]) => docs[Master] # NoDoc
    BY DEF Live
  <2>5. QED
    BY <1>1, <1>2, <1>3, <1>7, <2>1, <2>2, <2>3, <2>4 DEF MasterIsNewEnough
<1>8. CASE p = r /\ LatestToGet(r) /\ began'[r] = began[r]
  <2>1. v \in Vids /\ v \in acked
    BY <1>2, <1>6, <1>8 DEF BeganFits
  <2>2. Live(docs[v])
    BY <1>1, <1>4, <2>1 DEF KeptAreLive
  <2>3. LatestVersion # NoDoc /\ LatestVersion.vid \in Vids /\ LatestVersion.vid <= v
    BY <1>1, <2>1, <2>2, LatestIsFirst
  <2>4. reply'[r].doc = LatestVersion
    BY <1>1, <1>8, <2>3 DEF LatestToGet, Finished, OthersOK
  <2>5. QED
    BY <1>8, <2>3, <2>4
<1>9. CASE p # r
  BY <1>1, <1>5, <1>9, StepChangesOne DEF OthersStay
<1>10. CASE p = r
  <2>1. Op[r].type \in GetTypes
    BY <1>2, <1>10 DEF GetTypes
  <2>2. QED
    BY <1>1, <1>2, <1>5, <1>7, <1>8, <1>10, <2>1, RepliesComeFrom
<1>11. QED
  BY <1>9, <1>10

\* Every step keeps the invariant of puts.
LEMMA PutsInvStays ==
    ASSUME LongDelay, PutsInv, [MgNext]_mgVars
    PROVE  PutsInv'
<1>1. CASE MgNext
  <2>1. PICK r \in Requests : StepOf(r)
    BY <1>1, NextIsStep
  <2>2. MgTypeOK' /\ ControlOK'
    BY <2>1, TypesStay, ControlStays DEF PutsInv
  <2>3. KeptAreLive'
    BY <2>1, KeptAreLiveStay DEF PutsInv
  <2>4. RepairsWait'
    BY <2>1, RepairsStillWait DEF PutsInv
  <2>5. MasterIsNewEnough' /\ RepairsAreNewEnough' /\ AnswersAreNewEnough'
    BY <2>1, MasterStaysNewEnough, RepairsStayNewEnough, AnswersStayNewEnough
  <2>6. QED
    BY <2>2, <2>3, <2>4, <2>5 DEF PutsInv
<1>2. CASE UNCHANGED mgVars
  <2>1. MgTypeOK' /\ ControlOK'
    BY <1>2, StutterKeepsControl DEF PutsInv
  <2>2. (\A v : IsDeleted(v)' <=> IsDeleted(v)) /\ (\A v : Kept(v)' <=> Kept(v)) /\ (Calm' <=> Calm)
    BY <1>2 DEF mgVars, IsDeleted, Kept, Calm, OnlyVersions
  <2>3. KeptAreLive'
    BY <1>2, <2>2 DEF PutsInv, mgVars, KeptAreLive, Live
  <2>4. MasterIsNewEnough'
    BY <1>2, <2>2 DEF PutsInv, mgVars, MasterIsNewEnough
  <2>5. RepairsWait'
    BY <1>2 DEF PutsInv, mgVars, RepairsWait, Older
  <2>6. RepairsAreNewEnough'
    BY <1>2, <2>2 DEF PutsInv, mgVars, RepairsAreNewEnough, IsPlaceHolderOf
  <2>7. AnswersAreNewEnough'
    BY <1>2, <2>2 DEF PutsInv, mgVars, AnswersAreNewEnough
  <2>8. QED
    BY <2>1, <2>3, <2>4, <2>5, <2>6, <2>7 DEF PutsInv
<1>3. QED
  BY <1>1, <1>2

\* The invariant of puts holds to begin with.
LEMMA InitPuts ==
    ASSUME MgInit
    PROVE  PutsInv
<1>1. MgTypeOK /\ ControlOK
  BY InitControl
<1>2. /\ acked = {} /\ \A r \in Requests : /\ vid[r] = NoVid /\ repair[r] = NoRepair /\ reply[r] = NoReply
  BY DEF MgInit
<1>3. NoRepair.at = "none"
  BY DEF NoRepair
<1>4. KeptAreLive
  <2>1. NoVid \notin Vids
    BY Parameters
  <2>2. QED
    BY <1>2, <2>1 DEF KeptAreLive
<1>5. MasterIsNewEnough /\ RepairsWait /\ RepairsAreNewEnough /\ AnswersAreNewEnough
  BY <1>2, <1>3 DEF MasterIsNewEnough, Kept, RepairsWait, RepairsAreNewEnough, AnswersAreNewEnough
<1>6. QED
  BY <1>1, <1>4, <1>5 DEF PutsInv

\* The invariant of puts implies that acknowledged puts are served.
LEMMA PutsInvServes ==
    ASSUME PutsInv
    PROVE  AcknowledgedPutIsServed
<1>1. Calls[scenario] \subseteq Requests
  BY MongoAssumption DEF PutsInv, MgTypeOK
<1>2. SUFFICES ASSUME NEW r \in Calls[scenario], Op[r].type \in {"get", "getObjects"}, reply[r] # NoReply,
                      reply[r].result # "InternalError", OnlyVersions,
                      unchecked \cap {"inserted", "restored", "replaced"} = {}, NEW v \in began[r].acked, ~IsDeleted(v)
               PROVE  reply[r].doc # NoDoc /\ reply[r].doc.vid <= v
  BY DEF AcknowledgedPutIsServed
<1>3. Calm
  BY <1>2 DEF Calm
<1>4. QED
  BY <1>1, <1>2, <1>3 DEF PutsInv, AnswersAreNewEnough

\* A get that begins after a new version was acknowledged, which nobody deletes, is served that
\* version or a newer one, whatever else is done meanwhile: puts, deletions with their place
\* holders and repairs, crashes and errors. Excepted are, as in the property, the behaviours in
\* which a master was inserted where there was none, or a newer one replaced by a place holder.
\* Repairs must wait for the requests that began before their timer was set.
THEOREM AcknowledgedPuts == LongDelay => (MgSafety => []AcknowledgedPutIsServed)
<1>1. MgInit => PutsInv
  BY InitPuts
<1>2. LongDelay => (PutsInv /\ [MgNext]_mgVars => PutsInv')
  BY PutsInvStays
<1>3. PutsInv => AcknowledgedPutIsServed
  BY PutsInvServes
<1>4. CASE LongDelay
  <2>1. PutsInv /\ [MgNext]_mgVars => PutsInv'
    BY <1>2, <1>4
  <2>2. QED
    BY <1>1, <1>3, <2>1, PTL DEF MgSafety
<1>5. QED
  BY <1>4
-----------------------------------------------------------------------------
(* A version whose deletion was acknowledged is not served.                *)

\* No call writes a version, or flags a master, without a look at the master.
Apart == \A c \in Calls[scenario] : Op[c].type \notin {"putRepair", "putPlainOplog", "delPlain"}

\* The deletion of v was acknowledged, and no call puts v.
Lost(v) == v \in gone /\ ~IsPut(v)

\* A get would be answered with the master, version v.
ServedMaster(v) == Live(docs[Master]) /\ ~docs[Master].phd /\ docs[Master].vid = v

\* A deletion has made its place holder, or has found that it needs none.
Deleting(r) == Op[r].type \in VersionDeletes /\ pc[r] \in {"latest", "flag", "flagAgain", "remove"}

\* A deletion has flagged or removed its version.
Removed(r) ==
    /\ Op[r].type \in VersionDeletes
    /\ \/ pc[r] = "flagAgain"
       \/ pc[r] = "remove" /\ Op[r].type = "delVersion"
       \/ pc[r] = "latest" /\ vid[r] # NoVid
       \/ pc[r] \in {"flag", "remove"} /\ target[r] = "placeHolder"

LostAreGone == \A v \in Vids : Lost(v) => ~Live(docs[v])

RemovedAreGone == \A r \in Requests : Removed(r) /\ ~IsPut(Op[r].vid) => ~Live(docs[Op[r].vid])

LostAreNotMaster == "restored" \notin unchecked => \A v \in Vids : Lost(v) => ~ServedMaster(v)

DeletedAreNotMaster ==
    "restored" \notin unchecked =>
        \A r \in Requests : Deleting(r) /\ ~IsPut(Op[r].vid) => ~ServedMaster(Op[r].vid)

\* The repair of a place holder outlasts the deletions that it is not to undo.
RepairsWaitForDeletions ==
    \A q \in Requests : IsPlaceHolderOf(q) =>
        /\ repair[q].at = "armed" => \A r \in Requests : Deleting(r) => r \in repair[q].during
        /\ repair[q].at = "write" =>
               /\ \A r \in Requests : ~Deleting(r)
               /\ \A v \in Vids : repair[q].value.vid = v => ~Lost(v)

\* Only its own removal flags a place holder.
FlaggedByItsOwn ==
    \A q \in Requests : IsPlaceHolderOf(q) /\ docs[Master].flagged => target[q] = "placeHolder"

\* A place holder has an id that is not generated again.
PlaceHoldersAreOld ==
    docs[Master] # NoDoc /\ docs[Master].phd => docs[Master].vid = NoVid \/ nextVid < docs[Master].vid

AnswersAreNotLost ==
    "restored" \notin unchecked =>
        \A r \in Requests : Op[r].type \in GetTypes /\ reply[r] # NoReply /\ reply[r].doc # NoDoc =>
            /\ ~reply[r].doc.phd /\ ~reply[r].doc.flagged
            /\ \A v \in began[r].gone : reply[r].doc.vid = v => IsPut(v)

DeletionsInv ==
    /\ MgTypeOK /\ ControlOK /\ LostAreGone /\ RemovedAreGone /\ LostAreNotMaster /\ DeletedAreNotMaster
    /\ RepairsWaitForDeletions /\ FlaggedByItsOwn /\ PlaceHoldersAreOld /\ AnswersAreNotLost

\* What a call puts, it puts from then on.
LEMMA PutsStay ==
    ASSUME MgTypeOK, ControlOK, NEW r \in Requests, StepOf(r), NEW v \in Vids, IsPut(v)
    PROVE  IsPut(v)'
<1>1. OthersOK /\ scenario' = scenario
  BY TypesAre, StepChangesOne
<1>2. PICK p \in Calls[scenario] : Op[p].type \in PutTypes /\ v \in {Op[p].vid, vid[p]}
  BY DEF IsPut
<1>3. p \in Requests
  BY <1>1, MongoAssumption DEF OthersOK
<1>4. v = vid[p] => vid'[p] = vid[p]
  <2>1. v = vid[p] => vid[p] # NoVid
    BY Parameters
  <2>2. Generated(r) /\ vid[r] = NoVid /\ v = vid[p] => vid'[p] = vid[p]
    BY <1>1, <1>3, <2>1 DEF Generated, OthersOK
  <2>3. QED
    BY <2>2, VidsStay
<1>5. v \in {Op[p].vid, vid'[p]}
  BY <1>2, <1>4
<1>6. QED
  BY <1>1, <1>2, <1>5 DEF IsPut

\* A version comes to life when a call puts it.
LEMMA VersionsComeFrom ==
    ASSUME MgTypeOK, ControlOK, NEW r \in Requests, StepOf(r), NEW v \in Vids, Live(docs'[v])
    PROVE  Live(docs[v]) \/ IsPut(v)
<1>1. /\ DocsOK /\ OthersOK /\ Fits(r) /\ vid[r] \in Vids \cup {NoVid} /\ seen[r] \in Doc \cup {NoDoc}
      /\ repair[r].value \in Doc \cup {NoDoc}
  BY TypesAre DEF ControlOK, OthersOK
<1>2. CASE docs'[v] = docs[v]
  BY <1>2
<1>3. CASE \E d : MasterWritten(d)
  BY <1>2, <1>3 DEF MasterWritten
<1>4. CASE WriteVersion(r)
  <2>1. PutVid(r) \in Vids /\ VersionWritten(PutVid(r), ValueOf(r, PutVid(r)))
    BY <1>1, <1>4, DocsOfWriteVersion
  <2>2. v = PutVid(r) => IsPut(v)
    <3>1. pc[r] = "writeVersion"
      BY <1>4 DEF WriteVersion
    <3>2. r \in Calls[scenario] /\ Op[r].type \in PutTypes
      BY <1>1, <3>1 DEF Fits, StepFits, PutTypes
    <3>3. QED
      BY <3>2 DEF IsPut, PutVid
  <2>3. QED
    BY <1>2, <2>1, <2>2 DEF VersionWritten
<1>5. CASE \E d : TargetWritten(r, d) /\ ~Live(d)
  BY <1>2, <1>3, <1>5 DEF TargetWritten, VersionWritten
<1>6. WriteMasterOfNew(r) \/ WriteMasterOfVersion(r) \/ WriteMasterOfLatest(r) \/ Overwrite(r)
      \/ PlaceHolder(r) => \E d : MasterWritten(d)
  BY <1>1, DocsOfWriteMasterOfNew, DocsOfWriteMasterOfVersion, DocsOfWriteMasterOfLatest,
     DocsOfOverwrite, DocsOfPlaceHolder
<1>7. RepairWrites(r) => docs' = docs \/ \E d : MasterWritten(d)
  BY <1>1, DocsOfRepairWrites
<1>8. Flag(r) => docs' = docs \/ \E d : TargetWritten(r, d) /\ ~Live(d)
  BY <1>1, DocsOfFlag DEF Live
<1>9. FlagAgain(r) => docs' = docs \/ \E d : TargetWritten(r, d) /\ ~Live(d)
  BY <1>1, DocsOfFlagAgain DEF Live
<1>10. Remove(r) => docs' = docs \/ \E d : TargetWritten(r, d) /\ ~Live(d)
  BY <1>1, DocsOfRemove DEF Live
<1>11. QED
  BY <1>2, <1>3, <1>4, <1>5, <1>6, <1>7, <1>8, <1>9, <1>10, StepsSplit, DocsOfOthers DEF DocsWritten

\* What is acknowledged as deleted is flagged or removed by then.
LEMMA GoneChanges ==
    ASSUME MgTypeOK, ControlOK, NEW r \in Requests, StepOf(r)
    PROVE  \/ gone' = gone
           \/ /\ gone' = gone \cup {Op[r].vid} /\ Deleting(r) /\ Op[r].vid \in Vids /\ ~RepairWrites(r)
              /\ Removed(r) \/ ~Live(docs'[Op[r].vid])
<1>1. /\ DocsOK /\ OthersOK /\ Fits(r) /\ StepFits(r) /\ TargetFits(r)
      /\ (pc[r] = "done" \/ repair[r].at = "none")
  BY TypesAre DEF ControlOK, Fits, RepairFits
<1>2. Op[r].type \in VersionDeletes => Op[r].vid \in Vids
  BY Parameters DEF Naming
<1>3. pc[r] # "done" => ~RepairWrites(r)
  BY <1>1 DEF RepairWrites
<1>4. CASE Generate(r)
  BY <1>4 DEF Generate, Unnoticed
<1>5. CASE FindMasterToPut(r)
  BY <1>5 DEF FindMasterToPut, Unnoticed
<1>6. CASE FindVersionToPut(r)
  BY <1>6 DEF FindVersionToPut, Unnoticed
<1>7. CASE WriteVersion(r)
  BY <1>7 DEF WriteVersion, Unnoticed
<1>8. CASE WriteMasterOfNew(r)
  BY <1>8 DEF WriteMasterOfNew
<1>9. CASE WriteMasterOfVersion(r)
  BY <1>9 DEF WriteMasterOfVersion
<1>10. CASE LatestToPut(r)
  BY <1>10 DEF LatestToPut, Unnoticed
<1>11. CASE WriteMasterOfLatest(r)
  BY <1>11 DEF WriteMasterOfLatest
<1>12. CASE Overwrite(r)
  BY <1>12 DEF Overwrite, Unnoticed
<1>13. CASE Flag(r)
  <2>1. pc[r] = "flag" /\ (gone' = gone \/ RemovalDone(r, FALSE))
    BY <1>13 DEF Flag
  <2>2. gone' = gone \/ (target[r] = "placeHolder" /\ gone' = gone \cup {Op[r].vid})
    BY <2>1 DEF RemovalDone
  <2>3. target[r] = "placeHolder" => Op[r].type \in VersionDeletes
    BY <1>1, <2>1 DEF TargetFits
  <2>4. QED
    BY <1>2, <1>3, <2>1, <2>2, <2>3 DEF Removed, Deleting
<1>14. CASE FlagAgain(r)
  BY <1>14 DEF FlagAgain, Unnoticed
<1>15. CASE Remove(r)
  <2>1. pc[r] = "remove" /\ RemovalDone(r, TRUE)
    BY <1>15 DEF Remove
  <2>2. gone' = gone \/ (target[r] \in {"version", "placeHolder"} /\ gone' = gone \cup {Op[r].vid})
    BY <2>1 DEF RemovalDone
  <2>3. target[r] \in {"version", "placeHolder"} => Op[r].type \in VersionDeletes
    BY <1>1, <2>1 DEF TargetFits
  <2>4. target[r] = "version" /\ Op[r].type = "delVersionFast" => ~Live(docs'[Op[r].vid])
    <3>1. SUFFICES ASSUME target[r] = "version", Op[r].type = "delVersionFast"
                   PROVE  ~Live(docs'[Op[r].vid])
      OBVIOUS
    <3>2. TargetKey(r) = Op[r].vid /\ MatchesTarget(r, docs[TargetKey(r)])
      BY <3>1 DEF TargetKey, MatchesTarget
    <3>3. TargetWritten(r, NoDoc) \/ (docs' = docs /\ docs[Op[r].vid] = NoDoc)
      BY <1>1, <3>1, <3>2, <1>15, DocsOfRemove
    <3>4. docs'[Op[r].vid] = NoDoc
      BY <3>1, <3>3 DEF TargetWritten, VersionWritten
    <3>5. QED
      BY <3>4 DEF Live
  <2>5. QED
    BY <1>2, <1>3, <2>1, <2>2, <2>3, <2>4 DEF Removed, Deleting, VersionDeletes
<1>16. CASE FindMasterToDelete(r)
  BY <1>16 DEF FindMasterToDelete, Unnoticed
<1>17. CASE LatestToDelete(r)
  BY <1>17 DEF LatestToDelete, Unnoticed
<1>18. CASE PlaceHolder(r)
  BY <1>18 DEF PlaceHolder
<1>19. CASE DeleteOrRepairPHD(r)
  BY <1>1, <1>2, <1>3, <1>19 DEF DeleteOrRepairPHD, Deleting, Removed, StepFits, GetTypes, DeleteTypes,
     VersionDeletes
<1>20. CASE Read(r)
  BY <1>20 DEF Read
<1>21. CASE LatestToGet(r)
  BY <1>21 DEF LatestToGet, Unnoticed
<1>22. CASE RepairReads(r)
  BY <1>22 DEF RepairReads, Unnoticed
<1>23. CASE RepairWrites(r)
  BY <1>23 DEF RepairWrites
<1>24. CASE Crash(r)
  BY <1>24 DEF Crash
<1>25. CASE OperationFails(r)
  <2>1. gone' = gone \/ (RemovalErrorIsIgnored(r) /\ RemovalDone(r, TRUE))
    BY <1>25 DEF OperationFails
  <2>2. gone' = gone \/ (/\ RemovalErrorIsIgnored(r) /\ target[r] \in {"version", "placeHolder"}
                        /\ gone' = gone \cup {Op[r].vid})
    BY <2>1 DEF RemovalDone
  <2>3. RemovalErrorIsIgnored(r) /\ target[r] \in {"version", "placeHolder"} =>
            pc[r] # "done" /\ Deleting(r) /\ Removed(r)
    BY <1>1 DEF RemovalErrorIsIgnored, TargetFits, Deleting, Removed, VersionDeletes
  <2>4. QED
    BY <1>2, <1>3, <2>2, <2>3 DEF Deleting
<1>26. CASE RepairFails(r)
  BY <1>26 DEF RepairFails
<1>27. QED
  BY <1>4, <1>5, <1>6, <1>7, <1>8, <1>9, <1>10, <1>11, <1>12, <1>13, <1>14, <1>15, <1>16, <1>17, <1>18,
     <1>19, <1>20, <1>21, <1>22, <1>23, <1>24, <1>25, <1>26 DEF StepOf, RequestStep, RepairStep
\* A deletion begins when it has found a master or none, or when it has made its place holder.
LEMMA DeletingComesFrom ==
    ASSUME MgTypeOK, ControlOK, NEW r \in Requests, StepOf(r), Deleting(r)'
    PROVE  \/ Deleting(r)
           \/ FindMasterToDelete(r) /\ ~(docs[Master] # NoDoc /\ docs[Master].phd /\ ~docs[Master].flagged)
                                    /\ ~ServedMaster(Op[r].vid)
           \/ PlaceHolder(r)
<1>1. /\ DocsOK /\ OthersOK /\ Fits(r) /\ StepFits(r) /\ TargetFits(r)
  BY TypesAre DEF ControlOK, Fits
<1>2. \A step \in Steps : Goto(r, step) => pc'[r] = step
  BY <1>1 DEF OthersOK, Goto
<1>3. \A result, doc : Finished(r, result, doc) => pc'[r] = "done"
  BY <1>2 DEF Finished, Steps
<1>4. \A result : Answer(r, result) => pc'[r] = "done"
  BY <1>3 DEF Answer
<1>5. Op[r].type \in VersionDeletes /\ pc'[r] \in {"latest", "flag", "flagAgain", "remove"}
  BY DEF Deleting
<1>6. pc[r] # "done" => Op[r].type \notin PutTypes \cup GetTypes
  BY <1>5 DEF VersionDeletes, PutTypes, GetTypes
<1>7. CASE Generate(r)
  BY <1>1, <1>5, <1>7 DEF Generate, StepFits, VersionDeletes, GetTypes
<1>8. CASE FindMasterToPut(r)
  BY <1>1, <1>5, <1>8 DEF FindMasterToPut, StepFits, VersionDeletes, GetTypes
<1>9. CASE FindVersionToPut(r)
  BY <1>1, <1>5, <1>9 DEF FindVersionToPut, StepFits, VersionDeletes, GetTypes
<1>10. CASE WriteVersion(r)
  BY <1>1, <1>5, <1>10 DEF WriteVersion, StepFits, VersionDeletes, GetTypes
<1>11. CASE WriteMasterOfNew(r)
  BY <1>1, <1>5, <1>11 DEF WriteMasterOfNew, StepFits, VersionDeletes, GetTypes
<1>12. CASE WriteMasterOfVersion(r)
  BY <1>1, <1>5, <1>12 DEF WriteMasterOfVersion, StepFits, VersionDeletes, GetTypes
<1>13. CASE LatestToPut(r)
  BY <1>1, <1>5, <1>13 DEF LatestToPut, StepFits, VersionDeletes, GetTypes
<1>14. CASE WriteMasterOfLatest(r)
  BY <1>1, <1>5, <1>14 DEF WriteMasterOfLatest, StepFits, VersionDeletes, GetTypes
<1>15. CASE Overwrite(r)
  BY <1>1, <1>5, <1>15 DEF Overwrite, StepFits, VersionDeletes, GetTypes
<1>16. CASE Flag(r)
  BY <1>5, <1>16 DEF Flag, Deleting
<1>17. CASE FlagAgain(r)
  BY <1>5, <1>17 DEF FlagAgain, Deleting
<1>18. CASE Remove(r)
  BY <1>5, <1>18 DEF Remove, Deleting
<1>19. CASE FindMasterToDelete(r)
  <2>1. CASE ~Live(docs[Master])
    BY <2>1, <1>19 DEF Live, ServedMaster
  <2>2. CASE Live(docs[Master]) /\ ChooseDeletion(r, docs[Master])
    <3>1. CASE docs[Master].phd \/ docs[Master].vid = Op[r].vid
      <4>1. pc'[r] = "placeHolder"
        BY <1>2, <2>2, <3>1 DEF ChooseDeletion, Steps
      <4>2. QED
        BY <1>5, <4>1
    <3>2. CASE ~(docs[Master].phd \/ docs[Master].vid = Op[r].vid)
      BY <3>2, <1>19 DEF ServedMaster
    <3>3. QED
      BY <3>1, <3>2
  <2>3. QED
    BY <2>1, <2>2, <1>19 DEF FindMasterToDelete
<1>20. CASE LatestToDelete(r)
  BY <1>5, <1>20 DEF LatestToDelete, Deleting
<1>21. CASE PlaceHolder(r)
  BY <1>21
<1>22. CASE DeleteOrRepairPHD(r)
  BY <1>5, <1>22 DEF DeleteOrRepairPHD, Deleting
<1>23. CASE Read(r)
  BY <1>1, <1>5, <1>23 DEF Read, StepFits, VersionDeletes, GetTypes
<1>24. CASE LatestToGet(r)
  BY <1>1, <1>5, <1>24 DEF LatestToGet, StepFits, VersionDeletes, GetTypes
<1>25. CASE RepairReads(r)
  BY <1>5, <1>25 DEF RepairReads, Deleting
<1>26. CASE RepairWrites(r)
  BY <1>5, <1>26 DEF RepairWrites, Deleting
<1>27. CASE Crash(r)
  BY <1>2, <1>5, <1>27 DEF Crash, Steps
<1>28. CASE OperationFails(r)
  BY <1>4, <1>5, <1>28 DEF OperationFails, RemovalErrorIsIgnored, Deleting
<1>29. CASE RepairFails(r)
  BY <1>5, <1>29 DEF RepairFails, Deleting
<1>30. QED
  BY <1>7, <1>8, <1>9, <1>10, <1>11, <1>12, <1>13, <1>14, <1>15, <1>16, <1>17, <1>18, <1>19, <1>20,
     <1>21, <1>22, <1>23, <1>24, <1>25, <1>26, <1>27, <1>28, <1>29 DEF StepOf, RequestStep, RepairStep

\* The version of a deletion is flagged or removed, or was not live, once that is done.
LEMMA RemovedComesFrom ==
    ASSUME MgTypeOK, ControlOK, NEW r \in Requests, StepOf(r), Removed(r)'
    PROVE  Removed(r) \/ ~Live(docs'[Op[r].vid])
<1>1. /\ DocsOK /\ OthersOK /\ Fits(r) /\ StepFits(r) /\ TargetFits(r)
  BY TypesAre DEF ControlOK, Fits
<1>2. \A step \in Steps : Goto(r, step) => pc'[r] = step
  BY <1>1 DEF OthersOK, Goto
<1>3. \A result, doc : Finished(r, result, doc) => pc'[r] = "done"
  BY <1>2 DEF Finished, Steps
<1>4. \A result : Answer(r, result) => pc'[r] = "done"
  BY <1>3 DEF Answer
<1>5. /\ Op[r].type \in VersionDeletes
      /\ \/ pc'[r] = "flagAgain"
         \/ pc'[r] = "remove" /\ Op[r].type = "delVersion"
         \/ pc'[r] = "latest" /\ vid'[r] # NoVid
         \/ pc'[r] \in {"flag", "remove"} /\ target'[r] = "placeHolder"
  BY DEF Removed
<1>6. DocsAlone(r) => docs' = docs
  BY DocsOfOthers
<1>7. CASE Generate(r)
  BY <1>1, <1>5, <1>7 DEF Generate, StepFits, VersionDeletes, GetTypes
<1>8. CASE FindMasterToPut(r)
  BY <1>1, <1>5, <1>8 DEF FindMasterToPut, StepFits, VersionDeletes, GetTypes
<1>9. CASE FindVersionToPut(r)
  BY <1>1, <1>5, <1>9 DEF FindVersionToPut, StepFits, VersionDeletes, GetTypes
<1>10. CASE WriteVersion(r)
  BY <1>1, <1>5, <1>10 DEF WriteVersion, StepFits, VersionDeletes, GetTypes
<1>11. CASE WriteMasterOfNew(r)
  BY <1>1, <1>5, <1>11 DEF WriteMasterOfNew, StepFits, VersionDeletes, GetTypes
<1>12. CASE WriteMasterOfVersion(r)
  BY <1>1, <1>5, <1>12 DEF WriteMasterOfVersion, StepFits, VersionDeletes, GetTypes
<1>13. CASE LatestToPut(r)
  BY <1>1, <1>5, <1>13 DEF LatestToPut, StepFits, VersionDeletes, GetTypes
<1>14. CASE WriteMasterOfLatest(r)
  BY <1>1, <1>5, <1>14 DEF WriteMasterOfLatest, StepFits, VersionDeletes, GetTypes
<1>15. CASE Overwrite(r)
  BY <1>1, <1>5, <1>15 DEF Overwrite, StepFits, VersionDeletes, GetTypes
<1>16. CASE Flag(r)
  <2>1. pc[r] = "flag" /\ target' = target /\ vid' = vid
    BY <1>16 DEF Flag
  <2>2. CASE target[r] = "placeHolder"
    BY <1>5, <2>1, <2>2 DEF Removed
  <2>3. CASE target[r] # "placeHolder"
    <3>1. target[r] \in {"version", "masterVersion"}
      BY <1>1, <1>5, <2>1, <2>3 DEF TargetFits, VersionDeletes
    <3>2. TargetKey(r) = Op[r].vid /\ MatchesTarget(r, docs[TargetKey(r)])
      BY <2>3, <3>1 DEF TargetKey, MatchesTarget
    <3>3. \/ docs' = docs /\ ~Live(docs[Op[r].vid])
          \/ \E f : TargetWritten(r, f) /\ f.flagged
      BY <1>1, <3>2, <1>16, DocsOfFlag
    <3>4. QED
      BY <3>1, <3>3 DEF TargetWritten, VersionWritten, Live
  <2>4. QED
    BY <2>2, <2>3
<1>17. CASE FlagAgain(r)
  BY <1>5, <1>17 DEF FlagAgain, Removed
<1>18. CASE Remove(r)
  <2>1. pc[r] = "remove" /\ target' = target /\ vid' = vid
    BY <1>18 DEF Remove
  <2>2. CASE target[r] = "placeHolder" \/ Op[r].type = "delVersion"
    BY <1>5, <2>1, <2>2 DEF Removed
  <2>3. CASE target[r] # "placeHolder" /\ Op[r].type = "delVersionFast"
    <3>1. target[r] \in {"version", "masterVersion"}
      BY <1>1, <2>1, <2>3 DEF TargetFits, VersionDeletes
    <3>2. TargetKey(r) = Op[r].vid /\ MatchesTarget(r, docs[TargetKey(r)])
      BY <2>3, <3>1 DEF TargetKey, MatchesTarget
    <3>3. TargetWritten(r, NoDoc) \/ (docs' = docs /\ docs[Op[r].vid] = NoDoc)
      BY <1>1, <2>3, <3>2, <1>18, DocsOfRemove
    <3>4. docs'[Op[r].vid] = NoDoc
      BY <3>1, <3>3 DEF TargetWritten, VersionWritten
    <3>5. QED
      BY <3>4 DEF Live
  <2>4. QED
    BY <1>5, <2>2, <2>3 DEF VersionDeletes
<1>19. CASE FindMasterToDelete(r)
  <2>1. vid[r] = NoVid
    BY <1>1, <1>19 DEF FindMasterToDelete, StepFits
  <2>2. ASSUME NEW mst, ChooseDeletion(r, mst)
        PROVE  FALSE
    <3>1. CASE Goto(r, "placeHolder")
      BY <1>2, <1>5, <3>1 DEF Steps
    <3>2. CASE target' = [target EXCEPT ![r] = "version"] /\ Goto(r, FirstOfRemoval(r))
      <4>1. target'[r] = "version" /\ pc'[r] = FirstOfRemoval(r)
        BY <1>1, <1>2, <3>2 DEF OthersOK, FirstOfRemoval, Steps
      <4>2. QED
        BY <1>5, <4>1 DEF FirstOfRemoval
    <3>3. QED
      BY <2>2, <3>1, <3>2 DEF ChooseDeletion
  <2>3. QED
    BY <1>2, <1>4, <1>5, <2>1, <2>2, <1>19 DEF FindMasterToDelete, Steps
<1>20. CASE LatestToDelete(r)
  <2>1. vid[r] = NoVid
    BY <1>1, <1>20 DEF LatestToDelete, StepFits
  <2>2. ASSUME NEW mst, ChooseDeletion(r, mst)
        PROVE  FALSE
    <3>1. CASE Goto(r, "placeHolder")
      BY <1>2, <1>5, <3>1 DEF Steps
    <3>2. CASE target' = [target EXCEPT ![r] = "version"] /\ Goto(r, FirstOfRemoval(r))
      <4>1. target'[r] = "version" /\ pc'[r] = FirstOfRemoval(r)
        BY <1>1, <1>2, <3>2 DEF OthersOK, FirstOfRemoval, Steps
      <4>2. QED
        BY <1>5, <4>1 DEF FirstOfRemoval
    <3>3. QED
      BY <2>2, <3>1, <3>2 DEF ChooseDeletion
  <2>3. QED
    BY <1>2, <1>4, <1>5, <2>1, <2>2, <1>20 DEF LatestToDelete, Steps
<1>21. CASE PlaceHolder(r)
  <2>1. target'[r] = "masterVersion" /\ pc'[r] = FirstOfRemoval(r)
    BY <1>1, <1>2, <1>21 DEF PlaceHolder, OthersOK, FirstOfRemoval, Steps
  <2>2. QED
    BY <1>5, <2>1 DEF FirstOfRemoval
<1>22. CASE DeleteOrRepairPHD(r)
  BY <1>1, <1>4, <1>5, <1>22 DEF DeleteOrRepairPHD, Removed, StepFits
<1>23. CASE Read(r)
  BY <1>1, <1>5, <1>23 DEF Read, StepFits, VersionDeletes, GetTypes
<1>24. CASE LatestToGet(r)
  BY <1>1, <1>5, <1>24 DEF LatestToGet, StepFits, VersionDeletes, GetTypes
<1>25. CASE RepairReads(r)
  BY <1>5, <1>25 DEF RepairReads, Removed
<1>26. CASE RepairWrites(r)
  BY <1>5, <1>26 DEF RepairWrites, Removed
<1>27. CASE Crash(r)
  BY <1>2, <1>5, <1>27 DEF Crash, Steps
<1>28. CASE OperationFails(r)
  <2>1. (RemovalErrorIsIgnored(r) /\ RemovalDone(r, TRUE)) \/ pc'[r] = "done"
    BY <1>4, <1>28 DEF OperationFails
  <2>2. RemovalErrorIsIgnored(r) => Removed(r)
    BY <1>5 DEF RemovalErrorIsIgnored, Removed, VersionDeletes
  <2>3. QED
    BY <1>5, <2>1, <2>2
<1>29. CASE RepairFails(r)
  BY <1>5, <1>29 DEF RepairFails, Removed
<1>30. QED
  BY <1>7, <1>8, <1>9, <1>10, <1>11, <1>12, <1>13, <1>14, <1>15, <1>16, <1>17, <1>18, <1>19, <1>20,
     <1>21, <1>22, <1>23, <1>24, <1>25, <1>26, <1>27, <1>28, <1>29 DEF StepOf, RequestStep, RepairStep

\* A version that no call puts becomes the master only when a repair replaces its place holder.
LEMMA MastersComeFrom ==
    ASSUME Apart, MgTypeOK, ControlOK, NEW r \in Requests, StepOf(r), NEW v \in Vids, ServedMaster(v)',
           "restored" \notin unchecked'
    PROVE  \/ ServedMaster(v)
           \/ IsPut(v)
           \/ RepairWrites(r) /\ IsPlaceHolderOf(r) /\ repair[r].at = "write" /\ repair[r].value.vid = v
<1>1. /\ DocsOK /\ OthersOK /\ Fits(r) /\ vid[r] \in Vids \cup {NoVid}
      /\ seen[r] \in Doc \cup {NoDoc} /\ repair[r].value \in Doc \cup {NoDoc}
  BY TypesAre DEF ControlOK, OthersOK
<1> DEFINE m == docs[Master]
           d == docs'[Master]
<1>2. Live(d) /\ ~d.phd /\ d.vid = v
  BY DEF ServedMaster, Live
<1>3. CASE d = m
  BY <1>2, <1>3 DEF ServedMaster
<1>4. pc[r] # "done" => r \in Calls[scenario] /\ Op[r].type \notin {"putRepair", "putPlainOplog", "delPlain"}
  BY <1>1 DEF Fits, StepFits, Apart, OthersOK
<1>5. CASE WriteMasterOfNew(r)
  <2>1. d \in {ValueOf(r, vid[r]), NoDoc, m} /\ ValueOf(r, vid[r]).vid = vid[r]
    BY <1>1, <1>5, DocsOfWriteMasterOfNew, ValueIsDoc
  <2>2. v = vid[r] => IsPut(v)
    BY <1>4, <1>5 DEF WriteMasterOfNew, IsPut, PutTypes
  <2>3. QED
    BY <1>2, <1>3, <2>1, <2>2 DEF Live
<1>6. CASE WriteMasterOfVersion(r)
  <2>1. d \in {ValueOf(r, Op[r].vid), NoDoc, m} /\ Op[r].vid \in Vids
    BY <1>1, <1>6, DocsOfWriteMasterOfVersion
  <2>2. v = Op[r].vid => IsPut(v)
    BY <1>4, <1>6 DEF WriteMasterOfVersion, IsPut, PutTypes
  <2>3. ValueOf(r, Op[r].vid).vid = Op[r].vid
    BY <2>1, ValueIsDoc
  <2>4. QED
    BY <1>2, <1>3, <2>1, <2>2, <2>3 DEF Live
<1>7. ~WriteMasterOfLatest(r)
  BY <1>4 DEF WriteMasterOfLatest
<1>8. CASE Overwrite(r)
  <2>1. d = ValueOf(r, vid[r]) /\ ValueOf(r, vid[r]).vid = vid[r]
    BY <1>1, <1>8, DocsOfOverwrite, ValueIsDoc DEF MasterWritten
  <2>2. pc[r] = "overwrite"
    BY <1>8 DEF Overwrite
  <2>3. Op[r].type \in PutTypes
    BY <1>1, <2>2 DEF Fits, StepFits, PutTypes
  <2>4. QED
    BY <1>2, <1>4, <2>1, <2>2, <2>3 DEF IsPut
<1>9. CASE \E f : TargetWritten(r, f) /\ ~Live(f)
  BY <1>2, <1>3, <1>9 DEF TargetWritten, VersionWritten, MasterWritten
<1>10. Flag(r) => docs' = docs \/ \E f : TargetWritten(r, f) /\ ~Live(f)
  BY <1>1, DocsOfFlag DEF Live
<1>11. FlagAgain(r) => docs' = docs \/ \E f : TargetWritten(r, f) /\ ~Live(f)
  BY <1>1, DocsOfFlagAgain DEF Live
<1>12. Remove(r) => docs' = docs \/ \E f : TargetWritten(r, f) /\ ~Live(f)
  BY <1>1, DocsOfRemove DEF Live
<1>13. ~PlaceHolder(r)
  BY <1>1, <1>2, DocsOfPlaceHolder
<1>14. CASE RepairWrites(r)
  <2>1. repair[r].at = "write"
    BY <1>14 DEF RepairWrites
  <2>2. vid[r] # NoVid
    BY <1>1, <2>1 DEF Fits, RepairFits
  <2>3. \/ docs' = docs
        \/ m # NoDoc /\ m.phd /\ m.vid = vid[r] /\ d = repair[r].value
    BY <1>1, <1>14, DocsOfRepairWrites DEF MasterWritten
  <2>4. QED
    BY <1>2, <1>3, <1>14, <2>1, <2>2, <2>3 DEF IsPlaceHolderOf
<1>15. CASE WriteVersion(r)
  <2>1. VersionWritten(PutVid(r), ValueOf(r, PutVid(r)))
    BY <1>1, <1>15, DocsOfWriteVersion
  <2>2. QED
    BY <1>3, <2>1 DEF VersionWritten
<1>16. QED
  BY <1>3, <1>5, <1>6, <1>7, <1>8, <1>9, <1>10, <1>11, <1>12, <1>13, <1>14, <1>15, StepsSplit, DocsOfOthers
  DEF DocsWritten
\* A version that is lost was lost before, or has just been deleted.
LEMMA LostComesFrom ==
    ASSUME MgTypeOK, ControlOK, NEW r \in Requests, StepOf(r), NEW v \in Vids, Lost(v)'
    PROVE  /\ ~IsPut(v)
           /\ \/ Lost(v)
              \/ v = Op[r].vid /\ Deleting(r) /\ ~RepairWrites(r) /\ (Removed(r) \/ ~Live(docs'[v]))
<1>1. v \in gone' /\ ~IsPut(v)'
  BY DEF Lost
<1>2. ~IsPut(v)
  BY <1>1, PutsStay
<1>3. CASE v \in gone
  BY <1>2, <1>3 DEF Lost
<1>4. CASE v \notin gone
  BY <1>1, <1>2, <1>4, GoneChanges
<1>5. QED
  BY <1>3, <1>4

\* No step brings a lost version back under its own key.
LEMMA LostStayGone ==
    ASSUME DeletionsInv, NEW r \in Requests, StepOf(r)
    PROVE  LostAreGone'
<1>1. MgTypeOK /\ ControlOK /\ LostAreGone /\ RemovedAreGone
  BY DEF DeletionsInv
<1>2. ASSUME NEW v \in Vids, Lost(v)'
      PROVE  ~Live(docs'[v])
  <2>1. SUFFICES ASSUME Live(docs'[v])
                 PROVE  FALSE
    OBVIOUS
  <2>2. ~IsPut(v) /\ (Lost(v) \/ (v = Op[r].vid /\ Removed(r)))
    BY <1>1, <1>2, <2>1, LostComesFrom
  <2>3. Live(docs[v])
    BY <1>1, <2>1, <2>2, VersionsComeFrom
  <2>4. QED
    BY <1>1, <2>2, <2>3 DEF LostAreGone, RemovedAreGone
<1>3. QED
  BY <1>2 DEF LostAreGone, Live

\* No step brings back what a deletion in progress has flagged.
LEMMA RemovedStayGone ==
    ASSUME DeletionsInv, NEW r \in Requests, StepOf(r)
    PROVE  RemovedAreGone'
<1>1. MgTypeOK /\ ControlOK /\ RemovedAreGone /\ OthersOK
  BY TypesAre DEF DeletionsInv
<1>2. ASSUME NEW p \in Requests, Removed(p)', ~IsPut(Op[p].vid)'
      PROVE  ~Live(docs'[Op[p].vid])
  <2>1. Op[p].vid \in Vids
    BY <1>2, Parameters DEF Removed, Naming
  <2>2. ~IsPut(Op[p].vid)
    BY <1>1, <1>2, <2>1, PutsStay
  <2>3. Removed(p) \/ ~Live(docs'[Op[p].vid])
    <3>1. CASE p = r
      BY <1>1, <1>2, <3>1, RemovedComesFrom
    <3>2. CASE p # r
      BY <1>1, <1>2, <3>2, StepChangesOne DEF OthersStay, Removed
    <3>3. QED
      BY <3>1, <3>2
  <2>4. Removed(p) => ~Live(docs[Op[p].vid])
    BY <1>1, <2>2 DEF RemovedAreGone
  <2>5. QED
    BY <1>1, <2>1, <2>2, <2>3, <2>4, VersionsComeFrom
<1>3. QED
  BY <1>2 DEF RemovedAreGone, Live

\* No step makes a lost version the master.
LEMMA LostStayOut ==
    ASSUME Apart, DeletionsInv, NEW r \in Requests, StepOf(r)
    PROVE  LostAreNotMaster'
<1>1. /\ MgTypeOK /\ ControlOK /\ LostAreNotMaster /\ DeletedAreNotMaster /\ RepairsWaitForDeletions
  BY DEF DeletionsInv
<1>2. SUFFICES ASSUME "restored" \notin unchecked', NEW v \in Vids, Lost(v)', ServedMaster(v)'
               PROVE  FALSE
  BY DEF LostAreNotMaster
<1>3. "restored" \notin unchecked
  BY <1>2, HistoryGrows
<1>4. ~IsPut(v) /\ (Lost(v) \/ (v = Op[r].vid /\ Deleting(r) /\ ~RepairWrites(r)))
  BY <1>1, <1>2, LostComesFrom
<1>5. ~ServedMaster(v)
  BY <1>1, <1>3, <1>4 DEF LostAreNotMaster, DeletedAreNotMaster
<1>6. RepairWrites(r) /\ IsPlaceHolderOf(r) /\ repair[r].at = "write" /\ repair[r].value.vid = v
  BY <1>1, <1>2, <1>4, <1>5, MastersComeFrom
<1>7. QED
  BY <1>1, <1>4, <1>6 DEF RepairsWaitForDeletions

\* No step makes a version the master that a deletion in progress has removed.
LEMMA DeletedStayOut ==
    ASSUME Apart, DeletionsInv, NEW r \in Requests, StepOf(r)
    PROVE  DeletedAreNotMaster'
<1>1. /\ MgTypeOK /\ ControlOK /\ DeletedAreNotMaster /\ RepairsWaitForDeletions /\ DocsOK /\ OthersOK
  BY TypesAre DEF DeletionsInv
<1>2. SUFFICES ASSUME "restored" \notin unchecked', NEW p \in Requests, Deleting(p)', ~IsPut(Op[p].vid)',
                      ServedMaster(Op[p].vid)'
               PROVE  FALSE
  BY DEF DeletedAreNotMaster
<1>3. "restored" \notin unchecked
  BY <1>2, HistoryGrows
<1>4. Op[p].vid \in Vids
  BY <1>2, Parameters DEF Deleting, Naming
<1>5. ~IsPut(Op[p].vid)
  BY <1>1, <1>2, <1>4, PutsStay
<1>6. \/ Deleting(p)
      \/ p = r /\ FindMasterToDelete(r) /\ ~ServedMaster(Op[p].vid)
      \/ p = r /\ PlaceHolder(r)
  <2>1. CASE p = r
    BY <1>1, <1>2, <2>1, DeletingComesFrom
  <2>2. CASE p # r
    BY <1>1, <1>2, <2>2, StepChangesOne DEF OthersStay, Deleting
  <2>3. QED
    BY <2>1, <2>2
<1>7. CASE PlaceHolder(r)
  <2>1. docs'[Master].phd
    BY <1>1, <1>7, DocsOfPlaceHolder DEF ControlOK, OthersOK
  <2>2. QED
    BY <1>2, <2>1 DEF ServedMaster
<1>8. CASE Deleting(p) \/ (FindMasterToDelete(r) /\ ~ServedMaster(Op[p].vid))
  <2>1. ~ServedMaster(Op[p].vid)
    BY <1>1, <1>3, <1>5, <1>8 DEF DeletedAreNotMaster
  <2>2. RepairWrites(r) /\ IsPlaceHolderOf(r) /\ repair[r].at = "write"
    BY <1>1, <1>2, <1>4, <1>5, <2>1, MastersComeFrom
  <2>3. FindMasterToDelete(r) => docs' = docs
    BY DEF FindMasterToDelete
  <2>4. CASE Deleting(p)
    BY <1>1, <2>2, <2>4 DEF RepairsWaitForDeletions
  <2>5. CASE FindMasterToDelete(r)
    BY <1>2, <2>1, <2>3, <2>5 DEF ServedMaster, Live
  <2>6. QED
    BY <1>8, <2>4, <2>5
<1>9. QED
  BY <1>6, <1>7, <1>8

\* A removal of a place holder goes on until it is over.
LEMMA PlaceHolderTargetStays ==
    ASSUME MgTypeOK, ControlOK, NEW r \in Requests, StepOf(r), vid[r] # NoVid, target[r] = "placeHolder",
           ~PlaceHolder(r)
    PROVE  target'[r] = "placeHolder"
<1>1. OthersOK /\ StepFits(r)
  BY TypesAre DEF ControlOK, Fits
<1>2. CASE Generate(r)
  BY <1>2 DEF Generate
<1>3. CASE FindMasterToPut(r)
  BY <1>3 DEF FindMasterToPut
<1>4. CASE FindVersionToPut(r)
  BY <1>1, <1>4 DEF FindVersionToPut, StepFits, VersionDeletes
<1>5. CASE WriteVersion(r)
  BY <1>5 DEF WriteVersion
<1>6. CASE WriteMasterOfNew(r)
  BY <1>6 DEF WriteMasterOfNew
<1>7. CASE WriteMasterOfVersion(r)
  BY <1>7 DEF WriteMasterOfVersion
<1>8. CASE LatestToPut(r)
  BY <1>8 DEF LatestToPut
<1>9. CASE WriteMasterOfLatest(r)
  BY <1>9 DEF WriteMasterOfLatest
<1>10. CASE Overwrite(r)
  BY <1>10 DEF Overwrite
<1>11. CASE Flag(r)
  BY <1>11 DEF Flag
<1>12. CASE FlagAgain(r)
  BY <1>12 DEF FlagAgain
<1>13. CASE Remove(r)
  BY <1>13 DEF Remove
<1>14. CASE FindMasterToDelete(r)
  BY <1>1, <1>14 DEF FindMasterToDelete, StepFits, VersionDeletes
<1>15. CASE LatestToDelete(r)
  BY <1>15 DEF LatestToDelete
<1>16. CASE DeleteOrRepairPHD(r)
  BY <1>1, <1>16 DEF DeleteOrRepairPHD, OthersOK
<1>17. CASE Read(r)
  BY <1>17 DEF Read
<1>18. CASE LatestToGet(r)
  BY <1>18 DEF LatestToGet
<1>19. CASE RepairReads(r)
  BY <1>19 DEF RepairReads
<1>20. CASE RepairWrites(r)
  BY <1>20 DEF RepairWrites
<1>21. CASE Crash(r)
  BY <1>21 DEF Crash
<1>22. CASE OperationFails(r)
  BY <1>22 DEF OperationFails
<1>23. CASE RepairFails(r)
  BY <1>23 DEF RepairFails
<1>24. QED
  BY <1>2, <1>3, <1>4, <1>5, <1>6, <1>7, <1>8, <1>9, <1>10, <1>11, <1>12, <1>13, <1>14, <1>15, <1>16,
     <1>17, <1>18, <1>19, <1>20, <1>21, <1>22, <1>23 DEF StepOf, RequestStep, RepairStep

\* A place holder keeps having an id that is not generated again.
LEMMA PlaceHoldersStayOld ==
    ASSUME MgTypeOK, ControlOK, NoPlain, PlaceHoldersAreOld, NEW r \in Requests, StepOf(r)
    PROVE  PlaceHoldersAreOld'
<1>1. OthersOK /\ OthersOK' /\ DocsOK /\ FreshVids'
  BY TypesAre, TypesStay, FreshVidsStay, PTL
<1>2. SUFFICES ASSUME docs'[Master] # NoDoc, docs'[Master].phd
               PROVE  docs'[Master].vid = NoVid \/ nextVid' < docs'[Master].vid
  BY DEF PlaceHoldersAreOld
<1>3. CASE PlaceHolder(r) /\ docs'[Master].vid = vid[r] /\ vid[r] \in Vids
  <2>1. vid'[r] = vid[r] /\ vid[r] # NoVid
    BY <1>3, Parameters DEF PlaceHolder
  <2>2. QED
    BY <1>1, <1>3, <2>1 DEF FreshVids
<1>4. CASE docs[Master] # NoDoc /\ docs[Master].phd /\ docs[Master].vid = docs'[Master].vid
  <2>1. docs[Master].vid \in Vids \cup {NoVid}
    BY <1>1, <1>4 DEF DocsOK, Keys, Doc
  <2>2. docs[Master].vid # NoVid => docs[Master].vid \in Nat
    BY <2>1, Parameters
  <2>3. nextVid' \in Nat /\ nextVid \in Nat /\ nextVid' <= nextVid
    <3>1. nextVid \in Nat /\ nextVid' \in Nat
      BY <1>1 DEF OthersOK
    <3>2. QED
      BY <3>1, VidsStay DEF Generated
  <2>4. docs[Master].vid = NoVid \/ nextVid < docs[Master].vid
    BY <1>4 DEF PlaceHoldersAreOld
  <2>5. QED
    BY <1>4, <2>2, <2>3, <2>4
<1>5. QED
  BY <1>2, <1>3, <1>4, PlaceHolderMasters

\* A flagged place holder stays one that its own removal has flagged.
LEMMA FlaggedStaysOwn ==
    ASSUME Apart, DeletionsInv, NEW r \in Requests, StepOf(r)
    PROVE  FlaggedByItsOwn'
<1>1. MgTypeOK /\ ControlOK /\ FlaggedByItsOwn /\ PlaceHoldersAreOld /\ OthersOK /\ NoPlain
  BY TypesAre DEF DeletionsInv, Apart, NoPlain, OthersOK
<1>2. SUFFICES ASSUME NEW q \in Requests, IsPlaceHolderOf(q)', docs'[Master].flagged
               PROVE  target'[q] = "placeHolder"
  BY DEF FlaggedByItsOwn
<1>3. vid'[q] # NoVid
  BY <1>2 DEF IsPlaceHolderOf
<1>4. CASE vid[q] = NoVid
  <2>1. Generated(r) /\ q = r
    BY <1>1, <1>3, <1>4, VidsStay, StepChangesOne DEF OthersStay
  <2>2. vid'[r] = nextVid /\ nextVid \in Nat
    BY <1>1, <2>1 DEF Generated, OthersOK
  <2>3. docs'[Master] # NoDoc /\ docs'[Master].phd /\ docs'[Master].vid = nextVid
    BY <1>2, <2>1, <2>2 DEF IsPlaceHolderOf
  <2>4. \/ vid[r] # NoVid
        \/ docs[Master] # NoDoc /\ docs[Master].phd /\ docs[Master].vid = nextVid
    BY <1>1, <2>3, PlaceHolderMasters, Parameters
  <2>5. nextVid # NoVid
    BY <1>3, <2>1, <2>2
  <2>6. QED
    BY <1>1, <1>4, <2>1, <2>2, <2>4, <2>5 DEF PlaceHoldersAreOld
<1>5. CASE vid[q] # NoVid
  <2>1. /\ ~PlaceHolder(r) \/ q # r
        /\ IsPlaceHolderOf(q) /\ (docs[Master].flagged \/ (q = r /\ target[r] = "placeHolder"))
    BY <1>1, <1>2, <1>5, PlaceHoldersComeFrom
  <2>2. target[q] = "placeHolder"
    BY <1>1, <2>1 DEF FlaggedByItsOwn
  <2>3. CASE q # r
    BY <1>1, <2>2, <2>3, StepChangesOne DEF OthersStay
  <2>4. CASE q = r
    BY <1>1, <1>5, <2>1, <2>2, <2>4, PlaceHolderTargetStays
  <2>5. QED
    BY <2>3, <2>4
<1>6. QED
  BY <1>4, <1>5
\* A repair still waits, after every step, for the deletions that began before its timer.
LEMMA RepairsStillWaitForDeletions ==
    ASSUME LongDelay, Apart, DeletionsInv, NEW r \in Requests, StepOf(r)
    PROVE  RepairsWaitForDeletions'
<1>1. /\ MgTypeOK /\ ControlOK /\ LostAreGone /\ RepairsWaitForDeletions /\ FlaggedByItsOwn
      /\ OthersOK /\ NoPlain
  BY TypesAre DEF DeletionsInv, Apart, NoPlain, OthersOK
<1>2. SUFFICES ASSUME NEW q \in Requests, IsPlaceHolderOf(q)', repair'[q].at # "none"
               PROVE  /\ repair'[q].at = "armed" => \A p \in Requests : Deleting(p)' => p \in repair'[q].during
                      /\ repair'[q].at = "write" =>
                             /\ \A p \in Requests : ~Deleting(p)'
                             /\ \A v \in Vids : repair'[q].value.vid = v => ~Lost(v)'
  BY DEF RepairsWaitForDeletions
<1>3. RepairFits(q)
  BY <1>1 DEF ControlOK, Fits
<1>4. CASE repair'[q] = repair[q]
  <2>1. /\ pc[q] = "done" /\ vid[q] # NoVid /\ target[q] = "masterVersion"
        /\ repair[q].at = "write" => repair[q].value.vid \in Vids
    BY <1>2, <1>3, <1>4 DEF RepairFits
  <2>2. IsPlaceHolderOf(q) /\ ~PlaceHolder(r)
    BY <1>1, <1>2, <2>1, PlaceHoldersComeFrom DEF PlaceHolder
  <2>3. docs[Master] # NoDoc /\ docs[Master].phd /\ ~docs[Master].flagged
    BY <1>1, <2>1, <2>2 DEF FlaggedByItsOwn, IsPlaceHolderOf
  <2>4. ASSUME NEW p \in Requests, Deleting(p)'
        PROVE  Deleting(p)
    <3>1. CASE p = r
      BY <1>1, <2>2, <2>3, <2>4, <3>1, DeletingComesFrom
    <3>2. CASE p # r
      BY <1>1, <2>4, <3>2, StepChangesOne DEF OthersStay, Deleting
    <3>3. QED
      BY <3>1, <3>2
  <2>5. ASSUME repair[q].at = "write", NEW v \in Vids, repair[q].value.vid = v
        PROVE  ~Lost(v)'
    <3>1. ~Lost(v) /\ ~Deleting(r)
      BY <1>1, <2>2, <2>5 DEF RepairsWaitForDeletions
    <3>2. QED
      BY <1>1, <2>1, <2>5, <3>1, LostComesFrom
  <2>6. QED
    BY <1>1, <1>4, <2>2, <2>4, <2>5 DEF RepairsWaitForDeletions
<1>5. CASE /\ q = r /\ DeleteOrRepairPHD(r)
           /\ repair'[r] = [at |-> "armed", value |-> NoDoc,
                            during |-> {x \in Requests \ {r} : pc[x] \notin {"done", FirstStep(x)}}]
  <2>1. ASSUME NEW p \in Requests, Deleting(p)'
        PROVE  p \in repair'[r].during
    <3>1. pc'[r] = "done"
      <4>1. ~(target' = [target EXCEPT ![r] = "placeHolder"] /\ Goto(r, "flag") /\ repair' = repair)
        BY <1>3, <1>5 DEF DeleteOrRepairPHD, RepairFits
      <4>2. Answer(r, "ok")
        BY <1>5, <4>1 DEF DeleteOrRepairPHD
      <4>3. QED
        BY <1>1, <4>2 DEF Answer, Finished, Goto, OthersOK
    <3>2. p # r
      BY <2>1, <3>1 DEF Deleting
    <3>3. Deleting(p)
      BY <1>1, <2>1, <3>2, StepChangesOne DEF OthersStay, Deleting
    <3>4. FirstStep(p) = "findMaster"
      <4>1. Op[p].type \in VersionDeletes /\ Op[p].type \notin {"putNew", "putSuspended"}
        BY <3>3 DEF Deleting, VersionDeletes
      <4>2. QED
        BY <4>1 DEF FirstStep, VersionDeletes, GetTypes
    <3>5. pc[p] \notin {"done", FirstStep(p)}
      BY <3>3, <3>4 DEF Deleting
    <3>6. QED
      BY <1>5, <3>2, <3>5
  <2>2. repair'[q].at = "armed"
    BY <1>5
  <2>3. QED
    BY <1>5, <2>1, <2>2
<1>6. CASE /\ q = r /\ RepairReads(r) /\ repair[r].at = "armed" /\ LatestVersion # NoDoc
           /\ repair'[r] = [at |-> "write", value |-> LatestVersion, during |-> {}]
  <2>1. vid[q] # NoVid /\ pc' = pc /\ pc[r] = "done"
    BY <1>3, <1>6 DEF RepairFits, RepairReads
  <2>2. IsPlaceHolderOf(q)
    BY <1>1, <1>2, <1>6, <2>1, PlaceHoldersComeFrom DEF PlaceHolder
  <2>3. \A p \in Requests : ~Deleting(p)
    <3>1. \A p \in Requests : Deleting(p) => p \in repair[r].during
      BY <1>1, <1>6, <2>2 DEF RepairsWaitForDeletions
    <3>2. \A p \in repair[r].during : pc[p] = "done"
      BY <1>6 DEF RepairReads, EarlierRequestsAreOver
    <3>3. QED
      BY <3>1, <3>2 DEF Deleting
  <2>4. \A p \in Requests : ~Deleting(p)'
    BY <2>1, <2>3 DEF Deleting
  <2>5. LatestVersion.vid \in Vids /\ Live(docs[LatestVersion.vid])
    BY <1>1, <1>6, LatestIsFirst
  <2>6. ~Lost(LatestVersion.vid)
    BY <1>1, <2>5 DEF LostAreGone
  <2>7. ASSUME NEW v \in Vids, repair'[q].value.vid = v
        PROVE  ~Lost(v)'
    <3>1. v = LatestVersion.vid
      BY <1>6, <2>7
    <3>2. ~Lost(v) /\ ~Deleting(r)
      BY <2>3, <2>6, <3>1
    <3>3. QED
      BY <1>1, <3>2, LostComesFrom
  <2>8. QED
    BY <1>6, <2>4, <2>7
<1>7. repair'[q] # NoRepair
  BY <1>2 DEF NoRepair
<1>8. CASE q = r
  BY <1>1, <1>4, <1>5, <1>6, <1>7, <1>8, RepairChanges
<1>9. CASE q # r
  BY <1>1, <1>4, <1>9, StepChangesOne DEF OthersStay
<1>10. QED
  BY <1>8, <1>9

\* A get is answered with a document that is no place holder and that no deletion
\* acknowledged before the get began has removed.
LEMMA AnswersStayNotLost ==
    ASSUME DeletionsInv, NEW r \in Requests, StepOf(r)
    PROVE  AnswersAreNotLost'
<1>1. /\ MgTypeOK /\ ControlOK /\ LostAreGone /\ LostAreNotMaster /\ AnswersAreNotLost /\ DocsOK /\ OthersOK
  BY TypesAre DEF DeletionsInv
<1>2. SUFFICES ASSUME "restored" \notin unchecked', NEW p \in Requests, Op[p].type \in GetTypes,
                      reply'[p] # NoReply, reply'[p].doc # NoDoc
               PROVE  /\ ~reply'[p].doc.phd /\ ~reply'[p].doc.flagged
                      /\ \A v \in began'[p].gone : reply'[p].doc.vid = v => IsPut(v)'
  BY DEF AnswersAreNotLost
<1>3. "restored" \notin unchecked
  BY <1>2, HistoryGrows
<1>4. began[p].gone \subseteq Vids /\ gone \subseteq Vids /\ BeganFits(p) /\ StepFits(p)
  BY <1>1 DEF OthersOK, ControlOK, Fits
<1>5. \A v \in Vids : IsPut(v) => IsPut(v)'
  BY <1>1, PutsStay
<1>6. CASE reply'[p] = reply[p] /\ began'[p] = began[p]
  <2>1. /\ ~reply[p].doc.phd /\ ~reply[p].doc.flagged
        /\ \A v \in began[p].gone : reply[p].doc.vid = v => IsPut(v)
    BY <1>1, <1>2, <1>3, <1>6 DEF AnswersAreNotLost
  <2>2. QED
    BY <1>4, <1>5, <1>6, <2>1
<1>7. CASE p = r /\ Read(r) /\ began'[r] = [gone |-> gone, acked |-> acked]
  <2>1. reply[r] = NoReply
    BY <1>4, <1>7 DEF Read, StepFits
  <2>2. \/ Op[r].type = "getVersion" /\ Live(docs[Op[r].vid]) /\ reply'[r].doc = docs[Op[r].vid]
        \/ Live(docs[Master]) /\ ~docs[Master].phd /\ reply'[r].doc = docs[Master]
    BY <1>1, <1>2, <1>7, <2>1 DEF Read, GetKey, Answer, Finished, OthersOK
  <2>3. CASE Op[r].type = "getVersion" /\ Live(docs[Op[r].vid]) /\ reply'[r].doc = docs[Op[r].vid]
    <3>1. Op[r].vid \in Vids
      BY <2>3, Parameters DEF Naming
    <3>2. docs[Op[r].vid] # NoDoc /\ ~docs[Op[r].vid].flagged
      BY <2>3 DEF Live
    <3>3. docs[Op[r].vid].vid = Op[r].vid /\ ~docs[Op[r].vid].phd
      BY <1>1, <3>1, <3>2 DEF DocsOK
    <3>4. Op[r].vid \in gone => IsPut(Op[r].vid)
      BY <1>1, <2>3, <3>1 DEF LostAreGone, Lost
    <3>5. QED
      BY <1>5, <1>7, <2>3, <3>1, <3>2, <3>3, <3>4
  <2>4. CASE Live(docs[Master]) /\ ~docs[Master].phd /\ reply'[r].doc = docs[Master]
    <3>1. ~docs[Master].flagged
      BY <2>4 DEF Live
    <3>2. \A v \in Vids : docs[Master].vid = v => ServedMaster(v)
      BY <2>4 DEF ServedMaster
    <3>3. \A v \in gone : docs[Master].vid = v => IsPut(v)
      BY <1>1, <1>3, <1>4, <3>2 DEF LostAreNotMaster, Lost
    <3>4. QED
      BY <1>4, <1>5, <1>7, <2>4, <3>1, <3>3
  <2>5. QED
    BY <2>2, <2>3, <2>4
<1>8. CASE p = r /\ LatestToGet(r) /\ began'[r] = began[r]
  <2>1. LatestVersion # NoDoc /\ reply'[r].doc = LatestVersion
    BY <1>1, <1>2, <1>8 DEF LatestToGet, Answer, Finished, OthersOK
  <2>2. /\ LatestVersion.vid \in Vids /\ Live(docs[LatestVersion.vid]) /\ Live(LatestVersion)
        /\ ~LatestVersion.phd
    BY <1>1, <2>1, LatestIsFirst
  <2>3. LatestVersion.vid \in gone => IsPut(LatestVersion.vid)
    BY <1>1, <2>2 DEF LostAreGone, Lost
  <2>4. ~LatestVersion.flagged
    BY <2>2 DEF Live
  <2>5. began[r].gone \subseteq gone
    BY <1>4, <1>8 DEF BeganFits
  <2>6. \A v \in began'[r].gone : LatestVersion.vid = v => IsPut(v)'
    BY <1>5, <1>8, <2>2, <2>3, <2>5
  <2>7. QED
    BY <1>8, <2>1, <2>2, <2>4, <2>6
<1>9. CASE p # r
  BY <1>1, <1>6, <1>9, StepChangesOne DEF OthersStay
<1>10. CASE p = r
  BY <1>1, <1>2, <1>6, <1>7, <1>8, <1>10, RepliesComeFrom
<1>11. QED
  BY <1>9, <1>10

\* Every step keeps the invariant of deletions.
LEMMA DeletionsInvStays ==
    ASSUME LongDelay, Apart, DeletionsInv, [MgNext]_mgVars
    PROVE  DeletionsInv'
<1>1. CASE MgNext
  <2>1. PICK r \in Requests : StepOf(r)
    BY <1>1, NextIsStep
  <2>2. MgTypeOK' /\ ControlOK'
    BY <2>1, TypesStay, ControlStays DEF DeletionsInv
  <2>3. LostAreGone' /\ RemovedAreGone' /\ LostAreNotMaster' /\ DeletedAreNotMaster'
    BY <2>1, LostStayGone, RemovedStayGone, LostStayOut, DeletedStayOut
  <2>4. RepairsWaitForDeletions' /\ FlaggedByItsOwn' /\ AnswersAreNotLost'
    BY <2>1, RepairsStillWaitForDeletions, FlaggedStaysOwn, AnswersStayNotLost
  <2>5. PlaceHoldersAreOld'
    <3>1. NoPlain
      BY TypesAre DEF DeletionsInv, Apart, NoPlain, OthersOK
    <3>2. QED
      BY <2>1, <3>1, PlaceHoldersStayOld DEF DeletionsInv
  <2>6. QED
    BY <2>2, <2>3, <2>4, <2>5 DEF DeletionsInv
<1>2. CASE UNCHANGED mgVars
  <2>1. MgTypeOK' /\ ControlOK'
    BY <1>2, StutterKeepsControl DEF DeletionsInv
  <2>2. /\ \A v : IsPut(v)' <=> IsPut(v)
        /\ \A v : Lost(v)' <=> Lost(v)
        /\ \A v : ServedMaster(v)' <=> ServedMaster(v)
        /\ \A p : Deleting(p)' <=> Deleting(p)
        /\ \A p : Removed(p)' <=> Removed(p)
        /\ \A p : IsPlaceHolderOf(p)' <=> IsPlaceHolderOf(p)
    BY <1>2 DEF mgVars, IsPut, Lost, ServedMaster, Live, Deleting, Removed, IsPlaceHolderOf
  <2>3. docs' = docs /\ repair' = repair /\ target' = target /\ nextVid' = nextVid /\ unchecked' = unchecked
        /\ reply' = reply /\ began' = began /\ \A d : Live(d)' <=> Live(d)
    BY <1>2 DEF mgVars, Live
  <2>4. LostAreGone' /\ RemovedAreGone'
    BY <1>2, <2>2 DEF DeletionsInv, mgVars, LostAreGone, RemovedAreGone, Live
  <2>5. LostAreNotMaster' /\ DeletedAreNotMaster'
    BY <2>2, <2>3 DEF DeletionsInv, LostAreNotMaster, DeletedAreNotMaster
  <2>6. RepairsWaitForDeletions'
    BY <2>2, <2>3 DEF DeletionsInv, RepairsWaitForDeletions
  <2>7. FlaggedByItsOwn' /\ PlaceHoldersAreOld'
    BY <2>2, <2>3 DEF DeletionsInv, FlaggedByItsOwn, PlaceHoldersAreOld
  <2>8. AnswersAreNotLost'
    BY <2>2, <2>3 DEF DeletionsInv, AnswersAreNotLost
  <2>9. QED
    BY <2>1, <2>4, <2>5, <2>6, <2>7, <2>8 DEF DeletionsInv
<1>3. QED
  BY <1>1, <1>2

\* The invariant of deletions holds to begin with.
LEMMA InitDeletions ==
    ASSUME MgInit
    PROVE  DeletionsInv
<1>1. MgTypeOK /\ ControlOK /\ OthersOK
  BY InitControl, TypesAre
<1>2. /\ gone = {} /\ nextVid = FirstVid /\ docs = InitialDocs[scenario] /\ scenario \in Scenarios
      /\ \A r \in Requests : /\ vid[r] = NoVid /\ repair[r] = NoRepair /\ reply[r] = NoReply
                             /\ pc[r] \in {FirstStep(r), "done"}
  BY DEF MgInit
<1>3. \A r \in Requests : Op[r].type \in VersionDeletes => FirstStep(r) = "findMaster"
  <2>1. \A r \in Requests : Op[r].type \in VersionDeletes => Op[r].type \notin {"putNew", "putSuspended"}
    BY DEF VersionDeletes
  <2>2. QED
    BY <2>1 DEF FirstStep, VersionDeletes, GetTypes
<1>4. \A r \in Requests : ~Deleting(r) /\ ~Removed(r)
  BY <1>2, <1>3 DEF Deleting, Removed
<1>5. \A r \in Requests : ~IsPlaceHolderOf(r) \/ (docs[Master] # NoDoc /\ docs[Master].phd /\ docs[Master].vid = NoVid)
  BY <1>2 DEF IsPlaceHolderOf
<1>6. LostAreGone /\ RemovedAreGone /\ LostAreNotMaster /\ DeletedAreNotMaster
  BY <1>2, <1>4 DEF LostAreGone, RemovedAreGone, LostAreNotMaster, DeletedAreNotMaster, Lost
<1>7. RepairsWaitForDeletions /\ AnswersAreNotLost
  BY <1>2 DEF RepairsWaitForDeletions, AnswersAreNotLost, NoRepair
<1>8. FlaggedByItsOwn
  BY <1>2 DEF FlaggedByItsOwn, IsPlaceHolderOf
<1>9. PlaceHoldersAreOld
  BY <1>2, MongoAssumption DEF PlaceHoldersAreOld
<1>10. QED
  BY <1>1, <1>6, <1>7, <1>8, <1>9 DEF DeletionsInv

\* Every step keeps types and control.
LEMMA TypesAndControlStay ==
    ASSUME MgTypeOK, ControlOK, [MgNext]_mgVars
    PROVE  MgTypeOK' /\ ControlOK'
<1>1. CASE MgNext
  <2>1. PICK r \in Requests : StepOf(r)
    BY <1>1, NextIsStep
  <2>2. QED
    BY <2>1, TypesStay, ControlStays
<1>2. CASE UNCHANGED mgVars
  BY <1>2, StutterKeepsControl
<1>3. QED
  BY <1>1, <1>2

\* A behaviour stays in the situation it began in.
LEMMA ScenarioStays ==
    ASSUME MgTypeOK, [MgNext]_mgVars
    PROVE  scenario' = scenario
<1>1. CASE MgNext
  <2>1. PICK r \in Requests : StepOf(r)
    BY <1>1, NextIsStep
  <2>2. QED
    BY <2>1, StepChangesOne
<1>2. CASE UNCHANGED mgVars
  BY <1>2 DEF mgVars
<1>3. QED
  BY <1>1, <1>2

\* The invariant of deletions implies that no deleted version is served.
LEMMA DeletionsInvServes ==
    ASSUME DeletionsInv
    PROVE  DeletedIsNotServed
<1>1. Calls[scenario] \subseteq Requests
  BY MongoAssumption DEF DeletionsInv, MgTypeOK
<1>2. QED
  BY <1>1 DEF DeletionsInv, AnswersAreNotLost, DeletedIsNotServed, NothingDeletedIsServed

\* As long as no repair has inserted a master where it found none (which may bring back what was
\* deleted, RepairIsSafe), a version whose deletion was acknowledged, and that no call puts, is
\* not served to a get that begins afterwards, nor is a place holder or a flagged document:
\* through crashes, errors, puts that insert an older master and repairs that replace a place
\* holder. Repairs must wait for the requests that began before their timer was set, and no call
\* of the behaviour may write a version, or flag a master, without a look at the master.
THEOREM DeletedVersions == LongDelay => (MgSafety => [](Apart => DeletedIsNotServed))
<1> DEFINE Inv == MgTypeOK /\ ControlOK /\ (Apart => DeletionsInv)
<1>1. MgInit => Inv
  BY InitDeletions, InitControl
<1>2. LongDelay => (Inv /\ [MgNext]_mgVars => Inv')
  <2>1. SUFFICES ASSUME LongDelay, Inv, [MgNext]_mgVars
                 PROVE  Inv'
    OBVIOUS
  <2>2. MgTypeOK' /\ ControlOK'
    BY <2>1, TypesAndControlStay
  <2>3. scenario' = scenario
    BY <2>1, ScenarioStays
  <2>4. Apart' => Apart
    BY <2>3 DEF Apart
  <2>5. Apart' => DeletionsInv'
    BY <2>1, <2>4, DeletionsInvStays
  <2>6. QED
    BY <2>2, <2>5
<1>3. Inv => (Apart => DeletedIsNotServed)
  BY DeletionsInvServes
<1>4. CASE LongDelay
  <2>1. Inv /\ [MgNext]_mgVars => Inv'
    BY <1>2, <1>4
  <2> HIDE DEF Inv
  <2>2. QED
    BY <1>1, <1>3, <2>1, PTL DEF MgSafety
<1>5. QED
  BY <1>4
=============================================================================
