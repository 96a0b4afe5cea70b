--------------------------- MODULE Versioning_proofs ---------------------------
(***************************************************************************)
(* Proofs about Versioning: for any number of calls that put, delete and   *)
(* read versions of one object, with any failures of the database.         *)
(***************************************************************************)
EXTENDS Versioning, SequenceTheorems, NaturalsInduction, WellFoundedInduction, TLAPS

-----------------------------------------------------------------------------
(* What the theorems are about: versions that are put and deleted by id.   *)

\* A call puts version v.
IsPut(v) == \E p \in Calls[scenario] : Op[p].type = "putVersion" /\ Op[p].vid = v

\* The calls put, delete and read given versions, of an object without a null version.
OnlyVersions ==
    /\ \A r \in Calls[scenario] :
           Op[r].type \in {"putVersion", "delVersion", "get", "getVersion"} /\ Op[r].isNull # "true"
    /\ InitialDb[scenario][NullKey] = NoValue
    /\ \A k \in Keys : InitialDb[scenario][k] # NoValue =>
           /\ ~InitialDb[scenario][k].phd /\ ~InitialDb[scenario][k].null
           /\ IF k = Master THEN InitialDb[scenario][k].vid # NoVid ELSE InitialDb[scenario][k].vid = k

\* A version that is deleted is not put, and its id is not generated.
Apart ==
    \A r \in Calls[scenario] :
        Op[r].type = "delVersion" => FirstVid < Op[r].vid /\ ~IsPut(Op[r].vid)

\* Version ids have not run out.
Premise(uid) == OnlyVersions /\ Apart /\ uid <= FirstVid

-----------------------------------------------------------------------------
(* What a log of entries makes of the database.                            *)

VrEntry == [req : Requests \cup {Nobody}, index : Nat, key : Keys, value : Value \cup {NoValue},
            signature : Nat]

Dbs == [Keys -> Value \cup {NoValue}]

WritesOf(log, k) == {i \in DOMAIN log : log[i].key = k}

LastOf(writes) == CHOOSE i \in writes : \A j \in writes : j <= i

\* The database f after the entries of a log.
Over(log, f) ==
    [k \in Keys |-> IF WritesOf(log, k) = {} THEN f[k] ELSE log[LastOf(WritesOf(log, k))].value]

Elems(log) == {log[i] : i \in DOMAIN log}

Reqs(log) == {e.req : e \in Elems(log)}

\* The versions whose deletions are in a log.
GoneIn(log) == {Op[r].vid : r \in {q \in Reqs(log) \cap Requests : Op[q].type = "delVersion"}}

Sigs(log) == {e.signature : e \in Elems(log)}
MasterSigs(log) == {e.signature : e \in {x \in Elems(log) : x.key = Master}}

\* A database holds versions under their own ids, no null version, and place holders of generated
\* ids only as the master.
DbOK(f, uid) ==
    /\ f \in Dbs /\ f[NullKey] = NoValue
    /\ \A v \in Vids : f[v] # NoValue => f[v].vid = v /\ ~f[v].phd /\ ~f[v].null
    /\ f[Master] # NoValue =>
           f[Master].vid # NoVid /\ ~f[Master].null /\ (f[Master].phd => FirstVid - uid < f[Master].vid)

\* The versions that are gone are not there, are not the master, and do not come back.
Excludes(f, gone) ==
    \A v \in gone :
        /\ v \in Vids /\ ~IsPut(v) /\ FirstVid < v
        /\ f[v] = NoValue
        /\ f[Master] # NoValue => f[Master].vid # v

\* Since the place holder f[Master] was written, no version has been deleted.
Agrees(f, g) ==
    isPHD(f[Master]) /\ g[Master] = f[Master] => \A v \in Vids : f[v] = g[v] \/ IsPut(v)

\* A master that is not a place holder is the newest version.
LatestOK(f) ==
    /\ f[Master] = NoValue => \A v \in Vids : f[v] = NoValue
    /\ f[Master] # NoValue /\ ~f[Master].phd =>
           /\ f[f[Master].vid] # NoValue /\ f[f[Master].vid].from = f[Master].from
           /\ \A v \in Vids : f[v] # NoValue => f[Master].vid <= v

\* Versions are put, on an object that exists, or deleted, not both.
PutsOnly ==
    /\ \A r \in Calls[scenario] : Op[r].type # "delVersion"
    /\ InitialDb[scenario][Master] # NoValue

DeletesOnly == \A r \in Calls[scenario] : Op[r].type # "putVersion"

Sorted == LatestOK(InitialDb[scenario]) /\ (PutsOnly \/ DeletesOnly)

SortedOK(f) == Sorted => LatestOK(f) /\ (PutsOnly => f[Master] # NoValue /\ ~f[Master].phd)

-----------------------------------------------------------------------------
(* What is written, what will be with the batch in flight, and what will   *)
(* be with the gathered one, of a turn that has handed out to the manager. *)

Flight == IF inFlight = <<>> THEN <<>> ELSE inFlight[1]
Gathered(out) == IF out = <<>> THEN WaitingBatch ELSE WaitingBatch \o out[1]

Disk == Over(dbLog, InitialDb[scenario])
Flown == Over(WaitingInFlight, Disk)
Line(out) == Over(Gathered(out), Flown)

DiskGone == GoneIn(dbLog)
FlownGone == DiskGone \cup GoneIn(WaitingInFlight)
LineGone(out) == FlownGone \cup GoneIn(Gathered(out))

\* What a database is like at one of these points.
ImageOK(f, gone, uid) == DbOK(f, uid) /\ Excludes(f, gone) /\ SortedOK(f)

BothAgree(f, g) == Agrees(f, g) /\ Agrees(g, f)

ImagesOK(out, uid) ==
    /\ ImageOK(Disk, DiskGone, uid) /\ ImageOK(Flown, FlownGone, uid) /\ ImageOK(Line(out), LineGone(out), uid)
    /\ BothAgree(Disk, Flown) /\ BothAgree(Disk, Line(out)) /\ BothAgree(Flown, Line(out))

\* Nothing that waits brings back a version whose deletion is before it.
GatheredOK(out) ==
    \A e \in Elems(Gathered(out)) : e.value # NoValue => e.value.vid \notin FlownGone

\* What a listing has read.
SnapshotOK(rows, out, uid) ==
    DbOK(rows, uid) /\ Agrees(rows, Disk) /\ Agrees(rows, Flown) /\ Agrees(rows, Line(out))

\* A repair has the place holder and the latest version of one listing.
TaskOK(task, out, uid) ==
    \/ /\ task.req \in Calls[scenario] /\ task = RequestTask(task.req)
       /\ Op[task.req].type \in {"putVersion", "delVersion"}
    \/ \E rows \in Dbs :
           /\ task = RepairTask(rows[Master], LatestIn(rows)) /\ isPHD(rows[Master])
           /\ SnapshotOK(rows, out, uid)

ListingOK(lst, out, uid) ==
    \/ lst = <<>> \/ lst = <<"issued">>
    \/ lst = <<"read", lst[2]>> /\ SnapshotOK(lst[2], out, uid)

\* The signatures grow along the entries.
SigsOK(out, cnt) ==
    /\ \A x \in Sigs(Flight) \cup Sigs(Gathered(out)) : x < cnt
    /\ \A x \in Sigs(Flight), y \in Sigs(Gathered(out)) : x < y

\* The cached value is that of the last write of the master, with its signature.
CacheOK(out, c) ==
    \/ c = <<>> /\ MasterSigs(Flight) = {} /\ MasterSigs(Gathered(out)) = {}
    \/ /\ c # <<>> /\ c = <<c[1]>> /\ c[1].value = Line(out)[Master]
       /\ IF MasterSigs(Gathered(out)) # {} THEN c[1].signature \in MasterSigs(Gathered(out))
          ELSE c[1].signature \in MasterSigs(Flight)

\* A read of the master that is in progress, or answered, sees what will be the master.
ReadOK ==
    \/ readQueue = <<>>
    \/ /\ readQueue # <<>> /\ cache = <<>>
       /\ Len(readQueue[1].callbacks) \in Nat
       /\ \A i \in 1 .. Len(readQueue[1].callbacks) : TaskOK(readQueue[1].callbacks[i], <<>>, uidCounter)
       /\ readQueue[1].answer \in {<<>>, <<Line(<<>>)[Master]>>}

LogsTyped ==
    /\ scenario \in Scenarios
    /\ dbLog \in Seq(VrEntry) /\ Flight \in Seq(VrEntry) /\ WaitingBatch \in Seq(VrEntry)
    /\ inFlight \in {<<>>, <<Flight>>} /\ batchCache \in {<<>>, <<WaitingBatch>>}
    /\ applied \in BOOLEAN

\* A deletion that was answered is in the database.
RepliesOK ==
    /\ replies \in [Requests -> Seq({"ok", "error"})]
    /\ \A r \in Requests : replies[r] = <<"ok">> => r \in Reqs(dbLog)
    /\ applied => Reqs(Flight) \subseteq Reqs(dbLog)

CoreInv ==
    /\ LogsTyped /\ counter \in Nat
    /\ ImagesOK(<<>>, uidCounter) /\ GatheredOK(<<>>) /\ ListingOK(listing, <<>>, uidCounter)
    /\ SigsOK(<<>>, counter) /\ CacheOK(<<>>, cache) /\ ReadOK /\ RepliesOK

\* A queue of reads is a sequence of callbacks.
QueueTyped(q) ==
    q = <<>> \/ \E S, s, x : s \in Seq(S) /\ q = <<[callbacks |-> s, answer |-> x]>>

VersionsInv ==
    OnlyVersions => /\ uidCounter \in Nat /\ QueueTyped(readQueue)
                    /\ Premise(uidCounter) => CoreInv

-----------------------------------------------------------------------------
(* Sequences and the keys they write.                                      *)

\* What the assumption says of the parameters, in the form the proofs use.
LEMMA Parameters ==
    /\ Vids \subseteq Nat \ {0} /\ NoVid \notin Vids /\ FirstVid \in Vids /\ FirstVid \in Nat
    /\ Master \notin Vids /\ NullKey \notin Vids /\ Master # NullKey
    /\ Keys = {Master, NullKey} \cup Vids
    /\ NoValue \notin Value /\ Nobody \notin Requests
    /\ \A r \in Requests : Op[r].type \in {"putVersion", "delVersion"} => Op[r].vid \in Vids
    /\ \A s \in Scenarios : InitialDb[s] \in Dbs /\ Calls[s] \subseteq Requests
<1>1. Vids \subseteq Nat \ {0} /\ NoVid \notin Vids /\ FirstVid \in Vids /\ FirstVid \in Nat
  BY VersioningAssumption DEF Vids, NoVid
<1>4. Master \notin Int /\ NullKey \notin Int
  BY VersioningAssumption
<1>2. Master \notin Vids /\ NullKey \notin Vids
  <2>1. \A v \in Vids : v \in Int
    BY <1>1
  <2> QED BY <1>4, <2>1, Zenon
<1>3. QED
  BY <1>1, <1>2, VersioningAssumption DEF Keys, Dbs

\* A set of natural numbers that is not empty has a least element.
LEMMA LeastNumber ==
    ASSUME NEW T \in SUBSET Nat, T # {}
    PROVE  \E i \in T : \A j \in T : i <= j
<1>1. IsWellFoundedOn(OpToRel(<, Nat), Nat)
  BY NatLessThanWellFounded
<1>2. PICK i \in T : \A j \in T : ~ (<<j, i>> \in OpToRel(<, Nat))
  BY <1>1, WFMin
<1>3. ASSUME NEW j \in T PROVE i <= j
  <2>1. ~(j < i)
    BY <1>2 DEF OpToRel
  <2> QED BY <2>1
<1> QED BY <1>3

\* A set of places that is not empty has a last one.
LEMMA LastIs ==
    ASSUME NEW n \in Nat, NEW W \in SUBSET (1 .. n), W # {}
    PROVE  LastOf(W) \in W /\ \A j \in W : j <= LastOf(W)
<1> DEFINE T == {n - i : i \in W}
<1>1. T \in SUBSET Nat /\ T # {}
  <2>1. ASSUME NEW i \in W PROVE n - i \in Nat
    OBVIOUS
  <2>2. T # {}
    OBVIOUS
  <2> QED BY <2>1, <2>2
<1>2. PICK m \in T : \A j \in T : m <= j
  <2> HIDE DEF T
  <2> QED BY <1>1, LeastNumber
<1>3. PICK i \in W : m = n - i
  OBVIOUS
<1>4. \A j \in W : j <= i
  <2>1. ASSUME NEW j \in W PROVE j <= i
    <3>1. n - j \in T /\ j \in Nat /\ i \in Nat
      OBVIOUS
    <3>2. n - i <= n - j
      BY <1>2, <1>3, <3>1
    <3> QED BY <3>1, <3>2
  <2> QED BY <2>1
<1> QED BY <1>4 DEF LastOf

\* There is only one last place.
LEMMA LastIsUnique ==
    ASSUME NEW n \in Nat, NEW W \in SUBSET (1 .. n), NEW i \in W, \A j \in W : j <= i
    PROVE  LastOf(W) = i
<1>1. LastOf(W) \in W /\ \A j \in W : j <= LastOf(W)
  BY LastIs
<1> DEFINE l == LastOf(W)
<1>2. i \in Nat /\ l \in Nat /\ i <= l /\ l <= i
  <2>1. l \in W /\ \A j \in W : j <= l
    BY <1>1
  <2> HIDE DEF l
  <2> QED BY <2>1
<1> HIDE DEF l
<1>3. l = i
  BY <1>2
<1> QED BY <1>3 DEF l

\* The places of two sequences, one after the other.
LEMMA PlacesOfBoth ==
    ASSUME NEW S, NEW h \in Seq(S), NEW k \in Seq(S)
    PROVE  /\ h \o k \in Seq(S)
           /\ Len(h) \in Nat /\ Len(k) \in Nat /\ Len(h \o k) = Len(h) + Len(k)
           /\ DOMAIN h = 1..Len(h) /\ DOMAIN k = 1..Len(k)
           /\ DOMAIN (h \o k) = 1..(Len(h) + Len(k))
           /\ \A i \in 1..Len(h) : (h \o k)[i] = h[i]
           /\ \A i \in 1..Len(k) : (h \o k)[Len(h) + i] = k[i]
           /\ \A i \in 1..(Len(h) + Len(k)) :
                i \in 1..Len(h) \/ \E j \in 1..Len(k) : i = Len(h) + j
<1>1. /\ Len(h) \in Nat /\ Len(k) \in Nat
      /\ DOMAIN h = 1..Len(h) /\ DOMAIN k = 1..Len(k)
  BY LenProperties
<1>2. /\ h \o k \in Seq(S)
      /\ Len(h \o k) = Len(h) + Len(k)
      /\ \A i \in 1 .. Len(h) + Len(k) :
            (h \o k)[i] = IF i <= Len(h) THEN h[i] ELSE k[i - Len(h)]
  BY ConcatProperties
<1>3. DOMAIN (h \o k) = 1..(Len(h) + Len(k))
  BY <1>2, LenProperties
<1>4. \A i \in 1..Len(h) : (h \o k)[i] = h[i]
  BY <1>1, <1>2
<1>5. ASSUME NEW i \in 1..Len(k) PROVE (h \o k)[Len(h) + i] = k[i]
  <2>1. /\ Len(h) + i \in 1 .. Len(h) + Len(k)
        /\ ~(Len(h) + i <= Len(h))
        /\ Len(h) + i - Len(h) = i
    BY <1>1
  <2> QED BY <1>2, <2>1
<1>6. ASSUME NEW i \in 1..(Len(h) + Len(k)), i \notin 1..Len(h)
      PROVE  \E j \in 1..Len(k) : i = Len(h) + j
  <2>1. i - Len(h) \in 1..Len(k) /\ i = Len(h) + (i - Len(h))
    BY <1>1, <1>6
  <2> QED BY <2>1
<1> QED BY <1>1, <1>2, <1>3, <1>4, <1>5, <1>6

\* The entries of two logs, one after the other.
LEMMA ElemsOfBoth ==
    ASSUME NEW a \in Seq(VrEntry), NEW b \in Seq(VrEntry)
    PROVE  Elems(a \o b) = Elems(a) \cup Elems(b)
<1>1. /\ Len(a) \in Nat /\ Len(b) \in Nat /\ DOMAIN a = 1..Len(a) /\ DOMAIN b = 1..Len(b)
      /\ DOMAIN (a \o b) = 1..(Len(a) + Len(b))
      /\ \A i \in 1..Len(a) : (a \o b)[i] = a[i]
      /\ \A i \in 1..Len(b) : (a \o b)[Len(a) + i] = b[i]
      /\ \A i \in 1..(Len(a) + Len(b)) : i \in 1..Len(a) \/ \E j \in 1..Len(b) : i = Len(a) + j
  BY PlacesOfBoth
<1> DEFINE c == a \o b
           n == Len(a)
           m == Len(b)
<1>2. ASSUME NEW e \in Elems(c) PROVE e \in Elems(a) \cup Elems(b)
  <2>1. PICK i \in 1..(n + m) : e = c[i]
    BY <1>1 DEF Elems
  <2>2. CASE i \in 1..n
    BY <1>1, <2>1, <2>2 DEF Elems
  <2>3. CASE \E j \in 1..m : i = n + j
    BY <1>1, <2>1, <2>3 DEF Elems
  <2> QED BY <1>1, <2>2, <2>3
<1>3. ASSUME NEW e \in Elems(a) \cup Elems(b) PROVE e \in Elems(c)
  <2>1. CASE e \in Elems(a)
    <3>1. PICK i \in 1..n : e = a[i]
      BY <1>1, <2>1 DEF Elems
    <3>2. i \in 1..(n + m) /\ c[i] = e
      BY <1>1, <3>1
    <3> QED BY <1>1, <3>2 DEF Elems
  <2>2. CASE e \in Elems(b)
    <3>1. PICK i \in 1..m : e = b[i]
      BY <1>1, <2>2 DEF Elems
    <3>2. n + i \in 1..(n + m) /\ c[n + i] = e
      BY <1>1, <3>1
    <3> QED BY <1>1, <3>2 DEF Elems
  <2> QED BY <2>1, <2>2
<1> QED BY <1>2, <1>3

\* The places of two logs that write a key.
LEMMA WritesOfBoth ==
    ASSUME NEW a \in Seq(VrEntry), NEW b \in Seq(VrEntry), NEW k
    PROVE  LET writes == WritesOf(a \o b, k)
           IN  /\ WritesOf(b, k) # {} =>
                      /\ writes # {}
                      /\ LastOf(writes) = Len(a) + LastOf(WritesOf(b, k))
                      /\ (a \o b)[LastOf(writes)] = b[LastOf(WritesOf(b, k))]
               /\ WritesOf(b, k) = {} => writes = WritesOf(a, k)
               /\ WritesOf(a, k) # {} =>
                      (a \o b)[LastOf(WritesOf(a, k))] = a[LastOf(WritesOf(a, k))]
<1> DEFINE c == a \o b
           n == Len(a)
           m == Len(b)
           wa == WritesOf(a, k)
           wb == WritesOf(b, k)
           w == WritesOf(c, k)
<1>1. /\ n \in Nat /\ m \in Nat /\ DOMAIN a = 1..n /\ DOMAIN b = 1..m
      /\ DOMAIN c = 1..(n + m)
      /\ \A i \in 1..n : c[i] = a[i]
      /\ \A i \in 1..m : c[n + i] = b[i]
      /\ \A i \in 1..(n + m) : i \in 1..n \/ \E j \in 1..m : i = n + j
  BY PlacesOfBoth
<1> HIDE DEF c, n, m
<1>2. /\ wa = {i \in 1..n : a[i].key = k} /\ wb = {i \in 1..m : b[i].key = k}
      /\ w = {i \in 1..(n + m) : c[i].key = k}
  BY <1>1 DEF WritesOf
<1> HIDE DEF wa, wb, w
<1>3. ASSUME wb # {}
      PROVE  w # {} /\ LastOf(w) = n + LastOf(wb) /\ c[LastOf(w)] = b[LastOf(wb)]
  <2> DEFINE l == LastOf(wb)
  <2>1. wb \in SUBSET (1..m) /\ w \in SUBSET (1..(n + m)) /\ n + m \in Nat
    BY <1>1, <1>2
  <2>2. l \in wb /\ \A j \in wb : j <= l
    BY <1>1, <1>3, <2>1, LastIs
  <2> HIDE DEF l
  <2>3. l \in 1..m /\ n + l \in 1..(n + m) /\ c[n + l] = b[l]
    BY <1>1, <1>2, <2>2
  <2>4. n + l \in w
    BY <1>2, <2>2, <2>3
  <2>5. ASSUME NEW j \in w PROVE j <= n + l
    <3>1. j \in 1..(n + m) /\ c[j].key = k
      BY <1>2
    <3>2. CASE j \in 1..n
      BY <1>1, <2>3, <3>2
    <3>3. CASE \E i \in 1..m : j = n + i
      <4>1. PICK i \in 1..m : j = n + i
        BY <3>3
      <4>2. i \in wb
        BY <1>1, <1>2, <3>1, <4>1
      <4>3. i <= l
        BY <2>2, <4>2
      <4> QED BY <1>1, <2>3, <4>1, <4>3
    <3> QED BY <1>1, <3>1, <3>2, <3>3
  <2>6. LastOf(w) = n + l
    BY <2>1, <2>4, <2>5, LastIsUnique
  <2> QED BY <2>3, <2>4, <2>6 DEF l
<1>4. ASSUME wb = {} PROVE w = wa
  <2>1. ASSUME NEW i \in 1..(n + m), c[i].key = k PROVE i \in 1..n /\ a[i].key = k
    <3>1. ASSUME NEW j \in 1..m, i = n + j PROVE FALSE
      <4>1. c[i] = b[j]
        BY <1>1, <3>1
      <4>2. j \in wb
        BY <1>2, <2>1, <4>1
      <4> QED BY <1>4, <4>2
    <3> QED BY <1>1, <2>1, <3>1
  <2>2. ASSUME NEW i \in 1..n, a[i].key = k PROVE i \in 1..(n + m) /\ c[i].key = k
    BY <1>1, <2>2
  <2> QED BY <1>2, <2>1, <2>2
<1>5. ASSUME wa # {} PROVE c[LastOf(wa)] = a[LastOf(wa)]
  <2>1. wa \in SUBSET (1..n)
    BY <1>2
  <2>2. LastOf(wa) \in 1..n
    BY <1>1, <1>5, <2>1, LastIs
  <2> QED BY <1>1, <2>2
<1> QED BY <1>3, <1>4, <1>5 DEF c, n, wa, wb, w

\* The database after two logs.
LEMMA OverBoth ==
    ASSUME NEW a \in Seq(VrEntry), NEW b \in Seq(VrEntry), NEW f
    PROVE  Over(a \o b, f) = Over(b, Over(a, f))
<1> DEFINE c == a \o b
<1>1. ASSUME NEW k \in Keys PROVE Over(c, f)[k] = Over(b, Over(a, f))[k]
  <2>1. /\ Over(c, f)[k] = IF WritesOf(c, k) = {} THEN f[k] ELSE c[LastOf(WritesOf(c, k))].value
        /\ Over(a, f)[k] = IF WritesOf(a, k) = {} THEN f[k] ELSE a[LastOf(WritesOf(a, k))].value
        /\ Over(b, Over(a, f))[k] = IF WritesOf(b, k) = {} THEN Over(a, f)[k]
                                    ELSE b[LastOf(WritesOf(b, k))].value
    BY DEF Over
  <2>2. CASE WritesOf(b, k) # {}
    <3>1. WritesOf(c, k) # {} /\ c[LastOf(WritesOf(c, k))] = b[LastOf(WritesOf(b, k))]
      BY <2>2, WritesOfBoth
    <3> QED BY <2>1, <2>2, <3>1
  <2>3. CASE WritesOf(b, k) = {}
    <3>1. /\ WritesOf(c, k) = WritesOf(a, k)
          /\ WritesOf(a, k) # {} => c[LastOf(WritesOf(a, k))] = a[LastOf(WritesOf(a, k))]
      BY <2>3, WritesOfBoth
    <3> QED BY <2>1, <2>3, <3>1
  <2> QED BY <2>2, <2>3
<1>2. Over(c, f) = [k \in Keys |-> Over(c, f)[k]]
  BY Zenon DEF Over
<1>3. Over(b, Over(a, f)) = [k \in Keys |-> Over(b, Over(a, f))[k]]
  BY Zenon DEF Over
<1> HIDE DEF c
<1>4. Over(c, f) = Over(b, Over(a, f))
  BY <1>1, <1>2, <1>3, Zenon
<1> QED BY <1>4 DEF c

\* No entries change nothing.
LEMMA OverNothing ==
    ASSUME NEW f \in Dbs
    PROVE  /\ Over(<<>>, f) = f /\ Elems(<<>>) = {} /\ GoneIn(<<>>) = {}
           /\ Reqs(<<>>) = {} /\ Sigs(<<>>) = {} /\ MasterSigs(<<>>) = {}
<1>1. DOMAIN <<>> = {}
  OBVIOUS
<1>2. \A k \in Keys : WritesOf(<<>>, k) = {}
  BY <1>1 DEF WritesOf
<1>3. Over(<<>>, f) = f
  BY <1>2 DEF Over, Dbs
<1>4. Elems(<<>>) = {}
  BY <1>1 DEF Elems
<1> QED BY <1>3, <1>4 DEF GoneIn, Reqs, Sigs, MasterSigs

\* What is in two logs, one after the other.
LEMMA LogsOfBoth ==
    ASSUME NEW a \in Seq(VrEntry), NEW b \in Seq(VrEntry)
    PROVE  LET c == a \o b
           IN  /\ c \in Seq(VrEntry)
               /\ Elems(c) = Elems(a) \cup Elems(b)
               /\ Reqs(c) = Reqs(a) \cup Reqs(b)
               /\ GoneIn(c) = GoneIn(a) \cup GoneIn(b)
               /\ Sigs(c) = Sigs(a) \cup Sigs(b)
               /\ MasterSigs(c) = MasterSigs(a) \cup MasterSigs(b)
<1>1. a \o b \in Seq(VrEntry)
  BY ConcatProperties
<1>2. Elems(a \o b) = Elems(a) \cup Elems(b)
  BY ElemsOfBoth
<1>3. Reqs(a \o b) = Reqs(a) \cup Reqs(b)
  BY <1>2 DEF Reqs
<1>4. GoneIn(a \o b) = GoneIn(a) \cup GoneIn(b)
  BY <1>3 DEF GoneIn
<1>5. Sigs(a \o b) = Sigs(a) \cup Sigs(b)
  BY <1>2 DEF Sigs
<1>6. MasterSigs(a \o b) = MasterSigs(a) \cup MasterSigs(b)
  BY <1>2 DEF MasterSigs
<1> QED BY <1>1, <1>2, <1>3, <1>4, <1>5, <1>6
-----------------------------------------------------------------------------
(* What a batch makes of the database.                                     *)

Operation == [key : Keys, value : Value \cup {NoValue}]

\* A batch has one operation, o2 = o1, or two on different keys.
IsBatch(ops, o1, o2) ==
    /\ o1 \in Operation /\ o2 \in Operation
    /\ \/ ops = <<o1>> /\ o2 = o1
       \/ ops = <<o1, o2>> /\ o1.key # o2.key

\* The databases before and after it.
Effect(f, f2, o1, o2) ==
    f2 \in Dbs /\ \A k \in Keys : f2[k] = IF k = o2.key THEN o2.value ELSE IF k = o1.key THEN o1.value ELSE f[k]

\* What the master becomes can be told from the one before, unless it is a new place holder.
Follows(f, f2, uid) ==
    isPHD(f2[Master]) => \/ f2[Master] = f[Master] /\ \A v \in Vids : f2[v] = f[v] \/ IsPut(v)
                         \/ f2[Master].vid <= FirstVid - uid

\* So what agreed with the database before agrees with it afterwards.
LEMMA AgreesStay ==
    ASSUME NEW f, NEW f2, NEW g, NEW uid \in Nat, Follows(f, f2, uid), DbOK(g, uid)
    PROVE  /\ Agrees(g, f) => Agrees(g, f2)
           /\ Agrees(f, g) => Agrees(f2, g)
<1>1. isPHD(g[Master]) => FirstVid - uid < g[Master].vid /\ g[Master].vid \in Vids \cup {NoVid}
  <2>1. Master \in Keys
    BY Parameters
  <2>2. g[Master] \in Value \cup {NoValue}
    BY <2>1 DEF DbOK, Dbs
  <2>3. g[Master] # NoValue /\ g[Master].phd => FirstVid - uid < g[Master].vid
    BY DEF DbOK
  <2> QED BY <2>2, <2>3 DEF isPHD, Value
<1>2. isPHD(g[Master]) => ~(g[Master].vid <= FirstVid - uid)
  <2>1. Vids \cup {NoVid} \subseteq Nat /\ FirstVid - uid \in Int
    BY Parameters DEF NoVid
  <2> QED BY <1>1, <2>1
<1>3. ASSUME Agrees(g, f) PROVE Agrees(g, f2)
  <2>1. SUFFICES ASSUME isPHD(g[Master]), f2[Master] = g[Master], NEW v \in Vids
                 PROVE  g[v] = f2[v] \/ IsPut(v)
    BY DEF Agrees
  <2>2. f2[Master] = f[Master] /\ (f2[v] = f[v] \/ IsPut(v))
    BY <1>2, <2>1 DEF Follows
  <2>3. g[v] = f[v] \/ IsPut(v)
    BY <1>3, <2>1, <2>2 DEF Agrees
  <2> QED BY <2>2, <2>3
<1>4. ASSUME Agrees(f, g) PROVE Agrees(f2, g)
  <2>1. SUFFICES ASSUME isPHD(f2[Master]), g[Master] = f2[Master], NEW v \in Vids
                 PROVE  f2[v] = g[v] \/ IsPut(v)
    BY DEF Agrees
  <2>2. f2[Master] = f[Master] /\ (f2[v] = f[v] \/ IsPut(v))
    BY <1>2, <2>1 DEF Follows
  <2>3. f[v] = g[v] \/ IsPut(v)
    BY <1>4, <2>1, <2>2 DEF Agrees
  <2> QED BY <2>2, <2>3
<1> QED BY <1>3, <1>4

\* What a callback is told of the master is the master, or that there was none, whatever has been
\* put since.
Told(m, f) ==
    \/ m = f[Master]
    \/ /\ m = NoValue /\ ~(Sorted /\ PutsOnly)
       /\ f[Master] # NoValue /\ ~f[Master].phd /\ IsPut(f[Master].vid)

\* What a batch of the processor does, to databases f and f2.
Changes(f, f2, gone, gone2, uid, uid2, o1, o2, m) ==
    /\ ImageOK(f2, gone2, uid2)
    /\ Follows(f, f2, uid)
    /\ \A o \in {o1, o2} : o.value # NoValue => o.value.vid \notin gone
    /\ m = NoValue => Told(NoValue, f2)

\* A version that is put.
LEMMA ContentIs ==
    ASSUME NEW r \in Requests, Op[r].type = "putVersion", Op[r].isNull # "true"
    PROVE  LET c == Content(r, Op[r].vid)
           IN  c \in Value /\ c.vid = Op[r].vid /\ ~c.phd /\ ~c.null /\ c.from = r
<1>1. Op[r].vid \in Vids
  BY Parameters
<1> QED BY <1>1 DEF Content, Value

\* Two sequences of one element.
LEMMA OnesTogether ==
    ASSUME NEW p, NEW q
    PROVE  <<p>> \o <<q>> = <<p, q>> /\ <<p>> \o <<>> = <<p>>
<1> DEFINE S == {p, q}
<1>1. <<p>> \in Seq(S) /\ <<q>> \in Seq(S) /\ <<p, q>> \in Seq(S) /\ Len(<<p>>) = 1 /\ Len(<<q>>) = 1
      /\ Len(<<p, q>>) = 2 /\ <<p, q>>[1] = p /\ <<p, q>>[2] = q /\ <<p>>[1] = p /\ <<q>>[1] = q
  OBVIOUS
<1> HIDE DEF S
<1>2. <<p>> \o <<>> = <<p>>
  BY <1>1, ConcatEmptySeq
<1> DEFINE x == <<p>>
           y == <<q>>
           z == <<p, q>>
<1> HIDE DEF x, y, z
<1>3. /\ x \in Seq(S) /\ y \in Seq(S) /\ z \in Seq(S) /\ Len(x) = 1 /\ Len(y) = 1 /\ Len(z) = 2
      /\ x[1] = p /\ y[1] = q /\ z[1] = p /\ z[2] = q
  BY <1>1 DEF x, y, z
<1>4. /\ x \o y \in Seq(S) /\ Len(x \o y) = 2 /\ (x \o y)[1] = p /\ (x \o y)[2] = q
  <2>1. /\ x \o y \in Seq(S) /\ Len(x \o y) = Len(x) + Len(y)
        /\ \A i \in 1 .. Len(x) + Len(y) : (x \o y)[i] = IF i <= Len(x) THEN x[i] ELSE y[i - Len(x)]
    BY <1>3, ConcatProperties
  <2> QED BY <1>3, <2>1
<1>5. \A i \in 1 .. 2 : (x \o y)[i] = z[i]
  BY <1>3, <1>4
<1>6. x \o y = z
  BY <1>3, <1>4, <1>5, SeqEqual
<1> QED BY <1>2, <1>6 DEF x, y, z

\* The master and the version are written, or the version only.
LEMMA PutOps ==
    ASSUME NEW r \in Requests, Op[r].type = "putVersion", Op[r].isNull # "true",
           NEW m, m # NoValue => m.vid # NoVid /\ m.null = FALSE
    PROVE  LET vid == Op[r].vid
               c   == Content(r, vid)
           IN  SpecificPutOps(r, m) = IF m = NoValue \/ m.vid >= vid
                                      THEN <<[key |-> vid, value |-> c], [key |-> Master, value |-> c]>>
                                      ELSE <<[key |-> vid, value |-> c]>>
<1> DEFINE vid == Op[r].vid
           c   == Content(r, vid)
           p   == [key |-> vid, value |-> c]
           q   == [key |-> Master, value |-> c]
<1>1. Put(vid, c) = <<p>> /\ Put(Master, c) = <<q>>
  BY DEF Put
<1>6. <<p>> \o <<q>> = <<p, q>> /\ <<p>> \o <<>> = <<p>>
  <2> HIDE DEF p, q
  <2> QED BY OnesTogether
<1>2. ASSUME m # NoValue PROVE OverMasterOps(r, m) = <<q>>
  <2>1. MasterVidToKeep(m) = NoVid
    BY <1>2 DEF MasterVidToKeep
  <2>2. \A x : Unless(TRUE, x) = <<>>
    BY DEF Unless
  <2>3. OverMasterOps(r, m) = <<>> \o <<>> \o <<>> \o <<q>>
    BY <1>1, <1>2, <2>1 DEF OverMasterOps, Unless
  <2> QED BY <2>3
<1>3. CASE m = NoValue
  <2>1. SpecificPutOps(r, m) = <<p>> \o <<q>>
    BY <1>1, <1>3 DEF SpecificPutOps, Unless
  <2>2. SpecificPutOps(r, m) = <<p, q>>
    BY <1>6, <2>1
  <2> QED BY <1>3, <2>2
<1>4. CASE m # NoValue /\ m.vid >= vid
  <2>1. SpecificPutOps(r, m) = <<p>> \o <<q>>
    BY <1>1, <1>2, <1>4 DEF SpecificPutOps, Unless
  <2>2. SpecificPutOps(r, m) = <<p, q>>
    BY <1>6, <2>1
  <2> QED BY <1>4, <2>2
<1>5. CASE m # NoValue /\ ~(m.vid >= vid)
  <2>1. SpecificPutOps(r, m) = <<p>> \o <<>>
    BY <1>1, <1>5 DEF SpecificPutOps, Unless
  <2>2. SpecificPutOps(r, m) = <<p>>
    BY <1>6, <2>1
  <2> QED BY <1>5, <2>2
<1> QED BY <1>3, <1>4, <1>5
-----------------------------------------------------------------------------
(* The callbacks of the processor.                                         *)

\* A put of a version: behind the master, or over it.
LEMMA PutChanges ==
    ASSUME NEW r \in Requests, Op[r].type = "putVersion", Op[r].isNull # "true",
           r \in Calls[scenario],
           NEW f, NEW gone, NEW uid \in Nat, ImageOK(f, gone, uid), NEW m, Told(m, f)
    PROVE  \E o1, o2 :
               /\ IsBatch(SpecificPutOps(r, m), o1, o2)
               /\ \A f2 : Effect(f, f2, o1, o2) => Changes(f, f2, gone, gone, uid, uid, o1, o2, m)
<1> DEFINE vid == Op[r].vid
           c == Content(r, vid)
           p == [key |-> vid, value |-> c]
           q == [key |-> Master, value |-> c]
<1>1. /\ vid \in Vids /\ vid \in Keys /\ Master \in Keys /\ NullKey \in Keys /\ Vids \subseteq Keys
      /\ vid # Master /\ vid # NullKey /\ Master # NullKey /\ Master \notin Vids /\ NullKey \notin Vids
      /\ vid \in Nat /\ vid # NoVid
  BY Parameters
<1>2. c \in Value /\ c.vid = vid /\ ~c.phd /\ ~c.null /\ c.from = r /\ c # NoValue
  BY ContentIs, Parameters
<1>3. p \in Operation /\ q \in Operation /\ p.key = vid /\ p.value = c /\ q.key = Master /\ q.value = c
  BY <1>1, <1>2 DEF Operation
<1>4. /\ f \in Dbs /\ f[NullKey] = NoValue
      /\ \A v \in Vids : f[v] # NoValue => f[v].vid = v /\ ~f[v].phd /\ ~f[v].null
      /\ f[Master] # NoValue =>
           f[Master].vid # NoVid /\ ~f[Master].null /\ (f[Master].phd => FirstVid - uid < f[Master].vid)
      /\ Excludes(f, gone) /\ SortedOK(f)
  BY DEF ImageOK, DbOK
<1>5. IsPut(vid)
  BY DEF IsPut
<1>6. vid \notin gone
  BY <1>4, <1>5 DEF Excludes
<1>7. f[Master] # NoValue => f[Master] \in Value
  BY <1>1, <1>4 DEF Dbs
<1>8. m # NoValue => m = f[Master] /\ m \in Value /\ m.vid # NoVid /\ m.null = FALSE
  BY <1>4, <1>7 DEF Told, Value
<1>9. m # NoValue => m.vid \in Nat
  BY <1>8, Parameters DEF Value, NoVid
<1>10. SpecificPutOps(r, m) = IF m = NoValue \/ m.vid >= vid THEN <<p, q>> ELSE <<p>>
  BY <1>8, PutOps
<1> HIDE DEF p, q, c, vid
<1>11. CASE m = NoValue \/ m.vid >= vid
  <2>1. IsBatch(SpecificPutOps(r, m), p, q)
    BY <1>1, <1>3, <1>10, <1>11 DEF IsBatch
  <2>2. ASSUME NEW f2, Effect(f, f2, p, q)
        PROVE  Changes(f, f2, gone, gone, uid, uid, p, q, m)
    <3>1. /\ f2 \in Dbs /\ f2[Master] = c /\ f2[vid] = c /\ f2[NullKey] = NoValue
          /\ \A v \in Vids : v # vid => f2[v] = f[v]
      BY <1>1, <1>3, <1>4, <2>2 DEF Effect
    <3>2. DbOK(f2, uid)
      BY <1>1, <1>2, <1>4, <3>1 DEF DbOK
    <3>3. Excludes(f2, gone)
      BY <1>2, <1>4, <1>6, <3>1 DEF Excludes
    <3>4. Sorted => LatestOK(f2) /\ f2[Master] # NoValue /\ ~f2[Master].phd
      <4>1. SUFFICES ASSUME Sorted PROVE LatestOK(f2) /\ f2[Master] # NoValue /\ ~f2[Master].phd
        OBVIOUS
      <4>2. PutsOnly
        BY <4>1 DEF Sorted, DeletesOnly
      <4>3. LatestOK(f) /\ f[Master] # NoValue /\ ~f[Master].phd
        BY <1>4, <4>1, <4>2 DEF SortedOK
      <4>4. m = f[Master]
        BY <4>1, <4>2 DEF Told
      <4>5. f[Master].vid >= vid /\ f[Master].vid \in Nat
        BY <1>8, <1>9, <1>11, <4>3, <4>4
      <4>6. \A v \in Vids : f2[v] # NoValue => vid <= v
        <5>1. SUFFICES ASSUME NEW v \in Vids, f2[v] # NoValue, v # vid PROVE vid <= v
          BY <1>1
        <5>2. f[v] # NoValue
          BY <3>1, <5>1
        <5>3. f[Master].vid <= v
          BY <4>3, <5>2 DEF LatestOK
        <5>4. v \in Nat
          BY Parameters
        <5> QED BY <1>1, <4>5, <5>3, <5>4
      <4>7. LatestOK(f2)
        BY <1>2, <3>1, <4>6 DEF LatestOK
      <4> QED BY <1>2, <3>1, <4>7
    <3>5. SortedOK(f2)
      BY <3>4 DEF SortedOK
    <3>6. Follows(f, f2, uid)
      BY <1>2, <3>1 DEF Follows, isPHD
    <3>7. \A o \in {p, q} : o.value # NoValue => o.value.vid \notin gone
      BY <1>2, <1>3, <1>6
    <3>8. m = NoValue => Told(NoValue, f2)
      <4>1. ASSUME m = NoValue PROVE ~(Sorted /\ PutsOnly)
        BY <1>4, <4>1 DEF Told, SortedOK
      <4> QED BY <1>2, <1>5, <3>1, <4>1 DEF Told
    <3> QED BY <3>2, <3>3, <3>5, <3>6, <3>7, <3>8 DEF Changes, ImageOK
  <2> QED BY <2>1, <2>2
<1>12. CASE ~(m = NoValue \/ m.vid >= vid)
  <2>1. IsBatch(SpecificPutOps(r, m), p, p)
    BY <1>1, <1>3, <1>10, <1>12 DEF IsBatch
  <2>2. ASSUME NEW f2, Effect(f, f2, p, p)
        PROVE  Changes(f, f2, gone, gone, uid, uid, p, p, m)
    <3>1. /\ f2 \in Dbs /\ f2[Master] = f[Master] /\ f2[vid] = c /\ f2[NullKey] = NoValue
          /\ \A v \in Vids : v # vid => f2[v] = f[v]
      BY <1>1, <1>3, <1>4, <2>2 DEF Effect
    <3>2. DbOK(f2, uid)
      BY <1>1, <1>2, <1>4, <3>1 DEF DbOK
    <3>3. Excludes(f2, gone)
      BY <1>2, <1>4, <1>6, <3>1 DEF Excludes
    <3>9. f[Master] # NoValue /\ f[Master].vid \in Nat /\ f[Master].vid < vid
      BY <1>1, <1>8, <1>9, <1>12
    <3>4. Sorted => LatestOK(f2) /\ f2[Master] # NoValue /\ ~f2[Master].phd
      <4>1. SUFFICES ASSUME Sorted PROVE LatestOK(f2) /\ f2[Master] # NoValue /\ ~f2[Master].phd
        OBVIOUS
      <4>2. PutsOnly
        BY <4>1 DEF Sorted, DeletesOnly
      <4>3. LatestOK(f) /\ f[Master] # NoValue /\ ~f[Master].phd
        BY <1>4, <4>1, <4>2 DEF SortedOK
      <4>4. f[Master].vid \in Vids /\ f[Master].vid # vid
        BY <1>1, <1>4, <1>7, <3>9 DEF Value
      <4>8. \A v \in Vids : f[v] # NoValue => f[Master].vid <= v
        BY <4>3 DEF LatestOK
      <4>5. ASSUME NEW v \in Vids, f2[v] # NoValue PROVE f[Master].vid <= v
        <5>1. CASE v = vid
          BY <1>1, <3>9, <5>1
        <5>2. CASE v # vid
          BY <3>1, <4>5, <4>8, <5>2
        <5> QED BY <5>1, <5>2
      <4>6. f2[f[Master].vid] = f[f[Master].vid]
        BY <3>1, <4>4
      <4>7. LatestOK(f2)
        BY <3>1, <4>3, <4>5, <4>6 DEF LatestOK
      <4> QED BY <3>1, <4>3, <4>7
    <3>5. SortedOK(f2)
      BY <3>4 DEF SortedOK
    <3>6. Follows(f, f2, uid)
      BY <1>5, <3>1 DEF Follows
    <3>7. \A o \in {p, p} : o.value # NoValue => o.value.vid \notin gone
      BY <1>2, <1>3, <1>6
    <3>8. m = NoValue => Told(NoValue, f2)
      BY <1>12
    <3> QED BY <3>2, <3>3, <3>5, <3>6, <3>7, <3>8 DEF Changes, ImageOK
  <2> QED BY <2>1, <2>2
<1> QED BY <1>11, <1>12

\* A deletion of the master, or of a place holder, leaves a new place holder.
LEMMA DeleteMasterChanges ==
    ASSUME NEW r \in Requests, Op[r].type = "delVersion", Op[r].isNull # "true",
           Apart, r \in Calls[scenario],
           NEW f, NEW gone, NEW uid \in Nat, uid + 1 <= FirstVid, ImageOK(f, gone, uid),
           NEW m, Told(m, f), DeletesMaster(r, m)
    PROVE  \E o1, o2 :
               /\ IsBatch(SpecificDeleteOps(r, m, uid), o1, o2)
               /\ \A f2 : Effect(f, f2, o1, o2) =>
                      Changes(f, f2, gone, gone \cup {Op[r].vid}, uid, uid + 1, o1, o2, m)
<1> DEFINE vid == Op[r].vid
           c == PHD(GenVid(uid))
           p == [key |-> vid, value |-> NoValue]
           q == [key |-> Master, value |-> c]
<1>1. /\ vid \in Vids /\ vid \in Keys /\ Master \in Keys /\ NullKey \in Keys /\ Vids \subseteq Keys
      /\ vid # Master /\ vid # NullKey /\ Master # NullKey /\ Master \notin Vids /\ NullKey \notin Vids
      /\ vid \in Nat /\ vid # NoVid
  BY Parameters
<1>2. FirstVid < vid /\ ~IsPut(vid)
  BY DEF Apart
<1>3. c \in Value /\ c.vid = FirstVid - uid /\ c.phd /\ ~c.null /\ c # NoValue
  <2>1. FirstVid - uid \in Vids
    <3>1. FirstVid \in 1 .. InfVid /\ InfVid \in Nat
      BY VersioningAssumption DEF Vids
    <3> QED BY <3>1 DEF Vids
  <2>2. c \in Value
    BY <2>1 DEF PHD, GenVid, Value
  <2>3. c.vid = FirstVid - uid /\ c.phd /\ ~c.null
    BY DEF PHD, GenVid
  <2> QED BY <2>2, <2>3, Parameters
<1>4. p \in Operation /\ q \in Operation /\ p.key = vid /\ p.value = NoValue /\ q.key = Master /\ q.value = c
  BY <1>1, <1>3 DEF Operation
<1>5. /\ f \in Dbs /\ f[NullKey] = NoValue
      /\ \A v \in Vids : f[v] # NoValue => f[v].vid = v /\ ~f[v].phd /\ ~f[v].null
      /\ Excludes(f, gone) /\ SortedOK(f)
  BY DEF ImageOK, DbOK
<1>6. SpecificDeleteOps(r, m, uid) = <<p, q>>
  <2>1. SpecificDeleteOps(r, m, uid) = <<p>> \o <<q>>
    BY DEF SpecificDeleteOps, Unless, Put, Del
  <2> HIDE DEF p, q
  <2> QED BY <2>1, OnesTogether
<1>7. m # NoValue /\ m = f[Master]
  BY DEF Told, DeletesMaster, isPHD
<1>8. FirstVid - uid \in Nat /\ FirstVid - uid # NoVid /\ FirstVid - uid <= FirstVid
      /\ FirstVid - (uid + 1) < FirstVid - uid
  BY Parameters DEF NoVid
<1> HIDE DEF p, q, c, vid
<1>9. IsBatch(SpecificDeleteOps(r, m, uid), p, q)
  BY <1>1, <1>4, <1>6 DEF IsBatch
<1>10. ASSUME NEW f2, Effect(f, f2, p, q)
       PROVE  Changes(f, f2, gone, gone \cup {vid}, uid, uid + 1, p, q, m)
  <2>1. /\ f2 \in Dbs /\ f2[Master] = c /\ f2[vid] = NoValue /\ f2[NullKey] = NoValue
        /\ \A v \in Vids : v # vid => f2[v] = f[v]
    BY <1>1, <1>4, <1>5, <1>10 DEF Effect
  <2>2. DbOK(f2, uid + 1)
    BY <1>1, <1>3, <1>5, <1>8, <2>1 DEF DbOK
  <2>3. \A v \in gone \cup {vid} : FirstVid < v /\ v \in Vids /\ ~IsPut(v) /\ f2[v] = NoValue
    BY <1>1, <1>2, <1>5, <2>1 DEF Excludes
  <2>4. \A v \in gone \cup {vid} : v # FirstVid - uid
    <3>1. SUFFICES ASSUME NEW v \in gone \cup {vid} PROVE v # FirstVid - uid
      OBVIOUS
    <3>2. FirstVid < v /\ v \in Nat
      BY <2>3, Parameters
    <3> QED BY <1>8, <3>2, Parameters
  <2>5. Excludes(f2, gone \cup {vid})
    BY <1>3, <2>1, <2>3, <2>4 DEF Excludes
  <2>6. SortedOK(f2)
    <3>1. ~PutsOnly
      BY DEF PutsOnly
    <3>2. LatestOK(f2)
      BY <1>3, <2>1 DEF LatestOK
    <3> QED BY <3>1, <3>2 DEF SortedOK
  <2>7. Follows(f, f2, uid)
    <3>1. f2[Master].vid <= FirstVid - uid
      BY <1>3, <1>8, <2>1
    <3> QED BY <3>1 DEF Follows
  <2>8. \A o \in {p, q} : o.value # NoValue => o.value.vid \notin gone
    BY <1>3, <1>4, <2>4
  <2> QED BY <1>7, <2>2, <2>5, <2>6, <2>7, <2>8 DEF Changes, ImageOK
<1> QED BY <1>9, <1>10 DEF vid

\* A deletion of another version removes it.
LEMMA DeleteChanges ==
    ASSUME NEW r \in Requests, Op[r].type = "delVersion", Op[r].isNull # "true",
           Apart, r \in Calls[scenario],
           NEW f, NEW gone, NEW uid \in Nat, ImageOK(f, gone, uid),
           NEW m, Told(m, f), ~DeletesMaster(r, m)
    PROVE  \E o1, o2 :
               /\ IsBatch(SpecificDeleteOps(r, m, uid), o1, o2)
               /\ \A f2 : Effect(f, f2, o1, o2) =>
                      Changes(f, f2, gone, gone \cup {Op[r].vid}, uid, uid, o1, o2, m)
<1> DEFINE vid == Op[r].vid
           p == [key |-> vid, value |-> NoValue]
<1>1. /\ vid \in Vids /\ vid \in Keys /\ Master \in Keys /\ NullKey \in Keys /\ Vids \subseteq Keys
      /\ vid # Master /\ vid # NullKey /\ Master # NullKey /\ Master \notin Vids /\ NullKey \notin Vids
      /\ vid \in Nat /\ vid # NoVid
  BY Parameters
<1>2. FirstVid < vid /\ ~IsPut(vid)
  BY DEF Apart
<1>4. p \in Operation /\ p.key = vid /\ p.value = NoValue
  BY <1>1 DEF Operation
<1>5. /\ f \in Dbs /\ f[NullKey] = NoValue
      /\ \A v \in Vids : f[v] # NoValue => f[v].vid = v /\ ~f[v].phd /\ ~f[v].null
      /\ f[Master] # NoValue =>
           f[Master].vid # NoVid /\ ~f[Master].null /\ (f[Master].phd => FirstVid - uid < f[Master].vid)
      /\ Excludes(f, gone) /\ SortedOK(f)
  BY DEF ImageOK, DbOK
<1>6. SpecificDeleteOps(r, m, uid) = <<p>>
  <2>1. SpecificDeleteOps(r, m, uid) = <<p>> \o <<>>
    BY DEF SpecificDeleteOps, Unless, Put, Del
  <2> HIDE DEF p
  <2> QED BY <2>1, OnesTogether
<1>7. f[Master] # NoValue => ~f[Master].phd /\ f[Master].vid # vid
  <2>1. CASE m = f[Master]
    BY <2>1 DEF DeletesMaster, isPHD, vid
  <2>2. CASE m # f[Master]
    BY <1>2, <2>2 DEF Told
  <2> QED BY <2>1, <2>2
<1> HIDE DEF p, vid
<1>9. IsBatch(SpecificDeleteOps(r, m, uid), p, p)
  BY <1>1, <1>4, <1>6 DEF IsBatch
<1>10. ASSUME NEW f2, Effect(f, f2, p, p)
       PROVE  Changes(f, f2, gone, gone \cup {vid}, uid, uid, p, p, m)
  <2>1. /\ f2 \in Dbs /\ f2[Master] = f[Master] /\ f2[vid] = NoValue /\ f2[NullKey] = NoValue
        /\ \A v \in Vids : v # vid => f2[v] = f[v]
    BY <1>1, <1>4, <1>5, <1>10 DEF Effect
  <2>2. DbOK(f2, uid)
    BY <1>1, <1>5, <2>1 DEF DbOK
  <2>3. Excludes(f2, gone \cup {vid})
    BY <1>1, <1>2, <1>5, <1>7, <2>1 DEF Excludes
  <2>4. Sorted => LatestOK(f2)
    <3>1. SUFFICES ASSUME Sorted PROVE LatestOK(f2)
      OBVIOUS
    <3>2. LatestOK(f)
      BY <1>5, <3>1 DEF SortedOK
    <3>3. f[Master] # NoValue => f[Master] \in Value
      BY <1>1, <1>5 DEF Dbs
    <3>4. f[Master] # NoValue => f[Master].vid \in Vids
      BY <1>5, <3>3 DEF Value
    <3>5. f[Master] # NoValue => f2[f[Master].vid] = f[f[Master].vid]
      BY <1>7, <2>1, <3>4
    <3>6. \A v \in Vids : f2[v] = NoValue \/ f2[v] = f[v]
      BY <2>1
    <3> QED BY <2>1, <3>2, <3>5, <3>6 DEF LatestOK
  <2>5. SortedOK(f2)
    <3>1. ~PutsOnly
      BY DEF PutsOnly
    <3> QED BY <2>4, <3>1 DEF SortedOK
  <2>6. Follows(f, f2, uid)
    BY <1>7, <2>1 DEF Follows, isPHD
  <2>7. \A o \in {p, p} : o.value # NoValue => o.value.vid \notin gone
    BY <1>4
  <2>8. m = NoValue => Told(NoValue, f2)
    BY <2>1 DEF Told
  <2> QED BY <2>2, <2>3, <2>5, <2>6, <2>7, <2>8 DEF Changes, ImageOK
<1> QED BY <1>9, <1>10 DEF vid

\* The newest version of a listing.
LEMMA NewestIs ==
    ASSUME NEW T \in SUBSET Vids, T # {}
    PROVE  Newest(T) \in T /\ \A v \in T : Newest(T) <= v
<1>1. T \in SUBSET Nat
  BY Parameters
<1>2. \E i \in T : \A j \in T : i <= j
  BY <1>1, LeastNumber
<1> QED BY <1>2 DEF Newest

\* A repair removes the place holder, or replaces it by the newest version.
LEMMA RepairChanges ==
    ASSUME NEW rows, NEW f, NEW gone, NEW uid \in Nat, ImageOK(f, gone, uid), DbOK(rows, uid),
           isPHD(rows[Master]), f[Master] = rows[Master], Agrees(rows, f)
    PROVE  \E o1, o2 :
               /\ IsBatch(RepairOps(LatestIn(rows)), o1, o2)
               /\ \A f2 : Effect(f, f2, o1, o2) => Changes(f, f2, gone, gone, uid, uid, o1, o2, f[Master])
<1> DEFINE vids == VersionsIn(rows)
           x == IF vids = {} THEN NoValue ELSE rows[Newest(vids)]
           p == [key |-> Master, value |-> x]
<1>1. /\ Master \in Keys /\ NullKey \in Keys /\ Vids \subseteq Keys
      /\ Master # NullKey /\ Master \notin Vids /\ NullKey \notin Vids
  BY Parameters
<1>2. /\ rows \in Dbs /\ rows[NullKey] = NoValue
      /\ \A v \in Vids : rows[v] # NoValue => rows[v].vid = v /\ ~rows[v].phd /\ ~rows[v].null
  BY DEF DbOK
<1>3. /\ f \in Dbs /\ f[NullKey] = NoValue
      /\ \A v \in Vids : f[v] # NoValue => f[v].vid = v /\ ~f[v].phd /\ ~f[v].null
      /\ Excludes(f, gone) /\ SortedOK(f)
  BY DEF ImageOK, DbOK
<1>4. \A v \in Vids : rows[v] = f[v] \/ IsPut(v)
  BY DEF Agrees
<1>5. vids \in SUBSET Vids /\ \A v \in Vids : v \in vids <=> rows[v] # NoValue
  BY DEF VersionsIn
<1>6. vids # {} => /\ Newest(vids) \in vids /\ \A v \in vids : Newest(vids) <= v
  BY <1>5, NewestIs
<1>7. LatestIn(rows) = IF vids = {} THEN <<>> ELSE <<[value |-> x, isNullKey |-> FALSE]>>
  <2>1. rows[NullKey] = NoValue
    BY <1>2
  <2>2. LatestIn(rows) = IF vids = {} THEN <<>> ELSE <<[value |-> rows[Newest(vids)], isNullKey |-> FALSE]>>
    BY <2>1 DEF LatestIn
  <2> QED BY <2>2
<1> HIDE DEF vids
<1>8. RepairOps(LatestIn(rows)) = <<p>>
  <2>1. CASE vids = {}
    BY <1>7, <2>1 DEF RepairOps, Del
  <2>2. CASE vids # {}
    <3> DEFINE n == [value |-> x, isNullKey |-> FALSE]
    <3>1. LatestIn(rows) = <<n>> /\ <<n>> # <<>> /\ <<n>>[1] = n /\ n.value = x /\ n.isNullKey = FALSE
      BY <1>7, <2>2
    <3> HIDE DEF n, x
    <3>2. RepairOps(<<n>>) = <<p>> \o <<>>
      BY <3>1 DEF RepairOps, Put, Unless
    <3> HIDE DEF p
    <3> QED BY <3>1, <3>2, OnesTogether
  <2> QED BY <2>1, <2>2
<1>9. x # NoValue =>
          /\ x = rows[x.vid] /\ x.vid \in Vids /\ x.vid # NoVid /\ ~x.phd /\ ~x.null /\ vids # {}
          /\ \A v \in Vids : rows[v] # NoValue => x.vid <= v
  <2>1. SUFFICES ASSUME x # NoValue
                 PROVE  /\ x = rows[x.vid] /\ x.vid \in Vids /\ ~x.phd /\ ~x.null /\ vids # {}
                        /\ \A v \in Vids : rows[v] # NoValue => x.vid <= v
    BY Parameters
  <2>2. vids # {} /\ x = rows[Newest(vids)] /\ Newest(vids) \in Vids
    BY <1>5, <1>6, <2>1
  <2> HIDE DEF x
  <2> QED BY <1>2, <1>5, <1>6, <2>1, <2>2
<1>10. x \in Value \cup {NoValue} /\ (x = NoValue => \A v \in Vids : rows[v] = NoValue)
  <2>1. CASE vids = {}
    BY <1>5, <2>1
  <2>2. CASE vids # {}
    <3>1. Newest(vids) \in Vids /\ rows[Newest(vids)] # NoValue
      BY <1>5, <1>6, <2>2
    <3>2. rows[Newest(vids)] \in Value \cup {NoValue}
      BY <1>1, <1>2, <3>1 DEF Dbs
    <3> QED BY <2>2, <3>1, <3>2
  <2> QED BY <2>1, <2>2
<1> HIDE DEF x
<1>11. p \in Operation /\ p.key = Master /\ p.value = x
  BY <1>1, <1>10 DEF Operation
<1> HIDE DEF p
<1>12. IsBatch(RepairOps(LatestIn(rows)), p, p)
  BY <1>8, <1>11 DEF IsBatch
<1>13. x # NoValue => x.vid \notin gone
  BY <1>3, <1>4, <1>9 DEF Excludes
<1>14. ASSUME NEW f2, Effect(f, f2, p, p)
       PROVE  Changes(f, f2, gone, gone, uid, uid, p, p, f[Master])
  <2>1. /\ f2 \in Dbs /\ f2[Master] = x /\ f2[NullKey] = NoValue /\ \A v \in Vids : f2[v] = f[v]
    BY <1>1, <1>3, <1>11, <1>14 DEF Effect
  <2>2. DbOK(f2, uid)
    BY <1>1, <1>3, <1>9, <2>1 DEF DbOK
  <2>3. Excludes(f2, gone)
    BY <1>3, <1>13, <2>1 DEF Excludes
  <2>4. f[Master] # NoValue /\ f[Master].phd
    BY DEF isPHD
  <2>5. Sorted => LatestOK(f2) /\ ~PutsOnly
    <3>1. SUFFICES ASSUME Sorted PROVE LatestOK(f2) /\ ~PutsOnly
      OBVIOUS
    <3>2. ~PutsOnly
      BY <1>3, <2>4, <3>1 DEF SortedOK
    <3>3. \A v \in Vids : rows[v] = f[v]
      BY <1>4, <3>1, <3>2 DEF Sorted, DeletesOnly, IsPut
    <3>4. LatestOK(f2)
      BY <1>9, <1>10, <2>1, <3>3 DEF LatestOK
    <3> QED BY <3>2, <3>4
  <2>6. SortedOK(f2)
    BY <2>5 DEF SortedOK
  <2>7. Follows(f, f2, uid)
    BY <1>9, <2>1 DEF Follows, isPHD
  <2>8. \A o \in {p, p} : o.value # NoValue => o.value.vid \notin gone
    BY <1>11, <1>13
  <2> QED BY <2>2, <2>3, <2>4, <2>6, <2>7, <2>8 DEF Changes, ImageOK
<1> QED BY <1>12, <1>14
-----------------------------------------------------------------------------
(* What a batch hands to the manager.                                      *)

EntriesOf(r, ops, sig) ==
    [i \in DOMAIN ops |-> [req |-> r, index |-> i, key |-> ops[i].key, value |-> ops[i].value,
                           signature |-> sig]]

\* The place of the write of the master, in a batch that has one.
MasterPlace(ops) == CHOOSE i \in WritesMaster(ops) : TRUE

\* The version that a request deletes.
GoneBy(r) == {Op[q].vid : q \in {p \in {r} \cap Requests : Op[p].type = "delVersion"}}

\* The entries of a batch have its effect on the database.
LEMMA EntriesAre ==
    ASSUME NEW r \in Requests \cup {Nobody}, NEW sig \in Nat, NEW ops, NEW o1, NEW o2,
           IsBatch(ops, o1, o2), NEW f \in Dbs
    PROVE  LET e == EntriesOf(r, ops, sig)
           IN  /\ e \in Seq(VrEntry)
               /\ Effect(f, Over(e, f), o1, o2)
               /\ \A x \in Elems(e) : x.value \in {o1.value, o2.value}
               /\ Reqs(e) = {r} /\ GoneIn(e) = GoneBy(r) /\ Sigs(e) = {sig}
               /\ WritesMaster(ops) = {} => MasterSigs(e) = {} /\ Over(e, f)[Master] = f[Master]
               /\ WritesMaster(ops) # {} => MasterSigs(e) = {sig} /\ Over(e, f)[Master] = ops[MasterPlace(ops)].value
<1> DEFINE X(i) == [req |-> r, index |-> i, key |-> ops[i].key, value |-> ops[i].value,
                    signature |-> sig]
           e == EntriesOf(r, ops, sig)
           n == Len(ops)
           first == MasterPlace(ops)
<1>1. /\ n \in {1, 2} /\ DOMAIN ops = 1 .. n /\ ops[1] = o1 /\ ops[n] = o2
      /\ n = 2 => o1.key # o2.key
      /\ o1 \in Operation /\ o2 \in Operation
      /\ n = 1 => o2 = o1
  <2>1. CASE ops = <<o1>> /\ o2 = o1
    BY <2>1 DEF IsBatch
  <2>2. CASE ops = <<o1, o2>> /\ o1.key # o2.key
    BY <2>2 DEF IsBatch
  <2> QED BY <2>1, <2>2 DEF IsBatch
<1>2. \A i \in 1 .. n : i \in {1, n} /\ ops[i] \in Operation
  <2> HIDE DEF n
  <2>1. \A i \in 1 .. n : i = 1 \/ i = n
    BY <1>1
  <2> QED BY <1>1, <2>1
<1>3. /\ o1.key \in Keys /\ o1.value \in Value \cup {NoValue}
      /\ o2.key \in Keys /\ o2.value \in Value \cup {NoValue}
  BY <1>1 DEF Operation
<1> HIDE DEF n
<1>4. e = [i \in 1 .. n |-> X(i)]
  BY <1>1 DEF EntriesOf
<1>5. \A i \in 1 .. n : X(i) \in VrEntry
  BY <1>1, <1>2 DEF VrEntry, Operation
<1>6. e \in Seq(VrEntry)
  BY <1>1, <1>4, <1>5
<1>7. DOMAIN e = 1 .. n /\ \A i \in 1 .. n : e[i] = X(i)
  BY <1>4
<1>8. 1 \in 1 .. n /\ n \in 1 .. n
  BY <1>1
<1>9. Elems(e) = {X(1), X(n)}
  BY <1>2, <1>7, <1>8 DEF Elems
<1> HIDE DEF e
<1>10. \A x \in Elems(e) : x.req = r /\ x.value \in {o1.value, o2.value} /\ x.signature = sig
  BY <1>1, <1>9
<1>11. Elems(e) # {}
  BY <1>9
<1>12. Reqs(e) = {r} /\ Sigs(e) = {sig}
  BY <1>10, <1>11 DEF Reqs, Sigs
<1>13. GoneIn(e) = GoneBy(r)
  BY <1>12 DEF GoneIn, GoneBy
<1>14. \A k : WritesOf(e, k) = {i \in 1 .. n : ops[i].key = k}
  BY <1>7 DEF WritesOf
<1>15. \A k \in Keys : Over(e, f)[k] = IF WritesOf(e, k) = {} THEN f[k] ELSE e[LastOf(WritesOf(e, k))].value
  BY DEF Over
<1>16. ASSUME NEW k \in Keys
       PROVE  Over(e, f)[k] = IF k = o2.key THEN o2.value ELSE IF k = o1.key THEN o1.value ELSE f[k]
  <2> DEFINE W == WritesOf(e, k)
  <2>0. n \in Nat /\ W \in SUBSET (1 .. n) /\ W = {i \in 1 .. n : ops[i].key = k}
    BY <1>1, <1>14
  <2> HIDE DEF W
  <2>1. CASE k = o2.key
    <3>1. n \in W /\ \A j \in W : j <= n
      BY <1>1, <1>8, <2>0, <2>1
    <3>2. LastOf(W) = n
      BY <2>0, <3>1, LastIsUnique
    <3> QED BY <1>1, <1>7, <1>8, <1>15, <2>1, <3>1, <3>2 DEF W
  <2>2. CASE k # o2.key /\ k = o1.key
    <3>1. 1 \in W /\ \A j \in W : j <= 1
      BY <1>1, <1>2, <1>8, <2>0, <2>2
    <3>2. LastOf(W) = 1
      BY <2>0, <3>1, LastIsUnique
    <3> QED BY <1>1, <1>7, <1>8, <1>15, <2>2, <3>1, <3>2 DEF W
  <2>3. CASE k # o2.key /\ k # o1.key
    <3>1. W = {}
      BY <1>1, <1>2, <2>0, <2>3
    <3> QED BY <1>15, <2>3, <3>1 DEF W
  <2> QED BY <2>1, <2>2, <2>3
<1>17. Over(e, f) \in Dbs
  <2>1. \A k \in Keys : Over(e, f)[k] \in Value \cup {NoValue}
    BY <1>3, <1>16 DEF Dbs
  <2>2. Over(e, f) = [k \in Keys |-> Over(e, f)[k]]
    BY Zenon DEF Over
  <2> QED BY <2>1, <2>2 DEF Dbs
<1>18. Effect(f, Over(e, f), o1, o2)
  BY <1>16, <1>17 DEF Effect
<1>19. WritesMaster(ops) = {i \in 1 .. n : ops[i].key = Master}
  BY <1>1 DEF WritesMaster
<1>20. Master \in Keys
  BY Parameters
<1>21. ASSUME WritesMaster(ops) = {}
       PROVE  MasterSigs(e) = {} /\ Over(e, f)[Master] = f[Master]
  <2>1. o1.key # Master /\ o2.key # Master
    BY <1>1, <1>8, <1>19, <1>21
  <2>2. \A x \in Elems(e) : x.key # Master
    BY <1>1, <1>9, <2>1
  <2>3. MasterSigs(e) = {}
    BY <2>2 DEF MasterSigs
  <2> QED BY <1>16, <1>20, <2>1, <2>3
<1>22. ASSUME WritesMaster(ops) # {}
       PROVE  MasterSigs(e) = {sig} /\ Over(e, f)[Master] = ops[first].value
  <2>1. first \in 1 .. n /\ ops[first].key = Master
    <3>1. first \in WritesMaster(ops)
      BY <1>22 DEF MasterPlace
    <3> QED BY <1>19, <3>1
  <2> HIDE DEF first
  <2>2. X(first) \in Elems(e) /\ X(first).key = Master
    BY <1>2, <1>9, <2>1
  <2>3. \E x \in Elems(e) : x.key = Master
    BY <2>2
  <2>4. MasterSigs(e) = {sig}
    BY <1>10, <2>3 DEF MasterSigs
  <2>5. Over(e, f)[Master] = ops[first].value
    BY <1>1, <1>2, <1>16, <1>20, <2>1
  <2> QED BY <2>4, <2>5
<1> QED BY <1>6, <1>10, <1>12, <1>13, <1>18, <1>21, <1>22 DEF e, first
-----------------------------------------------------------------------------
(* The fields of a turn.                                                   *)

HasFields(T, a, b, c, d, e, f, g, h, i, j) ==
    T = [cache |-> a, readQueue |-> b, counter |-> c, uid |-> d, listQueue |-> e, listing |-> f,
         repairTimer |-> g, got |-> h, out |-> i, failed |-> j]

IsTurn(T) == HasFields(T, T.cache, T.readQueue, T.counter, T.uid, T.listQueue, T.listing,
                       T.repairTimer, T.got, T.out, T.failed)

\* A field of a turn is read, or changed.
LEMMA FieldsAre ==
    ASSUME NEW T, NEW a, NEW b, NEW c, NEW d, NEW e, NEW f, NEW g, NEW h, NEW i, NEW j,
           HasFields(T, a, b, c, d, e, f, g, h, i, j)
    PROVE  /\ IsTurn(T)
           /\ T.cache = a /\ T.readQueue = b /\ T.counter = c /\ T.uid = d /\ T.listQueue = e
           /\ T.listing = f /\ T.repairTimer = g /\ T.got = h /\ T.out = i /\ T.failed = j
BY DEF HasFields, IsTurn

\* One field of a turn changes, and no other.
LEMMA FieldChanges ==
    ASSUME NEW T, NEW a, NEW b, NEW c, NEW d, NEW e, NEW f, NEW g, NEW h, NEW i, NEW j,
           HasFields(T, a, b, c, d, e, f, g, h, i, j), NEW x
    PROVE  /\ HasFields([T EXCEPT !.cache = x], x, b, c, d, e, f, g, h, i, j)
           /\ HasFields([T EXCEPT !.readQueue = x], a, x, c, d, e, f, g, h, i, j)
           /\ HasFields([T EXCEPT !.counter = x], a, b, x, d, e, f, g, h, i, j)
           /\ HasFields([T EXCEPT !.uid = x], a, b, c, x, e, f, g, h, i, j)
           /\ HasFields([T EXCEPT !.listQueue = x], a, b, c, d, x, f, g, h, i, j)
           /\ HasFields([T EXCEPT !.listing = x], a, b, c, d, e, x, g, h, i, j)
           /\ HasFields([T EXCEPT !.repairTimer = x], a, b, c, d, e, f, x, h, i, j)
           /\ HasFields([T EXCEPT !.got = x], a, b, c, d, e, f, g, x, i, j)
           /\ HasFields([T EXCEPT !.out = x], a, b, c, d, e, f, g, h, x, j)
           /\ HasFields([T EXCEPT !.failed = x], a, b, c, d, e, f, g, h, i, x)
<1>1. HasFields([T EXCEPT !.cache = x], x, b, c, d, e, f, g, h, i, j)
  BY DEF HasFields
<1>2. HasFields([T EXCEPT !.readQueue = x], a, x, c, d, e, f, g, h, i, j)
  BY DEF HasFields
<1>3. HasFields([T EXCEPT !.counter = x], a, b, x, d, e, f, g, h, i, j)
  BY DEF HasFields
<1>4. HasFields([T EXCEPT !.uid = x], a, b, c, x, e, f, g, h, i, j)
  BY DEF HasFields
<1>5. HasFields([T EXCEPT !.listQueue = x], a, b, c, d, x, f, g, h, i, j)
  BY DEF HasFields
<1>6. HasFields([T EXCEPT !.listing = x], a, b, c, d, e, x, g, h, i, j)
  BY DEF HasFields
<1>7. HasFields([T EXCEPT !.repairTimer = x], a, b, c, d, e, f, x, h, i, j)
  BY DEF HasFields
<1>8. HasFields([T EXCEPT !.got = x], a, b, c, d, e, f, g, x, i, j)
  BY DEF HasFields
<1>9. HasFields([T EXCEPT !.out = x], a, b, c, d, e, f, g, h, x, j)
  BY DEF HasFields
<1>10. HasFields([T EXCEPT !.failed = x], a, b, c, d, e, f, g, h, i, x)
  BY DEF HasFields
<1> QED BY <1>1, <1>2, <1>3, <1>4, <1>5, <1>6, <1>7, <1>8, <1>9, <1>10

\* Several fields are changed one after the other.
LEMMA ChangesTogether ==
    ASSUME NEW T, IsTurn(T), NEW x, NEW y, NEW z
    PROVE  /\ [T EXCEPT !.cache = x, !.counter = y, !.out = z]
                 = [[[T EXCEPT !.cache = x] EXCEPT !.counter = y] EXCEPT !.out = z]
           /\ [T EXCEPT !.cache = x, !.counter = y] = [[T EXCEPT !.cache = x] EXCEPT !.counter = y]
           /\ [T EXCEPT !.uid = x, !.repairTimer = y] = [[T EXCEPT !.uid = x] EXCEPT !.repairTimer = y]
           /\ [T EXCEPT !.listQueue = x, !.listing = y] = [[T EXCEPT !.listQueue = x] EXCEPT !.listing = y]
           /\ [T EXCEPT !.listQueue = x, !.listing = y, !.repairTimer = z]
                 = [[[T EXCEPT !.listQueue = x] EXCEPT !.listing = y] EXCEPT !.repairTimer = z]
           /\ [T EXCEPT !.listQueue = x, !.listing = y, !.got = z]
                 = [[[T EXCEPT !.listQueue = x] EXCEPT !.listing = y] EXCEPT !.got = z]
           /\ [T EXCEPT !.listQueue = x, !.listing = y, !.failed = z]
                 = [[[T EXCEPT !.listQueue = x] EXCEPT !.listing = y] EXCEPT !.failed = z]
<1>1. [T EXCEPT !.cache = x, !.counter = y, !.out = z]
         = [[[T EXCEPT !.cache = x] EXCEPT !.counter = y] EXCEPT !.out = z]
  OBVIOUS
<1>2. [T EXCEPT !.cache = x, !.counter = y] = [[T EXCEPT !.cache = x] EXCEPT !.counter = y]
  OBVIOUS
<1>3. [T EXCEPT !.uid = x, !.repairTimer = y] = [[T EXCEPT !.uid = x] EXCEPT !.repairTimer = y]
  OBVIOUS
<1>4. [T EXCEPT !.listQueue = x, !.listing = y] = [[T EXCEPT !.listQueue = x] EXCEPT !.listing = y]
  OBVIOUS
<1>5. [T EXCEPT !.listQueue = x, !.listing = y, !.repairTimer = z]
         = [[[T EXCEPT !.listQueue = x] EXCEPT !.listing = y] EXCEPT !.repairTimer = z]
  OBVIOUS
<1>6. [T EXCEPT !.listQueue = x, !.listing = y, !.got = z]
         = [[[T EXCEPT !.listQueue = x] EXCEPT !.listing = y] EXCEPT !.got = z]
  OBVIOUS
<1>7. [T EXCEPT !.listQueue = x, !.listing = y, !.failed = z]
         = [[[T EXCEPT !.listQueue = x] EXCEPT !.listing = y] EXCEPT !.failed = z]
  OBVIOUS
<1> QED BY <1>1, <1>2, <1>3, <1>4, <1>5, <1>6, <1>7

\* A turn that has written differs in these fields only.
LEMMA CacheBatchIs ==
    ASSUME NEW T, IsTurn(T), NEW r, NEW ops
    PROVE  LET u == CacheBatch(T, r, ops)
           IN  /\ IsTurn(u)
               /\ u.cache = IF WritesMaster(ops) = {} THEN T.cache
                            ELSE <<[signature |-> T.counter, value |-> ops[MasterPlace(ops)].value]>>
               /\ u.counter = T.counter + 1
               /\ u.out = Handed(T.out, EntriesOf(r, ops, T.counter))
               /\ u.uid = T.uid /\ u.listing = T.listing /\ u.readQueue = T.readQueue
               /\ u.failed = T.failed
<1> DEFINE first == MasterPlace(ops)
           x == IF WritesMaster(ops) = {} THEN T.cache
                ELSE <<[signature |-> T.counter, value |-> ops[first].value]>>
           y == T.counter + 1
           z == Handed(T.out, EntriesOf(r, ops, T.counter))
           u == CacheBatch(T, r, ops)
           t1 == [T EXCEPT !.cache = x]
           t2 == [t1 EXCEPT !.counter = y]
<1>1. u = [T EXCEPT !.cache = x, !.counter = y, !.out = z]
  BY Zenon DEF CacheBatch, EntriesOf, MasterPlace
<1> HIDE DEF x, y, z, u, first
<1>2. [T EXCEPT !.cache = x, !.counter = y, !.out = z] = [t2 EXCEPT !.out = z]
  BY ChangesTogether
<1>3. HasFields(T, T.cache, T.readQueue, T.counter, T.uid, T.listQueue, T.listing,
                T.repairTimer, T.got, T.out, T.failed)
  BY DEF IsTurn
<1>4. HasFields(t1, x, T.readQueue, T.counter, T.uid, T.listQueue, T.listing,
                T.repairTimer, T.got, T.out, T.failed)
  BY <1>3, FieldChanges
<1> HIDE DEF t1
<1>5. HasFields(t2, x, T.readQueue, y, T.uid, T.listQueue, T.listing,
                T.repairTimer, T.got, T.out, T.failed)
  BY <1>4, FieldChanges
<1> HIDE DEF t2
<1>6. HasFields([t2 EXCEPT !.out = z], x, T.readQueue, y, T.uid, T.listQueue, T.listing,
                T.repairTimer, T.got, z, T.failed)
  BY <1>5, FieldChanges
<1>7. HasFields(u, x, T.readQueue, y, T.uid, T.listQueue, T.listing, T.repairTimer, T.got, z, T.failed)
  BY <1>1, <1>2, <1>6, Zenon
<1>8. /\ IsTurn(u) /\ u.cache = x /\ u.counter = y /\ u.out = z /\ u.uid = T.uid
      /\ u.listing = T.listing /\ u.readQueue = T.readQueue /\ u.failed = T.failed
  BY <1>7, FieldsAre
<1> QED BY <1>8 DEF x, y, z, u, first

\* A turn that generates a version id and arms the timer of the repair.
LEMMA RepairArmed ==
    ASSUME NEW T, IsTurn(T)
    PROVE  LET u == [T EXCEPT !.uid = @ + 1, !.repairTimer = TRUE]
           IN  /\ IsTurn(u) /\ u.uid = T.uid + 1
               /\ u.cache = T.cache /\ u.counter = T.counter /\ u.out = T.out
               /\ u.listing = T.listing /\ u.readQueue = T.readQueue /\ u.failed = T.failed
<1> DEFINE t1 == [T EXCEPT !.uid = T.uid + 1]
           armed == TRUE
           u == [T EXCEPT !.uid = @ + 1, !.repairTimer = armed]
<1>1. HasFields(T, T.cache, T.readQueue, T.counter, T.uid, T.listQueue, T.listing,
                T.repairTimer, T.got, T.out, T.failed)
  BY DEF IsTurn
<1>2. HasFields(t1, T.cache, T.readQueue, T.counter, T.uid + 1, T.listQueue, T.listing,
                T.repairTimer, T.got, T.out, T.failed)
  BY <1>1, FieldChanges
<1>3. u = [t1 EXCEPT !.repairTimer = armed]
  BY ChangesTogether
<1> HIDE DEF t1, u, armed
<1>4. HasFields([t1 EXCEPT !.repairTimer = armed], T.cache, T.readQueue, T.counter, T.uid + 1, T.listQueue,
                T.listing, armed, T.got, T.out, T.failed)
  BY <1>2, FieldChanges
<1>5. HasFields(u, T.cache, T.readQueue, T.counter, T.uid + 1, T.listQueue,
                T.listing, armed, T.got, T.out, T.failed)
  BY <1>3, <1>4, Zenon
<1>6. /\ IsTurn(u) /\ u.uid = T.uid + 1 /\ u.cache = T.cache /\ u.counter = T.counter /\ u.out = T.out
      /\ u.listing = T.listing /\ u.readQueue = T.readQueue /\ u.failed = T.failed
  BY <1>5, FieldsAre
<1> QED BY <1>6 DEF u, armed

\* A turn that answers with an error.
LEMMA FailedIs ==
    ASSUME NEW T, IsTurn(T), NEW x
    PROVE  LET u == [T EXCEPT !.failed = x]
           IN  /\ IsTurn(u) /\ u.uid = T.uid /\ u.cache = T.cache /\ u.counter = T.counter
               /\ u.out = T.out /\ u.listing = T.listing /\ u.readQueue = T.readQueue
<1> DEFINE u == [T EXCEPT !.failed = x]
<1>1. HasFields(u, T.cache, T.readQueue, T.counter, T.uid, T.listQueue, T.listing,
                T.repairTimer, T.got, T.out, x)
  BY FieldChanges DEF IsTurn
<1> HIDE DEF u
<1>2. /\ IsTurn(u) /\ u.uid = T.uid /\ u.cache = T.cache /\ u.counter = T.counter
      /\ u.out = T.out /\ u.listing = T.listing /\ u.readQueue = T.readQueue
  BY <1>1, FieldsAre
<1> QED BY <1>2 DEF u

\* A turn that asks for a listing, or waits for the one in progress.
LEMMA GetByListingIs ==
    ASSUME NEW T, IsTurn(T), NEW r
    PROVE  LET u == GetByListing(T, r)
           IN  /\ IsTurn(u) /\ u.uid = T.uid /\ u.cache = T.cache /\ u.counter = T.counter
               /\ u.out = T.out /\ u.readQueue = T.readQueue /\ u.failed = T.failed
               /\ u.listing \in {T.listing, <<"issued">>}
<1> DEFINE u == GetByListing(T, r)
<1>1. HasFields(T, T.cache, T.readQueue, T.counter, T.uid, T.listQueue, T.listing,
                T.repairTimer, T.got, T.out, T.failed)
  BY DEF IsTurn
<1>2. CASE T.listQueue # <<>>
  <2> DEFINE q == Append(T.listQueue, r)
  <2>1. u = [T EXCEPT !.listQueue = q]
    BY <1>2, Zenon DEF GetByListing
  <2> HIDE DEF q, u
  <2>2. HasFields([T EXCEPT !.listQueue = q], T.cache, T.readQueue, T.counter, T.uid, q, T.listing,
                  T.repairTimer, T.got, T.out, T.failed)
    BY <1>1, FieldChanges
  <2>3. /\ IsTurn(u) /\ u.uid = T.uid /\ u.cache = T.cache /\ u.counter = T.counter
        /\ u.out = T.out /\ u.readQueue = T.readQueue /\ u.failed = T.failed /\ u.listing = T.listing
    BY <2>1, <2>2, FieldsAre
  <2> QED BY <2>3 DEF u
<1>3. CASE ~(T.listQueue # <<>>)
  <2> DEFINE q == <<r>>
             l == <<"issued">>
             cleared == FALSE
             t1 == [T EXCEPT !.listQueue = q]
             t2 == [t1 EXCEPT !.listing = l]
  <2>1. u = [T EXCEPT !.listQueue = q, !.listing = l, !.repairTimer = cleared]
    BY <1>3, Zenon DEF GetByListing
  <2> HIDE DEF q, u, l, cleared
  <2>2. u = [t2 EXCEPT !.repairTimer = cleared]
    BY <2>1, ChangesTogether
  <2>3. HasFields(t1, T.cache, T.readQueue, T.counter, T.uid, q, T.listing,
                  T.repairTimer, T.got, T.out, T.failed)
    BY <1>1, FieldChanges
  <2> HIDE DEF t1
  <2>4. HasFields(t2, T.cache, T.readQueue, T.counter, T.uid, q, l, T.repairTimer, T.got, T.out, T.failed)
    BY <2>3, FieldChanges
  <2> HIDE DEF t2
  <2>5. HasFields([t2 EXCEPT !.repairTimer = cleared], T.cache, T.readQueue, T.counter, T.uid, q, l, cleared,
                  T.got, T.out, T.failed)
    BY <2>4, FieldChanges
  <2>6. HasFields(u, T.cache, T.readQueue, T.counter, T.uid, q, l, cleared, T.got, T.out, T.failed)
    BY <2>2, <2>5, Zenon
  <2>7. /\ IsTurn(u) /\ u.uid = T.uid /\ u.cache = T.cache /\ u.counter = T.counter
        /\ u.out = T.out /\ u.readQueue = T.readQueue /\ u.failed = T.failed /\ u.listing = l
    BY <2>6, FieldsAre
  <2> QED BY <2>7 DEF u, l
<1> QED BY <1>2, <1>3
-----------------------------------------------------------------------------
(* A turn that has called back.                                            *)

OutOK(out) == out = <<>> \/ (out # <<>> /\ out = <<out[1]>> /\ out[1] \in Seq(VrEntry))

\* What has been handed out lies behind what is gathered.
LEMMA GatheredHanded ==
    ASSUME WaitingBatch \in Seq(VrEntry), NEW out, OutOK(out), NEW e \in Seq(VrEntry)
    PROVE  /\ OutOK(Handed(out, e)) /\ Handed(out, e) # <<>>
           /\ Gathered(Handed(out, e)) = Gathered(out) \o e
           /\ Gathered(out) \in Seq(VrEntry)
<1> DEFINE w == WaitingBatch
<1>1. CASE out = <<>>
  <2>1. Handed(out, e) = <<e>> /\ <<e>> # <<>> /\ <<e>>[1] = e /\ Gathered(out) = w
    BY <1>1 DEF Handed, Gathered
  <2>2. Gathered(<<e>>) = w \o e
    BY <2>1 DEF Gathered
  <2> QED BY <2>1, <2>2 DEF OutOK
<1>2. CASE out # <<>>
  <2> DEFINE x == out[1]
             y == x \o e
  <2>1. x \in Seq(VrEntry)
    BY <1>2 DEF OutOK
  <2>2. Handed(out, e) = <<y>> /\ <<y>> # <<>> /\ <<y>>[1] = y /\ Gathered(out) = w \o x
    BY <1>2 DEF Handed, Gathered
  <2>3. y \in Seq(VrEntry) /\ w \o x \in Seq(VrEntry)
    BY <2>1, ConcatProperties
  <2>4. Gathered(<<y>>) = w \o y
    BY <2>2 DEF Gathered
  <2>5. w \in Seq(VrEntry) /\ e \in Seq(VrEntry)
    OBVIOUS
  <2> HIDE DEF x, y, w
  <2>6. (w \o x) \o e = w \o (x \o e)
    BY ONLY <2>1, <2>5, ConcatAssociative, SMTT(30)
  <2>7. w \o y = (w \o x) \o e
    BY <2>6 DEF y
  <2> QED BY <2>2, <2>3, <2>4, <2>7 DEF OutOK, w
<1> QED BY <1>1, <1>2

\* Place holders of ids to be generated later are no nearer.
LEMMA DbStaysOK ==
    ASSUME NEW uid \in Nat, NEW uid2 \in Nat, uid <= uid2, NEW f, DbOK(f, uid)
    PROVE  DbOK(f, uid2)
<1>1. FirstVid \in Nat /\ Master \in Keys /\ Vids \subseteq Nat /\ NoVid \in Nat
  BY Parameters DEF NoVid
<1>2. ASSUME f[Master] # NoValue, f[Master].phd PROVE FirstVid - uid2 < f[Master].vid
  <2>1. f[Master] \in Value
    BY <1>1, <1>2 DEF DbOK, Dbs
  <2>2. f[Master].vid \in Nat
    BY <1>1, <2>1 DEF Value
  <2>3. FirstVid - uid < f[Master].vid
    BY <1>2 DEF DbOK
  <2> QED BY <1>1, <2>2, <2>3
<1> QED BY <1>2 DEF DbOK

\* A database stays as good with ids to be generated later.
LEMMA ImageStaysOK ==
    ASSUME NEW uid \in Nat, NEW uid2 \in Nat, uid <= uid2, NEW f, NEW gone, ImageOK(f, gone, uid)
    PROVE  ImageOK(f, gone, uid2)
BY DbStaysOK DEF ImageOK

\* The images and the listings after a change of what will be.
LEMMA ImagesFollow ==
    ASSUME NEW uid \in Nat, NEW uid2 \in Nat, uid <= uid2, NEW out, NEW out2,
           ImagesOK(out, uid), ImageOK(Line(out2), LineGone(out2), uid2),
           Follows(Line(out), Line(out2), uid)
    PROVE  /\ ImagesOK(out2, uid2)
           /\ \A rows : SnapshotOK(rows, out, uid) => SnapshotOK(rows, out2, uid2)
<1>1. /\ ImageOK(Disk, DiskGone, uid) /\ ImageOK(Flown, FlownGone, uid)
      /\ BothAgree(Disk, Flown) /\ BothAgree(Disk, Line(out)) /\ BothAgree(Flown, Line(out))
  BY DEF ImagesOK
<1>2. ImageOK(Disk, DiskGone, uid2) /\ ImageOK(Flown, FlownGone, uid2)
  BY <1>1, ImageStaysOK
<1>3. DbOK(Disk, uid) /\ DbOK(Flown, uid)
  BY <1>1 DEF ImageOK
<1>4. BothAgree(Disk, Line(out2)) /\ BothAgree(Flown, Line(out2))
  <2> DEFINE f == Line(out)
             f2 == Line(out2)
             d == Disk
             w == Flown
  <2>1. Follows(f, f2, uid) /\ DbOK(d, uid) /\ DbOK(w, uid) /\ BothAgree(d, f) /\ BothAgree(w, f)
    BY <1>1, <1>3
  <2> HIDE DEF f, f2, d, w
  <2>2. BothAgree(d, f2) /\ BothAgree(w, f2)
    BY <2>1, AgreesStay DEF BothAgree
  <2> QED BY <2>2 DEF f2, d, w
<1>5. ASSUME NEW rows, SnapshotOK(rows, out, uid) PROVE SnapshotOK(rows, out2, uid2)
  <2> DEFINE f == Line(out)
             f2 == Line(out2)
  <2>1. Follows(f, f2, uid) /\ DbOK(rows, uid) /\ Agrees(rows, f)
    BY <1>5 DEF SnapshotOK
  <2> HIDE DEF f, f2
  <2>2. Agrees(rows, f2)
    BY <2>1, AgreesStay
  <2>3. DbOK(rows, uid2)
    BY <2>1, DbStaysOK
  <2> QED BY <1>5, <2>2, <2>3 DEF SnapshotOK, f2
<1> QED BY <1>1, <1>2, <1>4, <1>5 DEF ImagesOK

TurnOK(T) ==
    /\ OutOK(T.out) /\ T.counter \in Nat
    /\ ImagesOK(T.out, T.uid) /\ GatheredOK(T.out) /\ ListingOK(T.listing, T.out, T.uid)
    /\ SigsOK(T.out, T.counter)

\* Between two callbacks, the cached value is the master that will be, unless the database could
\* not be read; its signature is that of the last write or one of base, where it came from. mark
\* is the signature of no write.
CalledBack(T, base, mark, err) ==
    /\ TurnOK(T)
    /\ mark < T.counter /\ mark \notin Sigs(Gathered(T.out))
    /\ T.cache # <<>> /\ T.cache = <<T.cache[1]>>
    /\ MasterSigs(Gathered(T.out)) = {} => T.cache[1].signature \in base
    /\ MasterSigs(Gathered(T.out)) # {} => T.cache[1].signature \in MasterSigs(Gathered(T.out))
    /\ err # "other" => T.cache[1].value = Line(T.out)[Master]
    /\ err = "notFound" => Told(NoValue, Line(T.out))
    /\ err = "other" => T.out = <<>>

\* A batch that is handed out is on top of what will be.
LEMMA BatchLine ==
    ASSUME LogsTyped, NEW out, OutOK(out), NEW e \in Seq(VrEntry), NEW r, GoneIn(e) = GoneBy(r)
    PROVE  LET out2 == Handed(out, e)
           IN  /\ OutOK(out2) /\ out2 # <<>>
               /\ Line(out2) = Over(e, Line(out)) /\ LineGone(out2) = LineGone(out) \cup GoneBy(r)
               /\ Elems(Gathered(out2)) = Elems(Gathered(out)) \cup Elems(e)
               /\ Sigs(Gathered(out2)) = Sigs(Gathered(out)) \cup Sigs(e)
               /\ MasterSigs(Gathered(out2)) = MasterSigs(Gathered(out)) \cup MasterSigs(e)
<1> DEFINE out2 == Handed(out, e)
           a == Gathered(out)
<1>1. OutOK(out2) /\ out2 # <<>> /\ Gathered(out2) = a \o e /\ a \in Seq(VrEntry)
  BY GatheredHanded DEF LogsTyped
<1> HIDE DEF out2, a
<1>2. /\ Elems(a \o e) = Elems(a) \cup Elems(e) /\ GoneIn(a \o e) = GoneIn(a) \cup GoneIn(e)
      /\ Sigs(a \o e) = Sigs(a) \cup Sigs(e) /\ MasterSigs(a \o e) = MasterSigs(a) \cup MasterSigs(e)
  BY <1>1, LogsOfBoth
<1>3. Over(a \o e, Flown) = Over(e, Over(a, Flown))
  BY <1>1, OverBoth
<1>4. Line(out2) = Over(e, Line(out))
  BY <1>1, <1>3, Zenon DEF Line, a
<1>5. LineGone(out2) = LineGone(out) \cup GoneBy(r)
  BY <1>1, <1>2 DEF LineGone, a
<1> QED BY <1>1, <1>2, <1>4, <1>5 DEF out2, a

\* The signatures of a log are numbers.
LEMMA SigsAre ==
    ASSUME NEW log \in Seq(VrEntry)
    PROVE  Elems(log) \subseteq VrEntry /\ Sigs(log) \subseteq Nat /\ MasterSigs(log) \subseteq Sigs(log)
<1>1. Elems(log) \subseteq VrEntry
  <2>1. DOMAIN log = 1 .. Len(log) /\ \A i \in 1 .. Len(log) : log[i] \in VrEntry
    BY LenProperties, ElementOfSeq
  <2> QED BY <2>1 DEF Elems
<1>2. Sigs(log) \subseteq Nat
  BY <1>1 DEF Sigs, VrEntry
<1>3. MasterSigs(log) \subseteq Sigs(log)
  BY DEF Sigs, MasterSigs
<1> QED BY <1>1, <1>2, <1>3

\* A turn u that has written a batch after the turn T, when m was told of the master.
Batched(T, u, r, ops, o1, o2, m, err) ==
    /\ T.uid \in Nat /\ u.uid \in Nat /\ T.uid <= u.uid /\ err # "other"
    /\ r \in Requests \cup {Nobody} /\ IsBatch(ops, o1, o2)
    /\ err = "notFound" => m = NoValue
    /\ u.listing = T.listing /\ u.counter = T.counter + 1
    /\ u.out = Handed(T.out, EntriesOf(r, ops, T.counter))
    /\ u.cache = IF WritesMaster(ops) = {} THEN T.cache
                 ELSE <<[signature |-> T.counter, value |-> ops[MasterPlace(ops)].value]>>
    /\ \A f2 : Effect(Line(T.out), f2, o1, o2) =>
           Changes(Line(T.out), f2, LineGone(T.out), LineGone(T.out) \cup GoneBy(r),
                   T.uid, u.uid, o1, o2, m)

\* A batch of the processor leaves the turn in such a state.
LEMMA BatchStep ==
    ASSUME LogsTyped, NEW T, NEW base, NEW mark \in Int, NEW err, CalledBack(T, base, mark, err),
           NEW u, NEW r, NEW ops, NEW o1, NEW o2, NEW m, Batched(T, u, r, ops, o1, o2, m, err)
    PROVE  /\ CalledBack(u, base, mark, err)
           /\ \A rows : SnapshotOK(rows, T.out, T.uid) => SnapshotOK(rows, u.out, u.uid)
<1> DEFINE cnt == T.counter
           e == EntriesOf(r, ops, cnt)
           f == Line(T.out)
           gone == LineGone(T.out)
           f2 == Over(e, f)
           first == MasterPlace(ops)
<1>0. /\ T.uid \in Nat /\ u.uid \in Nat /\ T.uid <= u.uid /\ err # "other"
      /\ r \in Requests \cup {Nobody} /\ IsBatch(ops, o1, o2)
      /\ err = "notFound" => m = NoValue
      /\ u.listing = T.listing /\ u.counter = T.counter + 1
      /\ u.out = Handed(T.out, EntriesOf(r, ops, T.counter))
      /\ u.cache = IF WritesMaster(ops) = {} THEN T.cache
                   ELSE <<[signature |-> T.counter, value |-> ops[MasterPlace(ops)].value]>>
      /\ \A g : Effect(Line(T.out), g, o1, o2) =>
             Changes(Line(T.out), g, LineGone(T.out), LineGone(T.out) \cup GoneBy(r),
                     T.uid, u.uid, o1, o2, m)
  BY Zenon DEF Batched
<1>1. cnt \in Nat /\ OutOK(T.out) /\ ImagesOK(T.out, T.uid) /\ GatheredOK(T.out) /\ SigsOK(T.out, cnt)
      /\ ListingOK(T.listing, T.out, T.uid)
  BY DEF CalledBack, TurnOK
<1>2. f \in Dbs
  BY <1>1 DEF ImagesOK, ImageOK, DbOK
<1>3. /\ e \in Seq(VrEntry) /\ Effect(f, f2, o1, o2)
      /\ \A x \in Elems(e) : x.value \in {o1.value, o2.value}
      /\ Reqs(e) = {r} /\ GoneIn(e) = GoneBy(r) /\ Sigs(e) = {cnt}
      /\ WritesMaster(ops) = {} => MasterSigs(e) = {} /\ f2[Master] = f[Master]
      /\ WritesMaster(ops) # {} => MasterSigs(e) = {cnt} /\ f2[Master] = ops[first].value
  <2>1. cnt \in Nat /\ f \in Dbs /\ r \in Requests \cup {Nobody} /\ IsBatch(ops, o1, o2)
    BY <1>0, <1>1, <1>2
  <2> HIDE DEF cnt, f
  <2> QED BY ONLY <2>1, EntriesAre
<1>4. u.out = Handed(T.out, e) /\ u.counter = cnt + 1
  BY <1>0
<1>5. u.cache = IF WritesMaster(ops) = {} THEN T.cache ELSE <<[signature |-> cnt, value |-> ops[first].value]>>
  BY <1>0
<1>6. Changes(f, f2, gone, gone \cup GoneBy(r), T.uid, u.uid, o1, o2, m)
  BY <1>0, <1>3
<1> HIDE DEF e, first, cnt
<1>7. /\ OutOK(u.out) /\ u.out # <<>>
      /\ Line(u.out) = f2 /\ LineGone(u.out) = gone \cup GoneBy(r)
      /\ Elems(Gathered(u.out)) = Elems(Gathered(T.out)) \cup Elems(e)
      /\ Sigs(Gathered(u.out)) = Sigs(Gathered(T.out)) \cup Sigs(e)
      /\ MasterSigs(Gathered(u.out)) = MasterSigs(Gathered(T.out)) \cup MasterSigs(e)
  BY <1>1, <1>3, <1>4, BatchLine
<1> HIDE DEF f, f2, gone
<1>8. /\ ImagesOK(u.out, u.uid)
      /\ \A rows : SnapshotOK(rows, T.out, T.uid) => SnapshotOK(rows, u.out, u.uid)
  <2>1. ImageOK(Line(u.out), LineGone(u.out), u.uid) /\ Follows(Line(T.out), Line(u.out), T.uid)
    BY <1>6, <1>7 DEF Changes, f
  <2> QED BY <1>0, <1>1, <2>1, ImagesFollow
<1>9. ListingOK(u.listing, u.out, u.uid)
  BY <1>0, <1>1, <1>8 DEF ListingOK
<1>10. GatheredOK(u.out)
  <2>1. SUFFICES ASSUME NEW x \in Elems(Gathered(u.out)), x.value # NoValue
                 PROVE  x.value.vid \notin FlownGone
    BY DEF GatheredOK
  <2>2. CASE x \in Elems(Gathered(T.out))
    BY <1>1, <2>1, <2>2 DEF GatheredOK
  <2>3. CASE x \in Elems(e)
    <3>1. x.value \in {o1.value, o2.value}
      BY <1>3, <2>3
    <3>2. x.value.vid \notin gone
      BY <1>6, <2>1, <3>1 DEF Changes
    <3> QED BY <3>2 DEF gone, LineGone
  <2> QED BY <1>7, <2>2, <2>3
<1>11. /\ Sigs(Flight) \subseteq Nat /\ Sigs(Gathered(T.out)) \subseteq Nat
       /\ MasterSigs(Gathered(T.out)) \subseteq Sigs(Gathered(T.out))
  <2>1. Gathered(T.out) \in Seq(VrEntry)
    BY <1>1, <1>3, GatheredHanded DEF LogsTyped
  <2> QED BY <2>1, SigsAre DEF LogsTyped
<1>12. SigsOK(u.out, u.counter)
  <2>1. \A x \in Sigs(Flight) \cup Sigs(Gathered(T.out)) : x < cnt /\ x \in Nat
    BY <1>1, <1>11 DEF SigsOK
  <2>2. \A x \in Sigs(Flight), y \in Sigs(Gathered(T.out)) : x < y
    BY <1>1 DEF SigsOK
  <2>3. Sigs(Gathered(u.out)) = Sigs(Gathered(T.out)) \cup {cnt}
    BY <1>3, <1>7
  <2>4. ASSUME NEW x \in Sigs(Flight) \cup Sigs(Gathered(u.out)) PROVE x < u.counter
    <3>1. x = cnt \/ (x < cnt /\ x \in Nat)
      BY <2>1, <2>3
    <3> QED BY <1>1, <1>4, <3>1
  <2>5. ASSUME NEW x \in Sigs(Flight), NEW y \in Sigs(Gathered(u.out)) PROVE x < y
    BY <2>1, <2>2, <2>3
  <2> QED BY <2>4, <2>5 DEF SigsOK
<1>13. TurnOK(u)
  BY <1>1, <1>4, <1>7, <1>8, <1>9, <1>10, <1>12 DEF TurnOK
<1>14. mark < u.counter /\ mark \notin Sigs(Gathered(u.out))
  <2>1. mark < cnt /\ mark \notin Sigs(Gathered(T.out))
    BY DEF CalledBack, cnt
  <2> QED BY <1>1, <1>3, <1>4, <1>7, <2>1
<1>15. /\ T.cache # <<>> /\ T.cache = <<T.cache[1]>>
       /\ MasterSigs(Gathered(T.out)) = {} => T.cache[1].signature \in base
       /\ MasterSigs(Gathered(T.out)) # {} => T.cache[1].signature \in MasterSigs(Gathered(T.out))
       /\ T.cache[1].value = f[Master]
  BY <1>0 DEF CalledBack, f
<1>16. /\ u.cache # <<>> /\ u.cache = <<u.cache[1]>>
       /\ MasterSigs(Gathered(u.out)) = {} => u.cache[1].signature \in base
       /\ MasterSigs(Gathered(u.out)) # {} => u.cache[1].signature \in MasterSigs(Gathered(u.out))
       /\ u.cache[1].value = Line(u.out)[Master]
  <2>1. CASE WritesMaster(ops) = {}
    BY <1>3, <1>5, <1>7, <1>15, <2>1
  <2>2. CASE WritesMaster(ops) # {}
    <3> DEFINE c == [signature |-> cnt, value |-> ops[first].value]
    <3>1. u.cache = <<c>> /\ c.signature = cnt /\ c.value = f2[Master]
      BY <1>3, <1>5, <2>2
    <3> HIDE DEF c
    <3>4. <<c>> # <<>> /\ <<c>>[1] = c
      OBVIOUS
    <3>2. u.cache # <<>> /\ u.cache[1] = c
      BY <3>1, <3>4, Zenon
    <3>3. cnt \in MasterSigs(Gathered(u.out))
      BY <1>3, <1>7, <2>2
    <3> QED BY <1>7, <3>1, <3>2, <3>3
  <2> QED BY <2>1, <2>2
<1>17. err = "notFound" => Told(NoValue, Line(u.out))
  BY <1>0, <1>6, <1>7 DEF Changes
<1> QED BY <1>0, <1>8, <1>13, <1>14, <1>16, <1>17 DEF CalledBack

\* What does not write leaves it too.
LEMMA SameTurn ==
    ASSUME NEW T, NEW base, NEW mark, NEW err, CalledBack(T, base, mark, err),
           NEW u, u.uid = T.uid, u.cache = T.cache, u.counter = T.counter, u.out = T.out,
           u.listing \in {T.listing, <<"issued">>}
    PROVE  CalledBack(u, base, mark, err)
<1>1. TurnOK(u)
  BY DEF CalledBack, TurnOK, ListingOK
<1> QED BY <1>1 DEF CalledBack

\* What a request deletes: the version of a deletion, and nothing otherwise.
LEMMA GoneByIs ==
    /\ GoneBy(Nobody) = {}
    /\ \A r \in Requests : GoneBy(r) = IF Op[r].type = "delVersion" THEN {Op[r].vid} ELSE {}
BY Parameters DEF GoneBy

\* The master that a callback is told of.
MasterTold(T, err) == IF err = "none" THEN T.cache[1].value ELSE NoValue

\* A callback that repairs.
LEMMA RepairCallback ==
    ASSUME LogsTyped, NEW T, IsTurn(T), T.uid \in Nat, NEW base, NEW mark \in Int, NEW err,
           NEW task, task.req = Nobody, TaskOK(task, T.out, T.uid), CalledBack(T, base, mark, err)
    PROVE  LET u == Callback(T, task, err)
           IN  /\ CalledBack(u, base, mark, err)
               /\ \A rows : SnapshotOK(rows, T.out, T.uid) => SnapshotOK(rows, u.out, u.uid)
<1> DEFINE m == MasterTold(T, err)
           u == Callback(T, task, err)
           f == Line(T.out)
           gone == LineGone(T.out)
<1>1. u = IF err = "other" \/ ~isPHD(m) THEN T
          ELSE IF m = task.value THEN CacheBatch(T, Nobody, RepairOps(task.next))
          ELSE GetByListing(T, Nobody)
  BY Zenon DEF Callback, MasterTold
<1>2. CASE err = "other" \/ ~isPHD(m)
  BY <1>1, <1>2
<1>3. CASE ~(err = "other" \/ ~isPHD(m)) /\ m # task.value
  <2>1. u = GetByListing(T, Nobody)
    BY <1>1, <1>3
  <2> HIDE DEF u, m
  <2>2. /\ IsTurn(u) /\ u.uid = T.uid /\ u.cache = T.cache /\ u.counter = T.counter /\ u.out = T.out
        /\ u.listing \in {T.listing, <<"issued">>}
    BY <2>1, GetByListingIs
  <2>3. CalledBack(u, base, mark, err)
    BY <2>2, SameTurn
  <2> QED BY <2>2, <2>3 DEF u
<1>4. CASE ~(err = "other" \/ ~isPHD(m)) /\ m = task.value
  <2>1. u = CacheBatch(T, Nobody, RepairOps(task.next))
    BY <1>1, <1>4
  <2>2. err = "none" /\ m = f[Master]
    <3>1. m # NoValue
      BY <1>4 DEF isPHD
    <3> QED BY <3>1 DEF CalledBack, MasterTold
  <2>3. PICK rows \in Dbs : /\ task = RepairTask(rows[Master], LatestIn(rows)) /\ isPHD(rows[Master])
                            /\ SnapshotOK(rows, T.out, T.uid)
    <3>1. ~(task.req \in Calls[scenario])
      BY Parameters DEF LogsTyped
    <3> QED BY <3>1 DEF TaskOK
  <2>4. task.value = rows[Master] /\ task.next = LatestIn(rows)
    BY <2>3 DEF RepairTask
  <2>5. ImageOK(f, gone, T.uid)
    BY DEF CalledBack, TurnOK, ImagesOK
  <2>6. DbOK(rows, T.uid) /\ Agrees(rows, f)
    BY <2>3 DEF SnapshotOK
  <2>7. f[Master] = rows[Master] /\ isPHD(rows[Master])
    BY <1>4, <2>2, <2>3, <2>4
  <2> DEFINE ops == RepairOps(LatestIn(rows))
  <2> HIDE DEF f, gone, u
  <2>8. \E o1, o2 : /\ IsBatch(ops, o1, o2)
                    /\ \A f2 : Effect(f, f2, o1, o2) =>
                            Changes(f, f2, gone, gone, T.uid, T.uid, o1, o2, f[Master])
    BY <2>5, <2>6, <2>7, RepairChanges
  <2> HIDE DEF ops
  <2>9. PICK o1, o2 : /\ IsBatch(ops, o1, o2)
                      /\ \A f2 : Effect(f, f2, o1, o2) =>
                            Changes(f, f2, gone, gone, T.uid, T.uid, o1, o2, f[Master])
    BY <2>8
  <2>10. u = CacheBatch(T, Nobody, ops)
    BY <2>1, <2>4 DEF ops
  <2>11. /\ u.cache = IF WritesMaster(ops) = {} THEN T.cache
                      ELSE <<[signature |-> T.counter, value |-> ops[MasterPlace(ops)].value]>>
         /\ u.counter = T.counter + 1 /\ u.out = Handed(T.out, EntriesOf(Nobody, ops, T.counter))
         /\ u.uid = T.uid /\ u.listing = T.listing
    BY <2>10, CacheBatchIs
  <2>12. \A f2 : Effect(f, f2, o1, o2) =>
                 Changes(f, f2, gone, gone \cup GoneBy(Nobody), T.uid, u.uid, o1, o2, f[Master])
    <3>1. gone \cup GoneBy(Nobody) = gone
      BY GoneByIs
    <3> QED BY <2>9, <2>11, <3>1
  <2>13. u.uid \in Nat /\ T.uid <= u.uid /\ err # "other" /\ (err = "notFound" => f[Master] = NoValue)
         /\ Nobody \in Requests \cup {Nobody} /\ IsBatch(ops, o1, o2)
    BY <2>2, <2>9, <2>11
  <2>14. Batched(T, u, Nobody, ops, o1, o2, f[Master], err)
    BY <2>11, <2>12, <2>13 DEF Batched, f, gone
  <2>15. /\ CalledBack(u, base, mark, err)
         /\ \A rs : SnapshotOK(rs, T.out, T.uid) => SnapshotOK(rs, u.out, u.uid)
    BY <2>14, BatchStep
  <2> QED BY <2>15 DEF u
<1> QED BY <1>2, <1>3, <1>4

\* A callback of a request.
LEMMA RequestCallback ==
    ASSUME LogsTyped, OnlyVersions, Apart,
           NEW T, IsTurn(T), T.uid \in Nat, NEW base, NEW mark \in Int, NEW err \in {"none", "notFound", "other"},
           NEW r \in Calls[scenario], Op[r].type \in {"putVersion", "delVersion"},
           CalledBack(T, base, mark, err), Callback(T, RequestTask(r), err).uid <= FirstVid
    PROVE  LET u == Callback(T, RequestTask(r), err)
           IN  /\ CalledBack(u, base, mark, err)
               /\ \A rows : SnapshotOK(rows, T.out, T.uid) => SnapshotOK(rows, u.out, u.uid)
<1> DEFINE m == MasterTold(T, err)
           u == Callback(T, RequestTask(r), err)
           f == Line(T.out)
           gone == LineGone(T.out)
<1>1. r \in Requests /\ r # Nobody /\ Op[r].isNull # "true"
  BY Parameters DEF LogsTyped, OnlyVersions
<1>2. u = IF err = "other" THEN [T EXCEPT !.failed = T.failed \cup {r}]
          ELSE IF Op[r].type = "putVersion" THEN CacheBatch(T, r, SpecificPutOps(r, m))
          ELSE IF DeletesMaster(r, m)
          THEN [CacheBatch(T, r, SpecificDeleteOps(r, m, T.uid)) EXCEPT !.uid = @ + 1, !.repairTimer = TRUE]
          ELSE CacheBatch(T, r, SpecificDeleteOps(r, m, T.uid))
  <2>1. RequestTask(r).req = r
    BY DEF RequestTask
  <2> QED BY <1>1, <2>1, Zenon DEF Callback, MasterTold
<1>3. err # "other" => Told(m, f)
  BY DEF CalledBack, MasterTold, Told
<1>4. ImageOK(f, gone, T.uid)
  BY DEF CalledBack, TurnOK, ImagesOK
<1>5. u.uid <= FirstVid
  OBVIOUS
<1>6. CASE err = "other"
  <2>1. u = [T EXCEPT !.failed = T.failed \cup {r}]
    BY <1>2, <1>6
  <2> DEFINE x == T.failed \cup {r}
  <2> HIDE DEF u, x
  <2>2. /\ IsTurn(u) /\ u.uid = T.uid /\ u.cache = T.cache /\ u.counter = T.counter /\ u.out = T.out
        /\ u.listing = T.listing
    BY <2>1, FailedIs DEF x
  <2>3. CalledBack(u, base, mark, err)
    BY <2>2, SameTurn
  <2> QED BY <2>2, <2>3 DEF u
<1>7. CASE err # "other" /\ Op[r].type = "putVersion"
  <2> DEFINE ops == SpecificPutOps(r, m)
  <2>1. u = CacheBatch(T, r, ops)
    BY <1>2, <1>7
  <2>2. gone \cup GoneBy(r) = gone
    BY <1>1, <1>7, GoneByIs
  <2> HIDE DEF u, f, gone, m
  <2>3. \E o1, o2 :
               /\ IsBatch(ops, o1, o2)
               /\ \A f2 : Effect(f, f2, o1, o2) => Changes(f, f2, gone, gone, T.uid, T.uid, o1, o2, m)
    BY <1>1, <1>3, <1>4, <1>7, PutChanges
  <2> HIDE DEF ops
  <2>4. /\ u.cache = IF WritesMaster(ops) = {} THEN T.cache
                     ELSE <<[signature |-> T.counter, value |-> ops[MasterPlace(ops)].value]>>
        /\ u.counter = T.counter + 1 /\ u.out = Handed(T.out, EntriesOf(r, ops, T.counter))
        /\ u.uid = T.uid /\ u.listing = T.listing
    BY <2>1, CacheBatchIs
  <2>5. \E o1, o2 :
               /\ IsBatch(ops, o1, o2)
               /\ \A f2 : Effect(f, f2, o1, o2) =>
                     Changes(f, f2, gone, gone \cup GoneBy(r), T.uid, T.uid, o1, o2, m)
    BY <2>2, <2>3
  <2>6. /\ LogsTyped /\ IsTurn(T) /\ T.uid \in Nat /\ mark \in Int /\ err # "other"
        /\ CalledBack(T, base, mark, err) /\ r \in Requests
        /\ err = "notFound" => m = NoValue
    BY <1>1, <1>7 DEF m, MasterTold
  <2>7. \E o1, o2 : Batched(T, u, r, ops, o1, o2, m, err)
    BY <2>4, <2>5, <2>6 DEF Batched, f, gone
  <2>8. /\ CalledBack(u, base, mark, err)
        /\ \A rows : SnapshotOK(rows, T.out, T.uid) => SnapshotOK(rows, u.out, u.uid)
    BY <2>7, BatchStep
  <2> QED BY <2>8 DEF u
<1>8. CASE err # "other" /\ Op[r].type = "delVersion"
  <2> DEFINE ops == SpecificDeleteOps(r, m, T.uid)
             v == CacheBatch(T, r, ops)
  <2>1. u = IF DeletesMaster(r, m) THEN [v EXCEPT !.uid = @ + 1, !.repairTimer = TRUE] ELSE v
    <3>1. Op[r].type # "putVersion"
      BY <1>8
    <3> QED BY <1>2, <1>8, <3>1, Zenon
  <2>2. GoneBy(r) = {Op[r].vid}
    BY <1>1, <1>8, GoneByIs
  <2> HIDE DEF u, f, gone, m
  <2>3. /\ IsTurn(v)
        /\ v.cache = IF WritesMaster(ops) = {} THEN T.cache
                     ELSE <<[signature |-> T.counter, value |-> ops[MasterPlace(ops)].value]>>
        /\ v.counter = T.counter + 1 /\ v.out = Handed(T.out, EntriesOf(r, ops, T.counter))
        /\ v.uid = T.uid /\ v.listing = T.listing
    <3> HIDE DEF ops
    <3> QED BY CacheBatchIs
  <2>6. /\ LogsTyped /\ IsTurn(T) /\ T.uid \in Nat /\ mark \in Int /\ err # "other"
        /\ CalledBack(T, base, mark, err) /\ r \in Requests
        /\ err = "notFound" => m = NoValue
    BY <1>1, <1>8 DEF m, MasterTold
  <2> HIDE DEF v
  <2>7. CASE DeletesMaster(r, m)
    <3>1. u = [v EXCEPT !.uid = @ + 1, !.repairTimer = TRUE]
      BY <2>1, <2>7
    <3>2. /\ u.uid = v.uid + 1 /\ u.cache = v.cache /\ u.counter = v.counter /\ u.out = v.out
          /\ u.listing = v.listing
      BY <2>3, <3>1, RepairArmed
    <3>3. T.uid + 1 <= FirstVid
      BY <1>5, <2>3, <3>2
    <3>4. \E o1, o2 :
               /\ IsBatch(ops, o1, o2)
               /\ \A f2 : Effect(f, f2, o1, o2) =>
                     Changes(f, f2, gone, gone \cup {Op[r].vid}, T.uid, T.uid + 1, o1, o2, m)
      BY <1>1, <1>3, <1>4, <1>8, <2>7, <3>3, DeleteMasterChanges
    <3> HIDE DEF ops
    <3>5. \E o1, o2 :
               /\ IsBatch(ops, o1, o2)
               /\ \A f2 : Effect(f, f2, o1, o2) =>
                     Changes(f, f2, gone, gone \cup GoneBy(r), T.uid, T.uid + 1, o1, o2, m)
      BY <2>2, <3>4
    <3>6. /\ u.cache = IF WritesMaster(ops) = {} THEN T.cache
                       ELSE <<[signature |-> T.counter, value |-> ops[MasterPlace(ops)].value]>>
          /\ u.counter = T.counter + 1 /\ u.out = Handed(T.out, EntriesOf(r, ops, T.counter))
          /\ u.uid = T.uid + 1 /\ u.listing = T.listing
      BY <2>3, <3>2
    <3>9. u.uid \in Nat /\ T.uid <= u.uid
      BY <2>6, <3>6
    <3>10. PICK o1, o2 :
               /\ IsBatch(ops, o1, o2)
               /\ \A f2 : Effect(f, f2, o1, o2) =>
                     Changes(f, f2, gone, gone \cup GoneBy(r), T.uid, u.uid, o1, o2, m)
      BY <3>5, <3>6
    <3>7. Batched(T, u, r, ops, o1, o2, m, err)
      BY <2>6, <3>6, <3>9, <3>10 DEF Batched, f, gone
    <3>8. /\ CalledBack(u, base, mark, err)
          /\ \A rows : SnapshotOK(rows, T.out, T.uid) => SnapshotOK(rows, u.out, u.uid)
      BY <3>7, BatchStep
    <3> QED BY <3>8 DEF u
  <2>8. CASE ~DeletesMaster(r, m)
    <3>1. u = v
      BY <2>1, <2>8
    <3>4. \E o1, o2 :
               /\ IsBatch(ops, o1, o2)
               /\ \A f2 : Effect(f, f2, o1, o2) =>
                     Changes(f, f2, gone, gone \cup {Op[r].vid}, T.uid, T.uid, o1, o2, m)
      BY <1>1, <1>3, <1>4, <1>8, <2>8, DeleteChanges
    <3> HIDE DEF ops
    <3>5. \E o1, o2 :
               /\ IsBatch(ops, o1, o2)
               /\ \A f2 : Effect(f, f2, o1, o2) =>
                     Changes(f, f2, gone, gone \cup GoneBy(r), T.uid, T.uid, o1, o2, m)
      BY <2>2, <3>4
    <3>6. /\ u.cache = IF WritesMaster(ops) = {} THEN T.cache
                       ELSE <<[signature |-> T.counter, value |-> ops[MasterPlace(ops)].value]>>
          /\ u.counter = T.counter + 1 /\ u.out = Handed(T.out, EntriesOf(r, ops, T.counter))
          /\ u.uid = T.uid /\ u.listing = T.listing
      BY <2>3, <3>1
    <3>9. u.uid \in Nat /\ T.uid <= u.uid
      BY <2>6, <3>6
    <3>10. PICK o1, o2 :
               /\ IsBatch(ops, o1, o2)
               /\ \A f2 : Effect(f, f2, o1, o2) =>
                     Changes(f, f2, gone, gone \cup GoneBy(r), T.uid, u.uid, o1, o2, m)
      BY <3>5, <3>6
    <3>7. Batched(T, u, r, ops, o1, o2, m, err)
      BY <2>6, <3>6, <3>9, <3>10 DEF Batched, f, gone
    <3>8. /\ CalledBack(u, base, mark, err)
          /\ \A rows : SnapshotOK(rows, T.out, T.uid) => SnapshotOK(rows, u.out, u.uid)
      BY <3>7, BatchStep
    <3> QED BY <3>8 DEF u
  <2> QED BY <2>7, <2>8
<1> QED BY <1>6, <1>7, <1>8

\* A batch generates no version id, and leaves the queue of the reads.
LEMMA BatchShape ==
    ASSUME NEW T, IsTurn(T)
    PROVE  \A q, ops : /\ IsTurn(CacheBatch(T, q, ops)) /\ CacheBatch(T, q, ops).uid = T.uid
                       /\ CacheBatch(T, q, ops).readQueue = T.readQueue
<1>1. ASSUME NEW q, NEW ops, NEW t, t = CacheBatch(T, q, ops)
      PROVE  IsTurn(t) /\ t.uid = T.uid /\ t.readQueue = T.readQueue
  <2>1. /\ IsTurn(t)
        /\ t.cache = IF WritesMaster(ops) = {} THEN T.cache
                     ELSE <<[signature |-> T.counter, value |-> ops[MasterPlace(ops)].value]>>
        /\ t.uid = T.uid /\ t.readQueue = T.readQueue
    BY <1>1, CacheBatchIs
  <2> QED BY <2>1
<1> QED BY <1>1, Zenon

\* A callback generates at most one version id.
LEMMA CallbackShape ==
    ASSUME NEW T, IsTurn(T), NEW task, NEW err
    PROVE  LET u == Callback(T, task, err)
           IN  IsTurn(u) /\ u.uid \in {T.uid, T.uid + 1} /\ u.readQueue = T.readQueue
<1> DEFINE r == task.req
           m == MasterTold(T, err)
           u == Callback(T, task, err)
           v == CacheBatch(T, r, SpecificDeleteOps(r, m, T.uid))
           w == CacheBatch(T, r, SpecificPutOps(r, m))
           z == CacheBatch(T, Nobody, RepairOps(task.next))
           g == GetByListing(T, Nobody)
           x == T.failed \cup {r}
           y == [T EXCEPT !.failed = x]
           k == [v EXCEPT !.uid = @ + 1, !.repairTimer = TRUE]
<1>1. u \in {T, z, g, y, w, v, k}
  <2>1. u = IF r = Nobody
            THEN IF err = "other" \/ ~isPHD(m) THEN T
                 ELSE IF m = task.value THEN z ELSE g
            ELSE IF err = "other" THEN y
            ELSE IF Op[r].type = "putVersion" THEN w
            ELSE IF DeletesMaster(r, m) THEN k ELSE v
    BY Zenon DEF Callback, MasterTold
  <2> HIDE DEF u, v, w, z, g, y, k
  <2> QED BY <2>1
<1> HIDE DEF u, m, r, x
<1>9. \A q, ops : /\ IsTurn(CacheBatch(T, q, ops)) /\ CacheBatch(T, q, ops).uid = T.uid
                  /\ CacheBatch(T, q, ops).readQueue = T.readQueue
  BY BatchShape
<1>2. IsTurn(z) /\ z.uid = T.uid /\ z.readQueue = T.readQueue
  BY <1>9, Zenon
<1>3. IsTurn(w) /\ w.uid = T.uid /\ w.readQueue = T.readQueue
  BY <1>9, Zenon
<1>4. IsTurn(v) /\ v.uid = T.uid /\ v.readQueue = T.readQueue
  BY <1>9, Zenon
<1>5. IsTurn(g) /\ g.uid = T.uid /\ g.readQueue = T.readQueue
  BY GetByListingIs
<1>6. IsTurn(y) /\ y.uid = T.uid /\ y.readQueue = T.readQueue
  BY FailedIs
<1> HIDE DEF v, w, z, g, y
<1>7. IsTurn(k) /\ k.uid = T.uid + 1 /\ k.readQueue = T.readQueue
  BY <1>4, RepairArmed
<1> HIDE DEF k
<1>8. IsTurn(u) /\ u.uid \in {T.uid, T.uid + 1} /\ u.readQueue = T.readQueue
  BY <1>1, <1>2, <1>3, <1>4, <1>5, <1>6, <1>7
<1> QED BY <1>8 DEF u

\* One callback after the other.
LEMMA CallbackStep ==
    ASSUME LogsTyped, OnlyVersions, Apart,
           NEW T, IsTurn(T), T.uid \in Nat, NEW base, NEW mark \in Int, NEW err \in {"none", "notFound", "other"},
           NEW task, TaskOK(task, T.out, T.uid),
           CalledBack(T, base, mark, err), Callback(T, task, err).uid <= FirstVid
    PROVE  LET u == Callback(T, task, err)
           IN  /\ CalledBack(u, base, mark, err)
               /\ \A other : TaskOK(other, T.out, T.uid) => TaskOK(other, u.out, u.uid)
<1> DEFINE u == Callback(T, task, err)
<1>1. /\ CalledBack(u, base, mark, err)
      /\ \A rows : SnapshotOK(rows, T.out, T.uid) => SnapshotOK(rows, u.out, u.uid)
  <2>1. CASE task.req = Nobody
    BY <2>1, RepairCallback
  <2>2. CASE task.req # Nobody
    <3> DEFINE r == task.req
    <3>1. r \in Calls[scenario] /\ task = RequestTask(r) /\ Op[r].type \in {"putVersion", "delVersion"}
      <4>1. \A rows : task # RepairTask(rows[Master], LatestIn(rows))
        BY <2>2 DEF RepairTask
      <4> QED BY <4>1 DEF TaskOK
    <3> HIDE DEF r
    <3>2. Callback(T, RequestTask(r), err).uid <= FirstVid
      BY <3>1
    <3>3. /\ CalledBack(Callback(T, RequestTask(r), err), base, mark, err)
          /\ \A rows : SnapshotOK(rows, T.out, T.uid) =>
                 SnapshotOK(rows, Callback(T, RequestTask(r), err).out, Callback(T, RequestTask(r), err).uid)
      BY <3>1, <3>2, RequestCallback
    <3> QED BY <3>1, <3>3
  <2> QED BY <2>1, <2>2
<1> HIDE DEF u
<1>2. \A other : TaskOK(other, T.out, T.uid) => TaskOK(other, u.out, u.uid)
  BY <1>1 DEF TaskOK
<1> QED BY <1>1, <1>2 DEF u

\* run[i] is the turn begin after i of n callbacks.
RunOf(run, begin, tasks, n, err) ==
    n \in Nat /\ run[0] = begin /\ \A i \in 1 .. n : run[i] = Callback(run[i - 1], tasks[i], err)

\* All the callbacks of a queue.
LEMMA CallsStep ==
    ASSUME LogsTyped, OnlyVersions, Apart,
           NEW begin, IsTurn(begin), begin.uid \in Nat, NEW base, NEW mark \in Int,
           NEW err \in {"none", "notFound", "other"},
           CalledBack(begin, base, mark, err),
           NEW n, NEW tasks, \A i \in 1 .. n : TaskOK(tasks[i], begin.out, begin.uid),
           NEW run, RunOf(run, begin, tasks, n, err)
    PROVE  /\ IsTurn(run[n]) /\ run[n].uid \in Nat /\ begin.uid <= run[n].uid
           /\ run[n].uid <= FirstVid => CalledBack(run[n], base, mark, err)
<1> DEFINE Good(i) == /\ CalledBack(run[i], base, mark, err)
                      /\ \A j \in 1 .. n : TaskOK(tasks[j], run[i].out, run[i].uid)
           P(i) == /\ IsTurn(run[i]) /\ run[i].uid \in Nat /\ begin.uid <= run[i].uid
                   /\ run[i].uid <= FirstVid => Good(i)
           T == {i \in 0 .. n : ~P(i)}
<1>0. FirstVid \in Nat /\ n \in Nat /\ run[0] = begin
      /\ \A i \in 1 .. n : run[i] = Callback(run[i - 1], tasks[i], err)
  BY Parameters DEF RunOf
<1>1. P(0)
  BY <1>0
<1>2. ASSUME NEW i \in 1 .. n, P(i - 1) PROVE P(i)
  <2> DEFINE t == run[i - 1]
             u == run[i]
             task == tasks[i]
  <2>1. u = Callback(t, task, err) /\ IsTurn(t) /\ t.uid \in Nat /\ begin.uid <= t.uid
    BY <1>0, <1>2
  <2>8. t.uid <= FirstVid => Good(i - 1)
    BY <1>2
  <2> HIDE DEF t, u, task
  <2>2. IsTurn(u) /\ u.uid \in {t.uid, t.uid + 1}
    BY <2>1, CallbackShape
  <2>3. u.uid \in Nat /\ begin.uid <= u.uid /\ t.uid <= u.uid
    BY <2>1, <2>2
  <2>4. ASSUME u.uid <= FirstVid PROVE Good(i)
    <3>1. t.uid <= FirstVid
      BY <1>0, <2>1, <2>3, <2>4
    <3>2. CalledBack(t, base, mark, err) /\ \A j \in 1 .. n : TaskOK(tasks[j], t.out, t.uid)
      BY <2>8, <3>1 DEF t
    <3>3. TaskOK(task, t.out, t.uid)
      BY <3>2 DEF task
    <3>4. Callback(t, task, err).uid <= FirstVid
      BY <2>1, <2>4
    <3>5. /\ CalledBack(Callback(t, task, err), base, mark, err)
          /\ \A other : TaskOK(other, t.out, t.uid) =>
                 TaskOK(other, Callback(t, task, err).out, Callback(t, task, err).uid)
      BY <2>1, <3>2, <3>3, <3>4, CallbackStep
    <3>6. CalledBack(u, base, mark, err) /\ \A other : TaskOK(other, t.out, t.uid) => TaskOK(other, u.out, u.uid)
      BY <2>1, <3>5, Zenon
    <3> QED BY <3>2, <3>6 DEF u
  <2> QED BY <2>2, <2>3, <2>4 DEF u
<1> HIDE DEF P
<1>3. T = {}
  <2>1. SUFFICES ASSUME T # {} PROVE FALSE
    OBVIOUS
  <2>2. PICK i \in T : \A j \in T : i <= j
    <3>1. T \in SUBSET Nat
      BY <1>0
    <3> HIDE DEF T
    <3> QED BY <2>1, <3>1, LeastNumber
  <2>3. i \in 1 .. n /\ i - 1 \in 0 .. n /\ ~(i <= i - 1)
    BY <1>0, <1>1, <2>2
  <2>4. P(i - 1)
    BY <2>2, <2>3
  <2> QED BY <1>2, <2>2, <2>3, <2>4
<1>4. P(n)
  BY <1>0, <1>3
<1> QED BY <1>4 DEF P

-----------------------------------------------------------------------------
(* The queued reads of the master.                                         *)

\* run is what the callbacks do to the turn T, and d what is left of it in the end.
Dequeues(T, value, err, run, d) ==
    LET tasks == T.readQueue[1].callbacks
        begin == [T EXCEPT !.cache = <<[signature |-> T.counter, value |-> value]>>, !.counter = @ + 1]
        end == [run[Len(tasks)] EXCEPT !.readQueue = <<>>]
    IN  /\ RunOf(run, begin, tasks, Len(tasks), err)
        /\ d = IF end.cache[1].signature = T.counter THEN [end EXCEPT !.cache = <<>>] ELSE end

\* They are called back one after the other: the function that the recursion defines exists, as
\* there is no first number of callbacks for which none does.
LEMMA DequeueBySteps ==
    ASSUME NEW T, NEW value, NEW err, Len(T.readQueue[1].callbacks) \in Nat
    PROVE  \E run : Dequeues(T, value, err, run, Dequeue(T, value, err))
<1> DEFINE tasks == T.readQueue[1].callbacks
           n == Len(tasks)
           begin == [T EXCEPT !.cache = <<[signature |-> T.counter, value |-> value]>>, !.counter = @ + 1]
           Of(m, f) == [i \in 0 .. m |-> IF i = 0 THEN begin ELSE Callback(f[i - 1], tasks[i], err)]
           S == {m \in 0 .. n : ~ \E f : f = Of(m, f)}
           run == CHOOSE f : f = Of(n, f)
           end == [run[n] EXCEPT !.readQueue = <<>>]
<1>0. n \in Nat
  OBVIOUS
<1>1. Dequeue(T, value, err) =
          IF end.cache[1].signature = T.counter THEN [end EXCEPT !.cache = <<>>] ELSE end
  BY Zenon DEF Dequeue
<1> HIDE DEF n, begin, tasks
<1>2. S = {}
  <2>1. SUFFICES ASSUME S # {} PROVE FALSE
    OBVIOUS
  <2>2. PICK m \in S : \A i \in S : m <= i
    <3>1. S \in SUBSET Nat
      BY <1>0
    <3> HIDE DEF S
    <3> QED BY <2>1, <3>1, LeastNumber
  <2>3. m \in Nat /\ m <= n
    BY <1>0
  <2>4. \A f : f # Of(m, f)
    OBVIOUS
  <2>5. CASE m = 0
    <3> DEFINE f == [i \in 0 .. 0 |-> begin]
    <3>1. f = Of(m, f)
      BY <2>5
    <3> QED BY <2>4, <3>1
  <2>6. CASE m # 0
    <3>1. m - 1 \in 0 .. n /\ ~(m <= m - 1)
      BY <1>0, <2>3, <2>6
    <3>2. PICK f : f = Of(m - 1, f)
      BY <2>2, <3>1
    <3> DEFINE g == [i \in 0 .. m |-> IF i = m THEN Callback(f[m - 1], tasks[m], err) ELSE f[i]]
    <3>3. \A i \in 0 .. (m - 1) :
            f[i] = IF i = 0 THEN begin ELSE Callback(f[i - 1], tasks[i], err)
      BY <3>2
    <3>4. \A i \in 0 .. (m - 1) : i \in 0 .. m /\ i # m
      BY <2>3
    <3>5. \A i \in 0 .. (m - 1) : g[i] = f[i]
      BY <3>4
    <3>6. \A i \in 0 .. m : i # 0 => i - 1 \in 0 .. (m - 1)
      BY <2>3
    <3>7. g[m] = Callback(f[m - 1], tasks[m], err) /\ m - 1 \in 0 .. (m - 1)
      BY <2>3, <2>6
    <3> HIDE DEF g
    <3>8. \A i \in 0 .. m : g[i] = IF i = 0 THEN begin ELSE Callback(g[i - 1], tasks[i], err)
      <4>1. ASSUME NEW i \in 0 .. m, i # m
            PROVE  g[i] = IF i = 0 THEN begin ELSE Callback(g[i - 1], tasks[i], err)
        <5>1. i \in 0 .. (m - 1)
          BY <2>3, <4>1
        <5>2. f[i] = IF i = 0 THEN begin ELSE Callback(f[i - 1], tasks[i], err)
          BY <3>3, <5>1
        <5>3. g[i] = f[i] /\ (i # 0 => g[i - 1] = f[i - 1])
          BY <3>5, <3>6, <5>1
        <5> QED BY <5>2, <5>3
      <4>2. g[m] = IF m = 0 THEN begin ELSE Callback(g[m - 1], tasks[m], err)
        BY <2>6, <3>5, <3>7
      <4> QED BY <4>1, <4>2
    <3>9. g = Of(m, g)
      BY <3>8 DEF g
    <3> QED BY <2>4, <3>9
  <2> QED BY <2>5, <2>6
<1>3. \E f : f = Of(n, f)
  BY <1>0, <1>2
<1>4. run = Of(n, run)
  <2> HIDE DEF Of
  <2> QED BY <1>3
<1> HIDE DEF run
<1>5. run[0] = begin
  BY <1>0, <1>4
<1>6. \A i \in 1 .. n : run[i] = Callback(run[i - 1], tasks[i], err)
  BY <1>0, <1>4
<1> HIDE DEF end
<1>7. RunOf(run, begin, tasks, n, err)
  BY <1>0, <1>5, <1>6 DEF RunOf
<1>8. Dequeues(T, value, err, run, Dequeue(T, value, err))
  BY <1>1, <1>7, Zenon DEF Dequeues, n, begin, tasks, end
<1> QED BY <1>8

\* _dequeue() has begun: x is cached, under the next signature.
Caching(u, T, x) == u = [T EXCEPT !.cache = x, !.counter = @ + 1]

\* The value that was read is cached to begin with.
LEMMA CachedIs ==
    ASSUME NEW T, IsTurn(T), NEW x, NEW u, Caching(u, T, x)
    PROVE  /\ IsTurn(u) /\ u.cache = x /\ u.counter = T.counter + 1 /\ u.uid = T.uid
           /\ u.out = T.out /\ u.listing = T.listing
<1> DEFINE y == T.counter + 1
           t1 == [T EXCEPT !.cache = x]
<1>1. HasFields(t1, x, T.readQueue, T.counter, T.uid, T.listQueue, T.listing,
                T.repairTimer, T.got, T.out, T.failed)
  BY FieldChanges DEF IsTurn
<1>2. u = [t1 EXCEPT !.counter = y]
  BY ChangesTogether DEF Caching
<1> HIDE DEF t1, y
<1>3. HasFields([t1 EXCEPT !.counter = y], x, T.readQueue, y, T.uid, T.listQueue, T.listing,
                T.repairTimer, T.got, T.out, T.failed)
  BY <1>1, FieldChanges
<1>4. HasFields(u, x, T.readQueue, y, T.uid, T.listQueue, T.listing, T.repairTimer, T.got, T.out, T.failed)
  BY <1>2, <1>3, Zenon
<1>5. /\ IsTurn(u) /\ u.cache = x /\ u.counter = y /\ u.uid = T.uid /\ u.out = T.out /\ u.listing = T.listing
  BY ONLY <1>4, FieldsAre
<1> QED BY <1>5 DEF y

\* The queue, and the cached value, are dropped in the end.
LEMMA ClearedIs ==
    ASSUME NEW T, IsTurn(T), NEW x
    PROVE  LET u == [T EXCEPT !.readQueue = x]
               v == [u EXCEPT !.cache = x]
           IN  /\ IsTurn(u) /\ u.cache = T.cache /\ u.readQueue = x /\ u.counter = T.counter /\ u.uid = T.uid
               /\ u.out = T.out /\ u.listing = T.listing
               /\ IsTurn(v) /\ v.cache = x /\ v.readQueue = x /\ v.counter = T.counter /\ v.uid = T.uid
               /\ v.out = T.out /\ v.listing = T.listing
<1> DEFINE u == [T EXCEPT !.readQueue = x]
           v == [u EXCEPT !.cache = x]
<1>1. HasFields(u, T.cache, x, T.counter, T.uid, T.listQueue, T.listing,
                T.repairTimer, T.got, T.out, T.failed)
  BY FieldChanges DEF IsTurn
<1> HIDE DEF u
<1>2. HasFields(v, x, x, T.counter, T.uid, T.listQueue, T.listing,
                T.repairTimer, T.got, T.out, T.failed)
  BY <1>1, FieldChanges
<1> HIDE DEF v
<1>3. /\ IsTurn(u) /\ u.cache = T.cache /\ u.readQueue = x /\ u.counter = T.counter /\ u.uid = T.uid
      /\ u.out = T.out /\ u.listing = T.listing
  BY <1>1, FieldsAre
<1>4. /\ IsTurn(v) /\ v.cache = x /\ v.readQueue = x /\ v.counter = T.counter /\ v.uid = T.uid
      /\ v.out = T.out /\ v.listing = T.listing
  BY <1>2, FieldsAre
<1> QED BY <1>3, <1>4 DEF u, v

\* _dequeue() of a turn that has not written.
LEMMA DequeueStep ==
    ASSUME LogsTyped, OnlyVersions, Apart,
           NEW T, IsTurn(T), T.uid \in Nat, T.out = <<>>, TurnOK(T),
           MasterSigs(Flight) = {}, MasterSigs(Gathered(<<>>)) = {},
           Len(T.readQueue[1].callbacks) \in Nat,
           \A i \in 1 .. Len(T.readQueue[1].callbacks) : TaskOK(T.readQueue[1].callbacks[i], <<>>, T.uid),
           NEW value, NEW err \in {"none", "notFound", "other"},
           err # "other" => value = Line(<<>>)[Master] /\ (err = "notFound" => value = NoValue)
    PROVE  LET d == Dequeue(T, value, err)
           IN  /\ IsTurn(d) /\ d.uid \in Nat /\ T.uid <= d.uid /\ d.readQueue = <<>>
               /\ d.uid <= FirstVid => TurnOK(d) /\ CacheOK(d.out, d.cache)
<1> DEFINE mark == T.counter
           c == [signature |-> mark, value |-> value]
           begin == [T EXCEPT !.cache = <<c>>, !.counter = @ + 1]
           tasks == T.readQueue[1].callbacks
           n == Len(tasks)
           d == Dequeue(T, value, err)
<1>0. PICK run : Dequeues(T, value, err, run, d)
  BY DequeueBySteps
<1>1. /\ RunOf(run, begin, tasks, n, err)
      /\ LET end == [run[n] EXCEPT !.readQueue = <<>>]
         IN  d = IF end.cache[1].signature = mark THEN [end EXCEPT !.cache = <<>>] ELSE end
  BY <1>0, Zenon DEF Dequeues
<1>2. /\ c.signature = mark /\ c.value = value /\ <<c>> # <<>> /\ <<c>>[1] = c
  OBVIOUS
<1> DEFINE cs == <<c>>
<1>3. /\ IsTurn(begin) /\ begin.cache = cs /\ begin.counter = mark + 1 /\ begin.uid = T.uid
      /\ begin.out = <<>> /\ begin.listing = T.listing
  <2> HIDE DEF cs, begin
  <2>1. Caching(begin, T, cs)
    BY DEF begin, cs, Caching
  <2>0. IsTurn(T)
    OBVIOUS
  <2>2. /\ IsTurn(begin) /\ begin.cache = cs /\ begin.counter = T.counter + 1 /\ begin.uid = T.uid
        /\ begin.out = T.out /\ begin.listing = T.listing
    BY ONLY <2>0, <2>1, CachedIs, ZenonT(60)
  <2> QED BY <2>2
<1>4. cs # <<>> /\ cs[1] = c /\ cs = <<cs[1]>>
  BY <1>2
<1> HIDE DEF begin, c, cs, d, tasks, n
<1>5. mark \in Nat /\ mark \in Int
  BY DEF TurnOK
<1>6. Sigs(Gathered(<<>>)) \subseteq Nat /\ Sigs(Flight) \subseteq Nat
  <2>1. Gathered(<<>>) \in Seq(VrEntry)
    BY DEF Gathered, LogsTyped
  <2> QED BY <2>1, SigsAre DEF LogsTyped
<1>7. /\ OutOK(<<>>) /\ ImagesOK(<<>>, T.uid) /\ GatheredOK(<<>>) /\ ListingOK(T.listing, <<>>, T.uid)
      /\ SigsOK(<<>>, mark)
  BY DEF TurnOK
<1>8. SigsOK(<<>>, mark + 1)
  <2>1. \A x \in Sigs(Flight) \cup Sigs(Gathered(<<>>)) : x < mark /\ x \in Nat
    BY <1>6, <1>7 DEF SigsOK
  <2>2. \A x \in Sigs(Flight) \cup Sigs(Gathered(<<>>)) : x < mark + 1
    BY <1>5, <2>1
  <2> QED BY <1>7, <2>2 DEF SigsOK
<1>9. mark < mark + 1 /\ mark \notin Sigs(Gathered(<<>>))
  <2>1. \A x \in Sigs(Gathered(<<>>)) : x < mark
    BY <1>7 DEF SigsOK
  <2> QED BY <1>5, <2>1
<1>10. TurnOK(begin)
  BY <1>3, <1>5, <1>7, <1>8 DEF TurnOK
<1>11. CalledBack(begin, {mark}, mark, err)
  <2>1. begin.cache # <<>> /\ begin.cache = <<begin.cache[1]>> /\ begin.cache[1] = c
    BY <1>3, <1>4
  <2>2. err = "notFound" => Told(NoValue, Line(<<>>))
    BY DEF Told
  <2> QED BY <1>2, <1>3, <1>9, <1>10, <2>1, <2>2 DEF CalledBack
<1>12. n \in Nat /\ \A i \in 1 .. n : TaskOK(tasks[i], begin.out, begin.uid)
  BY <1>3 DEF n, tasks
<1>13. /\ IsTurn(run[n]) /\ run[n].uid \in Nat /\ begin.uid <= run[n].uid
       /\ run[n].uid <= FirstVid => CalledBack(run[n], {mark}, mark, err)
  <2>1. begin.uid \in Nat /\ RunOf(run, begin, tasks, n, err)
    BY <1>1, <1>3
  <2> QED BY <1>3, <1>5, <1>11, <1>12, <2>1, CallsStep
<1> DEFINE t == run[n]
           u == [t EXCEPT !.readQueue = <<>>]
           v == [u EXCEPT !.cache = <<>>]
<1>14. d = IF u.cache[1].signature = mark THEN v ELSE u
  BY <1>1
<1> HIDE DEF t
<1>15. /\ IsTurn(t) /\ t.uid \in Nat /\ T.uid <= t.uid
       /\ t.uid <= FirstVid => CalledBack(t, {mark}, mark, err)
  BY <1>3, <1>13 DEF t
<1>16. /\ IsTurn(u) /\ u.cache = t.cache /\ u.readQueue = <<>> /\ u.counter = t.counter /\ u.uid = t.uid
       /\ u.out = t.out /\ u.listing = t.listing
       /\ IsTurn(v) /\ v.cache = <<>> /\ v.readQueue = <<>> /\ v.counter = t.counter /\ v.uid = t.uid
       /\ v.out = t.out /\ v.listing = t.listing
  BY <1>15, ClearedIs
<1> HIDE DEF u, v
<1>17. /\ IsTurn(d) /\ d.readQueue = <<>> /\ d.counter = t.counter /\ d.uid = t.uid
       /\ d.out = t.out /\ d.listing = t.listing
       /\ d.cache = IF t.cache[1].signature = mark THEN <<>> ELSE t.cache
  BY <1>14, <1>16
<1>18. ASSUME d.uid <= FirstVid PROVE TurnOK(d) /\ CacheOK(d.out, d.cache)
  <2>1. CalledBack(t, {mark}, mark, err)
    BY <1>15, <1>17, <1>18
  <2>2. TurnOK(d)
    BY <1>17, <2>1 DEF CalledBack, TurnOK
  <2>3. CASE MasterSigs(Gathered(t.out)) = {}
    <3>1. d.cache = <<>>
      BY <1>17, <2>1, <2>3 DEF CalledBack
    <3> QED BY <1>17, <2>2, <2>3, <3>1 DEF CacheOK
  <2>4. CASE MasterSigs(Gathered(t.out)) # {}
    <3>1. MasterSigs(Gathered(t.out)) \subseteq Sigs(Gathered(t.out))
      BY DEF Sigs, MasterSigs
    <3>2. t.cache[1].signature # mark /\ t.cache[1].signature \in MasterSigs(Gathered(t.out))
      BY <2>1, <2>4, <3>1 DEF CalledBack
    <3>3. t.out # <<>>
      BY <2>4
    <3>4. t.cache # <<>> /\ t.cache = <<t.cache[1]>> /\ t.cache[1].value = Line(t.out)[Master]
      BY <2>1, <3>3 DEF CalledBack
    <3> QED BY <1>17, <2>2, <2>4, <3>2, <3>4 DEF CacheOK
  <2> QED BY <2>3, <2>4
<1> QED BY <1>15, <1>17, <1>18 DEF d

-----------------------------------------------------------------------------
(* The state after a step.                                                 *)

SnapshotIs(rows, uid, d, w, l) == DbOK(rows, uid) /\ Agrees(rows, d) /\ Agrees(rows, w) /\ Agrees(rows, l)

TaskIs(task, uid, d, w, l) ==
    \/ /\ task.req \in Calls[scenario] /\ task = RequestTask(task.req)
       /\ Op[task.req].type \in {"putVersion", "delVersion"}
    \/ \E rows \in Dbs :
           /\ task = RepairTask(rows[Master], LatestIn(rows)) /\ isPHD(rows[Master])
           /\ SnapshotIs(rows, uid, d, w, l)

\* The scenario stays.
LEMMA ScenarioStays ==
    ASSUME scenario' = scenario
    PROVE  /\ \A v : IsPut(v)' <=> IsPut(v)
           /\ Sorted' <=> Sorted
           /\ PutsOnly' <=> PutsOnly
           /\ OnlyVersions' <=> OnlyVersions
           /\ Apart' <=> Apart
<1>1. \A v : IsPut(v)' <=> IsPut(v)
  BY DEF IsPut
<1>2. PutsOnly' <=> PutsOnly
  BY DEF PutsOnly
<1>3. DeletesOnly' <=> DeletesOnly
  BY DEF DeletesOnly
<1>4. LatestOK(InitialDb[scenario])' <=> LatestOK(InitialDb[scenario])
  BY DEF LatestOK
<1>5. Sorted' <=> Sorted
  BY <1>2, <1>3, <1>4 DEF Sorted
<1>6. OnlyVersions' <=> OnlyVersions
  BY DEF OnlyVersions
<1>7. Apart' <=> Apart
  <2>1. Apart' <=> \A r \in Calls[scenario] : Op[r].type = "delVersion" => FirstVid < Op[r].vid /\ ~IsPut(Op[r].vid)'
    BY DEF Apart
  <2> QED BY <1>1, <2>1 DEF Apart
<1> QED BY <1>1, <1>2, <1>5, <1>6, <1>7

\* The images of the next state.
LEMMA ImagesNext ==
    ASSUME scenario' = scenario, NEW d, NEW w, NEW l, NEW dg, NEW wg, NEW lg, NEW uid,
           Disk' = d, Flown' = w, Line(<<>>)' = l, DiskGone' = dg, FlownGone' = wg, LineGone(<<>>)' = lg,
           uidCounter' = uid,
           ImageOK(d, dg, uid), ImageOK(w, wg, uid), ImageOK(l, lg, uid),
           BothAgree(d, w), BothAgree(d, l), BothAgree(w, l)
    PROVE  ImagesOK(<<>>, uidCounter)'
<1>1. \A v : IsPut(v)' <=> IsPut(v)
  BY ScenarioStays
<1>2. (Sorted' <=> Sorted) /\ (PutsOnly' <=> PutsOnly)
  BY ScenarioStays
<1>3. ImageOK(Disk, DiskGone, uidCounter)'
  BY <1>1, <1>2 DEF ImageOK, DbOK, Excludes, SortedOK, LatestOK
<1>4. ImageOK(Flown, FlownGone, uidCounter)'
  BY <1>1, <1>2 DEF ImageOK, DbOK, Excludes, SortedOK, LatestOK
<1>5. ImageOK(Line(<<>>), LineGone(<<>>), uidCounter)'
  BY <1>1, <1>2 DEF ImageOK, DbOK, Excludes, SortedOK, LatestOK
<1>6. BothAgree(Disk, Flown)' /\ BothAgree(Disk, Line(<<>>))' /\ BothAgree(Flown, Line(<<>>))'
  BY <1>1 DEF BothAgree, Agrees
<1> QED BY <1>3, <1>4, <1>5, <1>6 DEF ImagesOK

\* The listing of the next state.
LEMMA ListingNext ==
    ASSUME scenario' = scenario, NEW d, NEW w, NEW l, NEW uid, NEW lst,
           Disk' = d, Flown' = w, Line(<<>>)' = l, uidCounter' = uid, listing' = lst,
           \/ lst = <<>> \/ lst = <<"issued">>
           \/ lst = <<"read", lst[2]>> /\ SnapshotIs(lst[2], uid, d, w, l)
    PROVE  ListingOK(listing, <<>>, uidCounter)'
<1>1. \A v : IsPut(v)' <=> IsPut(v)
  BY ScenarioStays
<1>2. CASE lst = <<"read", lst[2]>> /\ SnapshotIs(lst[2], uid, d, w, l)
  <2>1. SnapshotOK(listing[2], <<>>, uidCounter)'
    BY <1>1, <1>2 DEF SnapshotIs, SnapshotOK, DbOK, Agrees
  <2> QED BY <1>2, <2>1 DEF ListingOK
<1>3. CASE lst = <<>> \/ lst = <<"issued">>
  BY <1>3 DEF ListingOK
<1> QED BY <1>2, <1>3

\* The queue of reads of the next state.
LEMMA ReadNext ==
    ASSUME scenario' = scenario, NEW d, NEW w, NEW l, NEW uid, NEW q,
           Disk' = d, Flown' = w, Line(<<>>)' = l, uidCounter' = uid, readQueue' = q,
           q # <<>> => /\ cache' = <<>> /\ Len(q[1].callbacks) \in Nat
                       /\ \A i \in 1 .. Len(q[1].callbacks) : TaskIs(q[1].callbacks[i], uid, d, w, l)
                       /\ q[1].answer \in {<<>>, <<l[Master]>>}
    PROVE  ReadOK'
<1>1. \A v : IsPut(v)' <=> IsPut(v)
  BY ScenarioStays
<1>2. CASE q = <<>>
  BY <1>2 DEF ReadOK
<1>3. CASE q # <<>>
  <2>1. ASSUME NEW rows, SnapshotIs(rows, uid, d, w, l) PROVE SnapshotOK(rows, <<>>, uidCounter)'
    BY <1>1, <2>1 DEF SnapshotIs, SnapshotOK, DbOK, Agrees
  <2>2. \A i \in 1 .. Len(q[1].callbacks) : TaskOK(readQueue[1].callbacks[i], <<>>, uidCounter)'
    <3>1. SUFFICES ASSUME NEW i \in 1 .. Len(q[1].callbacks)
                   PROVE  TaskOK(readQueue[1].callbacks[i], <<>>, uidCounter)'
      OBVIOUS
    <3>2. PICK task : task = q[1].callbacks[i]
      OBVIOUS
    <3>3. TaskIs(task, uid, d, w, l) /\ (readQueue[1].callbacks[i])' = task
      BY <1>3, <3>2
    <3> QED BY <2>1, <3>3 DEF TaskIs, TaskOK
  <2> QED BY <1>3, <2>2 DEF ReadOK
<1> QED BY <1>2, <1>3

\* The invariant but for its types, of a log a with b to be written, c gathered and f in flight.
StateIs(a, b, c, f, cnt, uid, lst, q, ca) ==
    LET d == Over(a, InitialDb[scenario])
        w == Over(b, d)
        l == Over(c, w)
        gone == GoneIn(a) \cup GoneIn(b)
    IN  /\ cnt \in Nat
        /\ ImageOK(d, GoneIn(a), uid) /\ ImageOK(w, gone, uid) /\ ImageOK(l, gone \cup GoneIn(c), uid)
        /\ BothAgree(d, w) /\ BothAgree(d, l) /\ BothAgree(w, l)
        /\ \/ lst = <<>> \/ lst = <<"issued">>
           \/ lst = <<"read", lst[2]>> /\ SnapshotIs(lst[2], uid, d, w, l)
        /\ q # <<>> => /\ ca = <<>> /\ Len(q[1].callbacks) \in Nat
                       /\ \A i \in 1 .. Len(q[1].callbacks) : TaskIs(q[1].callbacks[i], uid, d, w, l)
                       /\ q[1].answer \in {<<>>, <<l[Master]>>}
        /\ \A e \in Elems(c) : e.value # NoValue => e.value.vid \notin gone
        /\ \A x \in Sigs(f) \cup Sigs(c) : x < cnt
        /\ \A x \in Sigs(f), y \in Sigs(c) : x < y
        /\ \/ ca = <<>> /\ MasterSigs(f) = {} /\ MasterSigs(c) = {}
           \/ /\ ca # <<>> /\ ca = <<ca[1]>> /\ ca[1].value = l[Master]
              /\ IF MasterSigs(c) # {} THEN ca[1].signature \in MasterSigs(c)
                 ELSE ca[1].signature \in MasterSigs(f)

\* What a turn leaves, were it the next state.
LEMMA TurnIs ==
    ASSUME NEW out, NEW cnt, NEW uid, NEW lst, NEW q, NEW ca
    PROVE  StateIs(dbLog, WaitingInFlight, Gathered(out), Flight, cnt, uid, lst, q, ca) <=>
               /\ cnt \in Nat /\ ImagesOK(out, uid) /\ GatheredOK(out) /\ ListingOK(lst, out, uid)
               /\ SigsOK(out, cnt) /\ CacheOK(out, ca)
               /\ q # <<>> => /\ ca = <<>> /\ Len(q[1].callbacks) \in Nat
                              /\ \A i \in 1 .. Len(q[1].callbacks) : TaskOK(q[1].callbacks[i], out, uid)
                              /\ q[1].answer \in {<<>>, <<Line(out)[Master]>>}
<1>1. /\ Over(dbLog, InitialDb[scenario]) = Disk /\ Over(WaitingInFlight, Disk) = Flown
      /\ Over(Gathered(out), Flown) = Line(out)
      /\ GoneIn(dbLog) = DiskGone /\ GoneIn(dbLog) \cup GoneIn(WaitingInFlight) = FlownGone
      /\ FlownGone \cup GoneIn(Gathered(out)) = LineGone(out)
  BY DEF Disk, Flown, Line, DiskGone, FlownGone, LineGone
<1>2. \A rows : SnapshotIs(rows, uid, Disk, Flown, Line(out)) <=> SnapshotOK(rows, out, uid)
  BY DEF SnapshotIs, SnapshotOK
<1>3. \A task : TaskIs(task, uid, Disk, Flown, Line(out)) <=> TaskOK(task, out, uid)
  BY <1>2 DEF TaskIs, TaskOK
<1>4. ListingOK(lst, out, uid) <=> \/ lst = <<>> \/ lst = <<"issued">>
                                   \/ lst = <<"read", lst[2]>> /\ SnapshotIs(lst[2], uid, Disk, Flown, Line(out))
  BY <1>2 DEF ListingOK
<1> DEFINE tasksOK == \A i \in 1 .. Len(q[1].callbacks) : TaskOK(q[1].callbacks[i], out, uid)
<1>5. tasksOK <=> \A i \in 1 .. Len(q[1].callbacks) :
                      TaskIs(q[1].callbacks[i], uid, Disk, Flown, Line(out))
  BY <1>3
<1> HIDE DEF tasksOK
<1>6. StateIs(dbLog, WaitingInFlight, Gathered(out), Flight, cnt, uid, lst, q, ca) <=>
          /\ cnt \in Nat
          /\ ImageOK(Disk, DiskGone, uid) /\ ImageOK(Flown, FlownGone, uid)
          /\ ImageOK(Line(out), LineGone(out), uid)
          /\ BothAgree(Disk, Flown) /\ BothAgree(Disk, Line(out)) /\ BothAgree(Flown, Line(out))
          /\ ListingOK(lst, out, uid)
          /\ q # <<>> => /\ ca = <<>> /\ Len(q[1].callbacks) \in Nat /\ tasksOK
                         /\ q[1].answer \in {<<>>, <<Line(out)[Master]>>}
          /\ GatheredOK(out) /\ SigsOK(out, cnt) /\ CacheOK(out, ca)
  BY <1>1, <1>4, <1>5 DEF StateIs, GatheredOK, SigsOK, CacheOK
<1> QED BY <1>6 DEF ImagesOK, tasksOK

\* The invariant, of the logs of this state.
LEMMA CoreIs ==
    CoreInv <=> /\ LogsTyped /\ RepliesOK
                /\ StateIs(dbLog, WaitingInFlight, WaitingBatch, Flight, counter, uidCounter, listing,
                           readQueue, cache)
<1>1. Gathered(<<>>) = WaitingBatch
  BY DEF Gathered
<1>2. StateIs(dbLog, WaitingInFlight, WaitingBatch, Flight, counter, uidCounter, listing, readQueue, cache) <=>
          /\ counter \in Nat /\ ImagesOK(<<>>, uidCounter) /\ GatheredOK(<<>>)
          /\ ListingOK(listing, <<>>, uidCounter) /\ SigsOK(<<>>, counter) /\ CacheOK(<<>>, cache)
          /\ readQueue # <<>> =>
                 /\ cache = <<>> /\ Len(readQueue[1].callbacks) \in Nat
                 /\ \A i \in 1 .. Len(readQueue[1].callbacks) : TaskOK(readQueue[1].callbacks[i], <<>>, uidCounter)
                 /\ readQueue[1].answer \in {<<>>, <<Line(<<>>)[Master]>>}
  BY <1>1, TurnIs
<1> QED BY <1>2 DEF CoreInv, ReadOK

\* The logs of the next state.
LEMMA LogsNext ==
    ASSUME scenario' = scenario, NEW a, NEW b, NEW c,
           dbLog' = a, WaitingInFlight' = b, WaitingBatch' = c
    PROVE  LET d == Over(a, InitialDb[scenario])
               w == Over(b, d)
               gone == GoneIn(a) \cup GoneIn(b)
           IN  /\ Gathered(<<>>)' = c
               /\ Disk' = d /\ Flown' = w /\ Line(<<>>)' = Over(c, w)
               /\ DiskGone' = GoneIn(a) /\ FlownGone' = gone /\ LineGone(<<>>)' = gone \cup GoneIn(c)
<1>1. Gathered(<<>>)' = c
  BY DEF Gathered
<1>2. Disk' = Over(a, InitialDb[scenario])
  BY DEF Disk, Over, WritesOf, LastOf
<1>3. Flown' = Over(b, Over(a, InitialDb[scenario]))
  BY <1>2 DEF Flown, Over, WritesOf, LastOf
<1>4. Line(<<>>)' = Over(c, Over(b, Over(a, InitialDb[scenario])))
  <2>1. PICK w : w = Over(b, Over(a, InitialDb[scenario]))
    OBVIOUS
  <2>2. WaitingBatch' = c /\ Flown' = w
    BY <1>3, <2>1
  <2>3. Line(<<>>)' = Over(c, w)
    BY ONLY <2>2 DEF Line, Gathered, Over, WritesOf, LastOf
  <2> QED BY <2>1, <2>3
<1>5. DiskGone' = GoneIn(a)
  BY DEF DiskGone, GoneIn, Reqs, Elems
<1>6. FlownGone' = GoneIn(a) \cup GoneIn(b)
  BY <1>5 DEF FlownGone, GoneIn, Reqs, Elems
<1>7. LineGone(<<>>)' = GoneIn(a) \cup GoneIn(b) \cup GoneIn(c)
  BY <1>1, <1>6 DEF LineGone, GoneIn, Reqs, Elems
<1> QED BY <1>1, <1>2, <1>3, <1>4, <1>5, <1>6, <1>7

\* The invariant of the next state.
LEMMA NextCore ==
    ASSUME scenario' = scenario, NEW a, NEW b, NEW c, NEW f, NEW cnt, NEW uid, NEW lst, NEW q, NEW ca,
           dbLog' = a, WaitingInFlight' = b, WaitingBatch' = c, Flight' = f, counter' = cnt,
           uidCounter' = uid, listing' = lst, readQueue' = q, cache' = ca,
           StateIs(a, b, c, f, cnt, uid, lst, q, ca),
           LogsTyped', RepliesOK'
    PROVE  CoreInv'
<1> DEFINE d == Over(a, InitialDb[scenario])
           w == Over(b, d)
           l == Over(c, w)
           gone == GoneIn(a) \cup GoneIn(b)
           lg == gone \cup GoneIn(c)
           ag == GoneIn(a)
<1>1. /\ Gathered(<<>>)' = c
      /\ Disk' = d /\ Flown' = w /\ Line(<<>>)' = l
      /\ DiskGone' = ag /\ FlownGone' = gone /\ LineGone(<<>>)' = lg
  BY LogsNext
<1>2. /\ cnt \in Nat
      /\ ImageOK(d, ag, uid) /\ ImageOK(w, gone, uid) /\ ImageOK(l, lg, uid)
      /\ BothAgree(d, w) /\ BothAgree(d, l) /\ BothAgree(w, l)
      /\ \/ lst = <<>> \/ lst = <<"issued">>
         \/ lst = <<"read", lst[2]>> /\ SnapshotIs(lst[2], uid, d, w, l)
      /\ q # <<>> => /\ ca = <<>> /\ Len(q[1].callbacks) \in Nat
                     /\ \A i \in 1 .. Len(q[1].callbacks) : TaskIs(q[1].callbacks[i], uid, d, w, l)
                     /\ q[1].answer \in {<<>>, <<l[Master]>>}
      /\ \A e \in Elems(c) : e.value # NoValue => e.value.vid \notin gone
      /\ \A x \in Sigs(f) \cup Sigs(c) : x < cnt
      /\ \A x \in Sigs(f), y \in Sigs(c) : x < y
      /\ \/ ca = <<>> /\ MasterSigs(f) = {} /\ MasterSigs(c) = {}
         \/ /\ ca # <<>> /\ ca = <<ca[1]>> /\ ca[1].value = l[Master]
            /\ IF MasterSigs(c) # {} THEN ca[1].signature \in MasterSigs(c)
               ELSE ca[1].signature \in MasterSigs(f)
  BY Zenon DEF StateIs
<1> HIDE DEF d, w, l, gone, lg, ag
<1>3. ImagesOK(<<>>, uidCounter)'
  BY <1>1, <1>2, ImagesNext
<1>4. ListingOK(listing, <<>>, uidCounter)'
  BY <1>1, <1>2, ListingNext
<1>5. ReadOK'
  BY <1>1, <1>2, ReadNext
<1>6. GatheredOK(<<>>)'
  BY <1>1, <1>2 DEF GatheredOK, Elems
<1>7. SigsOK(<<>>, counter)'
  BY <1>1, <1>2 DEF SigsOK, Sigs, Elems
<1>8. CacheOK(<<>>, cache)'
  <2>1. MasterSigs(Gathered(<<>>))' = MasterSigs(c) /\ MasterSigs(Flight)' = MasterSigs(f)
    BY <1>1 DEF MasterSigs, Elems
  <2>2. (Line(<<>>)[Master])' = l[Master]
    BY <1>1
  <2> QED BY <1>2, <2>1, <2>2 DEF CacheOK
<1> QED BY <1>2, <1>3, <1>4, <1>5, <1>6, <1>7, <1>8 DEF CoreInv

-----------------------------------------------------------------------------
(* A turn becomes the next state.                                          *)

\* The reads of the master that wait, after a turn.
QueueOK(T) ==
    T.readQueue # <<>> => /\ T.cache = <<>> /\ Len(T.readQueue[1].callbacks) \in Nat
                          /\ \A i \in 1 .. Len(T.readQueue[1].callbacks) :
                                 TaskOK(T.readQueue[1].callbacks[i], T.out, T.uid)
                          /\ T.readQueue[1].answer \in {<<>>, <<Line(T.out)[Master]>>}

\* What a turn hands out is gathered behind what was.
LEMMA FinishGathers ==
    ASSUME LogsTyped, NEW T, OutOK(T.out), Finish(T)
    PROVE  /\ WaitingBatch' = Gathered(T.out) /\ Gathered(T.out) \in Seq(VrEntry)
           /\ batchCache' \in {<<>>, <<Gathered(T.out)>>}
<1>1. WaitingBatch \in Seq(VrEntry) /\ batchCache \in {<<>>, <<WaitingBatch>>}
  BY DEF LogsTyped
<1>2. CASE T.out = <<>>
  <2>1. batchCache' = batchCache /\ Gathered(T.out) = WaitingBatch
    BY <1>2 DEF Finish, Gathered
  <2>2. WaitingBatch' = WaitingBatch
    BY <2>1 DEF WaitingBatch
  <2> QED BY <1>1, <2>1, <2>2
<1>3. CASE T.out # <<>>
  <2> DEFINE x == T.out[1]
             g == WaitingBatch \o x
  <2>1. x \in Seq(VrEntry) /\ Gathered(T.out) = g
    BY <1>3 DEF OutOK, Gathered
  <2>2. g \in Seq(VrEntry)
    BY <1>1, <2>1, ConcatProperties
  <2>3. batchCache' = IF batchCache = <<>> THEN <<x>> ELSE <<batchCache[1] \o x>>
    BY <1>3 DEF Finish, WgAppend
  <2>4. batchCache = <<>> => WaitingBatch = <<>> /\ g = x
    BY <2>1, ConcatEmptySeq DEF WaitingBatch
  <2>5. batchCache # <<>> => WaitingBatch = batchCache[1]
    BY DEF WaitingBatch
  <2>6. batchCache' = <<g>>
    BY <2>3, <2>4, <2>5
  <2> HIDE DEF g
  <2>7. <<g>> # <<>> /\ <<g>>[1] = g
    OBVIOUS
  <2>8. WaitingBatch' = g
    BY <2>6, <2>7 DEF WaitingBatch
  <2> QED BY <2>1, <2>2, <2>6, <2>8
<1> QED BY <1>2, <1>3

\* A turn that is as good as the state makes a state that is.
LEMMA FinishStep ==
    ASSUME CoreInv, NEW T, TurnOK(T), CacheOK(T.out, T.cache), QueueOK(T), Finish(T)
    PROVE  CoreInv'
<1>1. LogsTyped /\ RepliesOK
  BY DEF CoreInv
<1>2. OutOK(T.out)
  BY DEF TurnOK
<1> DEFINE c == Gathered(T.out)
<1>3. WaitingBatch' = c /\ c \in Seq(VrEntry) /\ batchCache' \in {<<>>, <<c>>}
  BY <1>1, <1>2, FinishGathers
<1> HIDE DEF c
<1>4. UNCHANGED <<scenario, inFlight, applied, dbLog>>
  BY DEF Finish
<1>5. Flight' = Flight /\ WaitingInFlight' = WaitingInFlight
  BY <1>4 DEF Flight, WaitingInFlight, isCommitting
<1>6. LogsTyped'
  BY <1>1, <1>3, <1>4, <1>5 DEF LogsTyped
<1>7. RepliesOK'
  <2>1. replies' = [r \in Requests |-> IF r \in T.failed THEN Append(replies[r], "error") ELSE replies[r]]
    BY DEF Finish
  <2>2. replies \in [Requests -> Seq({"ok", "error"})]
    BY <1>1 DEF RepliesOK
  <2>3. ASSUME NEW r \in Requests
        PROVE  /\ replies'[r] \in Seq({"ok", "error"})
               /\ replies'[r] = <<"ok">> => replies[r] = <<"ok">>
    <3>1. replies[r] \in Seq({"ok", "error"})
      BY <2>2
    <3>2. PICK s : s = replies[r]
      OBVIOUS
    <3>3. s \in Seq({"ok", "error"})
      BY <3>1, <3>2
    <3>4. /\ Append(s, "error") \in Seq({"ok", "error"})
          /\ Append(s, "error") # <<"ok">>
      <4>1. "error" \in {"ok", "error"}
        OBVIOUS
      <4>2. /\ Append(s, "error") \in Seq({"ok", "error"})
            /\ Append(s, "error")[Len(s) + 1] = "error"
            /\ Len(Append(s, "error")) = Len(s) + 1
        BY <3>3, <4>1, AppendProperties
      <4>3. <<"ok">>[1] = "ok" /\ Len(<<"ok">>) = 1 /\ "ok" # "error"
        OBVIOUS
      <4>4. Len(s) \in Nat
        BY <3>3, LenProperties
      <4> QED BY <4>2, <4>3, <4>4
    <3> QED BY <2>1, <3>2, <3>3, <3>4
  <2>4. replies' \in [Requests -> Seq({"ok", "error"})]
    BY <2>1, <2>3
  <2>5. Reqs(dbLog)' = Reqs(dbLog) /\ Reqs(Flight)' = Reqs(Flight)
    BY <1>4, <1>5 DEF Reqs, Elems
  <2> QED BY <1>1, <1>4, <2>3, <2>4, <2>5 DEF RepliesOK
<1>8. StateIs(dbLog, WaitingInFlight, Gathered(T.out), Flight, T.counter, T.uid, T.listing, T.readQueue, T.cache)
  BY TurnIs DEF TurnOK, QueueOK
<1>9. /\ counter' = T.counter /\ uidCounter' = T.uid /\ listing' = T.listing
      /\ readQueue' = T.readQueue /\ cache' = T.cache
  BY DEF Finish
<1> QED BY <1>3, <1>4, <1>5, <1>6, <1>7, <1>8, <1>9, NextCore DEF c

-----------------------------------------------------------------------------
(* The turns of the actions, whatever they read.                           *)

\* A turn before anything is done.
LEMMA TurnBegins ==
    HasFields(Turn, cache, readQueue, counter, uidCounter, listQueue, listing, repairTimer, got, <<>>, {})
BY DEF Turn, HasFields

\* A queue of reads and the one that a callback has joined.
Joins(q0, q, task) ==
    \E S, s, x : /\ s \in Seq(S) /\ q = <<[callbacks |-> Append(s, task), answer |-> x]>>
                 /\ \/ q0 = <<>> /\ s = <<>> /\ x = <<>>
                    \/ q0 = <<[callbacks |-> s, answer |-> x]>>

\* A read of the master is called back at once, or queued.
LEMMA CacheGetIs ==
    ASSUME NEW T, IsTurn(T), QueueTyped(T.readQueue), NEW task
    PROVE  LET u == CacheGet(T, task)
           IN  /\ T.cache # <<>> => u = Callback(T, task, "none")
               /\ T.cache = <<>> =>
                      /\ IsTurn(u) /\ u.uid = T.uid /\ u.cache = T.cache /\ u.counter = T.counter
                      /\ u.out = T.out /\ u.listing = T.listing
                      /\ Joins(T.readQueue, u.readQueue, task)
<1> DEFINE u == CacheGet(T, task)
<1>1. ASSUME T.cache # <<>> PROVE u = Callback(T, task, "none")
  BY <1>1 DEF CacheGet
<1>2. ASSUME T.cache = <<>>
      PROVE  /\ IsTurn(u) /\ u.uid = T.uid /\ u.cache = T.cache /\ u.counter = T.counter
             /\ u.out = T.out /\ u.listing = T.listing
             /\ Joins(T.readQueue, u.readQueue, task)
  <2> DEFINE Same(q) == /\ u = [T EXCEPT !.readQueue = q]
                        /\ IsTurn(u) /\ u.uid = T.uid /\ u.cache = T.cache /\ u.counter = T.counter
                        /\ u.out = T.out /\ u.listing = T.listing /\ u.readQueue = q
  <2>1. ASSUME NEW q, u = [T EXCEPT !.readQueue = q] PROVE Same(q)
    <3> HIDE DEF u
    <3>1. HasFields(u, T.cache, q, T.counter, T.uid, T.listQueue, T.listing,
                    T.repairTimer, T.got, T.out, T.failed)
      BY <2>1, FieldChanges DEF IsTurn
    <3>2. /\ IsTurn(u) /\ u.uid = T.uid /\ u.cache = T.cache /\ u.counter = T.counter
          /\ u.out = T.out /\ u.listing = T.listing /\ u.readQueue = q
      BY <3>1, FieldsAre
    <3> QED BY <2>1, <3>2
  <2>2. CASE T.readQueue = <<>>
    <3> DEFINE q == <<[callbacks |-> <<task>>, answer |-> <<>>]>>
    <3>1. u = [T EXCEPT !.readQueue = q]
      BY <1>2, <2>2 DEF CacheGet
    <3>2. Same(q)
      BY <2>1, <3>1
    <3>3. <<task>> = Append(<<>>, task) /\ <<>> \in Seq({})
      OBVIOUS
    <3>4. Joins(T.readQueue, q, task)
      BY <2>2, <3>3, Zenon DEF Joins
    <3> QED BY <3>2, <3>4
  <2>3. CASE T.readQueue # <<>>
    <3>1. PICK S, s, x : s \in Seq(S) /\ T.readQueue = <<[callbacks |-> s, answer |-> x]>>
      BY <2>3 DEF QueueTyped
    <3> DEFINE z == [callbacks |-> Append(s, task), answer |-> x]
               q == <<z>>
    <3>2. u = [T EXCEPT !.readQueue = <<Joined(T.readQueue[1], task)>>]
      BY <1>2, <2>3, Zenon DEF CacheGet
    <3>3. Joined([callbacks |-> s, answer |-> x], task) = z
      BY DEF Joined
    <3>4. T.readQueue[1] = [callbacks |-> s, answer |-> x]
      BY <3>1
    <3> HIDE DEF u, z
    <3>6. u = [T EXCEPT !.readQueue = q]
      BY <3>2, <3>3, <3>4, Zenon
    <3>7. Same(q)
      BY <2>1, <3>6
    <3> HIDE DEF q
    <3>8. /\ IsTurn(u) /\ u.uid = T.uid /\ u.cache = T.cache /\ u.counter = T.counter
          /\ u.out = T.out /\ u.listing = T.listing /\ u.readQueue = q
      BY <3>7
    <3>9. Joins(T.readQueue, q, task)
      BY <3>1, Zenon DEF Joins, q, z
    <3> QED BY <3>8, <3>9, Zenon DEF u
  <2> QED BY <2>2, <2>3
<1> QED BY <1>1, <1>2

\* The version ids only grow, and the queue stays one.
TurnShape(T, uid) == IsTurn(T) /\ T.uid \in Nat /\ uid <= T.uid /\ QueueTyped(T.readQueue)

\* A read of the master leaves a turn.
LEMMA CacheGetShape ==
    ASSUME NEW T, NEW uid \in Nat, TurnShape(T, uid), NEW task
    PROVE  TurnShape(CacheGet(T, task), uid)
<1> DEFINE u == CacheGet(T, task)
<1>1. IsTurn(T) /\ T.uid \in Nat /\ uid <= T.uid /\ QueueTyped(T.readQueue)
  BY DEF TurnShape
<1>2. CASE T.cache # <<>>
  <2> DEFINE v == Callback(T, task, "none")
  <2>1. u = v
    BY <1>1, <1>2, CacheGetIs
  <2>2. IsTurn(v) /\ v.uid \in {T.uid, T.uid + 1} /\ v.readQueue = T.readQueue
    BY <1>1, CallbackShape
  <2> HIDE DEF u, v
  <2>3. TurnShape(u, uid)
    BY <1>1, <2>1, <2>2 DEF TurnShape
  <2> QED BY <2>3 DEF u
<1>3. CASE T.cache = <<>>
  <2>0. IsTurn(T) /\ QueueTyped(T.readQueue)
    BY <1>1
  <2>1. /\ IsTurn(u) /\ u.uid = T.uid /\ u.cache = T.cache /\ u.counter = T.counter
        /\ u.out = T.out /\ u.listing = T.listing
        /\ Joins(T.readQueue, u.readQueue, task)
    BY <2>0, <1>3, CacheGetIs, Zenon
  <2> HIDE DEF u
  <2>2. PICK S, s, x : s \in Seq(S) /\ u.readQueue = <<[callbacks |-> Append(s, task), answer |-> x]>>
    BY <2>1 DEF Joins
  <2>3. Append(s, task) \in Seq(S \cup {task})
    <3>1. s \in Seq(S \cup {task})
      BY <2>2
    <3> QED BY <3>1, AppendProperties
  <2>4. QueueTyped(u.readQueue)
    BY <2>2, <2>3 DEF QueueTyped
  <2>5. TurnShape(u, uid)
    BY <1>1, <2>1, <2>4 DEF TurnShape
  <2> QED BY <2>5 DEF u
<1> QED BY <1>2, <1>3

\* The queued callbacks leave a turn, and no queue.
LEMMA DequeueShape ==
    ASSUME NEW T, NEW uid \in Nat, TurnShape(T, uid), T.readQueue # <<>>, NEW value, NEW err
    PROVE  LET d == Dequeue(T, value, err)
           IN  TurnShape(d, uid) /\ d.readQueue = <<>>
<1> DEFINE mark == T.counter
           c == [signature |-> mark, value |-> value]
           cs == <<c>>
           begin == [T EXCEPT !.cache = cs, !.counter = @ + 1]
           tasks == T.readQueue[1].callbacks
           n == Len(tasks)
           d == Dequeue(T, value, err)
<1>1. IsTurn(T) /\ T.uid \in Nat /\ uid <= T.uid
  BY DEF TurnShape
<1>2. n \in Nat
  <2>1. PICK S, s, x : s \in Seq(S) /\ T.readQueue = <<[callbacks |-> s, answer |-> x]>>
    BY DEF TurnShape, QueueTyped
  <2>2. tasks = s
    BY <2>1
  <2> QED BY <2>1, <2>2, LenProperties
<1>3. PICK run : Dequeues(T, value, err, run, d)
  BY <1>2, DequeueBySteps
<1>4. /\ RunOf(run, begin, tasks, n, err)
      /\ LET end == [run[n] EXCEPT !.readQueue = <<>>]
         IN  d = IF end.cache[1].signature = mark THEN [end EXCEPT !.cache = <<>>] ELSE end
  BY <1>3, Zenon DEF Dequeues
<1> HIDE DEF cs
<1>5. IsTurn(begin) /\ begin.uid = T.uid
  <2>1. Caching(begin, T, cs)
    BY DEF Caching
  <2> HIDE DEF begin
  <2>2. IsTurn(T)
    BY <1>1
  <2>3. /\ IsTurn(begin) /\ begin.cache = cs /\ begin.counter = T.counter + 1 /\ begin.uid = T.uid
        /\ begin.out = T.out /\ begin.listing = T.listing
    BY ONLY <2>1, <2>2, CachedIs, ZenonT(60)
  <2> QED BY <2>3
<1> HIDE DEF begin, tasks, n
<1> DEFINE P(i) == IsTurn(run[i]) /\ run[i].uid \in Nat /\ uid <= run[i].uid
           S == {i \in 0 .. n : ~P(i)}
<1>6. /\ run[0] = begin
      /\ \A i \in 1 .. n : run[i] = Callback(run[i - 1], tasks[i], err)
  BY <1>4 DEF RunOf
<1>7. P(0)
  BY <1>1, <1>5, <1>6
<1>8. ASSUME NEW i \in 1 .. n, P(i - 1) PROVE P(i)
  <2> DEFINE t == run[i - 1]
             u == run[i]
             task == tasks[i]
  <2>1. u = Callback(t, task, err) /\ IsTurn(t) /\ t.uid \in Nat /\ uid <= t.uid
    BY <1>6, <1>8
  <2> HIDE DEF t, u, task
  <2>2. IsTurn(u) /\ u.uid \in {t.uid, t.uid + 1}
    BY <2>1, CallbackShape
  <2>3. u.uid \in Nat /\ uid <= u.uid
    BY <2>1, <2>2
  <2> QED BY <2>2, <2>3 DEF u
<1> HIDE DEF P
<1>9. S = {}
  <2>1. SUFFICES ASSUME S # {} PROVE FALSE
    OBVIOUS
  <2>2. PICK i \in S : \A j \in S : i <= j
    <3>1. S \in SUBSET Nat
      BY <1>2
    <3> HIDE DEF S
    <3> QED BY <2>1, <3>1, LeastNumber
  <2>3. i \in 1 .. n /\ i - 1 \in 0 .. n /\ ~(i <= i - 1)
    BY <1>2, <1>7, <2>2
  <2>4. P(i - 1)
    BY <2>2, <2>3
  <2> QED BY <1>8, <2>2, <2>3, <2>4
<1>10. P(n)
  BY <1>2, <1>9
<1> DEFINE t == run[n]
           u == [t EXCEPT !.readQueue = <<>>]
           v == [u EXCEPT !.cache = <<>>]
<1>11. d = IF u.cache[1].signature = mark THEN v ELSE u
  BY <1>4
<1>12. IsTurn(t) /\ t.uid \in Nat /\ uid <= t.uid
  BY <1>10 DEF P
<1> HIDE DEF t
<1>13. /\ IsTurn(u) /\ u.cache = t.cache /\ u.readQueue = <<>> /\ u.counter = t.counter /\ u.uid = t.uid
       /\ u.out = t.out /\ u.listing = t.listing
       /\ IsTurn(v) /\ v.cache = <<>> /\ v.readQueue = <<>> /\ v.counter = t.counter /\ v.uid = t.uid
       /\ v.out = t.out /\ v.listing = t.listing
  BY <1>12, ClearedIs
<1> HIDE DEF u, v, d
<1>14. d \in {u, v}
  BY <1>11
<1>15. IsTurn(d) /\ d.readQueue = <<>> /\ d.uid = t.uid
  BY <1>13, <1>14
<1> QED BY <1>12, <1>15 DEF TurnShape, QueueTyped, d

-----------------------------------------------------------------------------
(* The actions that are turns.                                             *)

\* A step preserves the invariant; version ids that have not run out after it had not before.
Steps ==
    /\ scenario' = scenario
    /\ uidCounter' \in Nat /\ uidCounter <= uidCounter' /\ QueueTyped(readQueue)'
    /\ CoreInv /\ Apart /\ uidCounter' <= FirstVid => CoreInv'

\* A turn that is as good as the state steps.
LEMMA TurnDone ==
    ASSUME uidCounter \in Nat, NEW T, TurnShape(T, uidCounter), Finish(T),
           CoreInv /\ Apart /\ T.uid <= FirstVid => TurnOK(T) /\ CacheOK(T.out, T.cache) /\ QueueOK(T)
    PROVE  Steps
<1>1. scenario' = scenario /\ uidCounter' = T.uid /\ readQueue' = T.readQueue
  BY DEF Finish
<1>2. T.uid \in Nat /\ uidCounter <= T.uid /\ QueueTyped(T.readQueue)
  BY DEF TurnShape
<1>3. QueueTyped(readQueue)'
  BY <1>1, <1>2 DEF QueueTyped
<1>4. ASSUME CoreInv, Apart, T.uid <= FirstVid PROVE CoreInv'
  BY <1>4, FinishStep
<1> QED BY <1>1, <1>2, <1>3, <1>4 DEF Steps

\* Whatever happened to the gets, the state is that of the turn.
Begun(T) ==
    /\ IsTurn(T) /\ T.cache = cache /\ T.counter = counter /\ T.uid = uidCounter /\ T.out = <<>>
    /\ T.readQueue = readQueue /\ T.listing \in {listing, <<>>, <<"issued">>}

\* Such a turn is as good as the state.
LEMMA BegunIs ==
    ASSUME NEW T, Begun(T)
    PROVE  /\ uidCounter \in Nat /\ QueueTyped(readQueue) => TurnShape(T, uidCounter)
           /\ CoreInv => TurnOK(T) /\ CacheOK(T.out, T.cache) /\ QueueOK(T)
<1>1. ASSUME uidCounter \in Nat, QueueTyped(readQueue) PROVE TurnShape(T, uidCounter)
  BY <1>1 DEF Begun, TurnShape
<1>2. ASSUME CoreInv PROVE TurnOK(T) /\ CacheOK(T.out, T.cache) /\ QueueOK(T)
  <2>1. ListingOK(T.listing, <<>>, uidCounter)
    BY <1>2 DEF Begun, CoreInv, ListingOK
  <2>2. TurnOK(T)
    BY <1>2, <2>1 DEF Begun, CoreInv, TurnOK, OutOK
  <2>3. QueueOK(T)
    BY <1>2 DEF Begun, CoreInv, ReadOK, QueueOK
  <2>4. CacheOK(T.out, T.cache)
    BY <1>2 DEF Begun, CoreInv
  <2> QED BY <2>2, <2>3, <2>4
<1> QED BY <1>1, <1>2

\* A callback that does not wait leaves the cached value of the last write.
LEMMA CachedStep ==
    ASSUME CoreInv, OnlyVersions, Apart, uidCounter \in Nat, NEW T, Begun(T), T.cache # <<>>,
           NEW task, TaskOK(task, <<>>, uidCounter), Callback(T, task, "none").uid <= FirstVid
    PROVE  LET u == Callback(T, task, "none")
           IN  TurnOK(u) /\ CacheOK(u.out, u.cache) /\ QueueOK(u)
<1> DEFINE u == Callback(T, task, "none")
           mark == 0 - 1
           base == MasterSigs(Flight)
<1>1. /\ IsTurn(T) /\ T.cache = cache /\ T.counter = counter /\ T.uid = uidCounter /\ T.out = <<>>
      /\ T.readQueue = readQueue
  BY DEF Begun
<1>2. TurnOK(T) /\ CacheOK(<<>>, cache) /\ readQueue = <<>> /\ LogsTyped
  BY <1>1, BegunIs DEF CoreInv, ReadOK
<1>3. Gathered(<<>>) \in Seq(VrEntry)
  BY <1>2 DEF Gathered, LogsTyped
<1>4. \A x \in Sigs(Gathered(<<>>)) : x \in Nat
  <2>1. \A e \in Elems(Gathered(<<>>)) : e \in VrEntry
    BY <1>3 DEF Elems
  <2> QED BY <2>1 DEF Sigs, VrEntry
<1>5. mark \in Int /\ mark < counter /\ mark \notin Sigs(Gathered(<<>>))
  <2>1. counter \in Nat
    BY DEF CoreInv
  <2> QED BY <1>4, <2>1
<1> HIDE DEF mark
<1>6. CalledBack(T, base, mark, "none")
  <2>1. /\ cache # <<>> /\ cache = <<cache[1]>> /\ cache[1].value = Line(<<>>)[Master]
        /\ IF MasterSigs(Gathered(<<>>)) # {} THEN cache[1].signature \in MasterSigs(Gathered(<<>>))
           ELSE cache[1].signature \in base
    BY <1>1, <1>2 DEF CacheOK
  <2> QED BY <1>1, <1>2, <1>5, <2>1 DEF CalledBack
<1>7. CalledBack(u, base, mark, "none")
  <2>1. T.uid \in Nat /\ TaskOK(task, T.out, T.uid) /\ "none" \in {"none", "notFound", "other"}
    BY <1>1
  <2>2. /\ CalledBack(u, base, mark, "none")
        /\ \A other : TaskOK(other, T.out, T.uid) => TaskOK(other, u.out, u.uid)
    BY <1>1, <1>2, <1>5, <1>6, <2>1, CallbackStep
  <2> QED BY <2>2
<1>8. u.readQueue = <<>>
  <2>1. IsTurn(u) /\ u.uid \in {T.uid, T.uid + 1} /\ u.readQueue = T.readQueue
    BY <1>1, CallbackShape
  <2> QED BY <1>1, <1>2, <2>1
<1> HIDE DEF u
<1>9. TurnOK(u) /\ CacheOK(u.out, u.cache) /\ QueueOK(u)
  BY <1>7, <1>8 DEF CalledBack, CacheOK, QueueOK
<1> QED BY <1>9 DEF u

\* get() of the master, of the write cache.
LEMMA CacheGetStep ==
    ASSUME CoreInv, OnlyVersions, Apart, uidCounter \in Nat, QueueTyped(readQueue), NEW T, Begun(T),
           NEW task, TaskOK(task, <<>>, uidCounter), CacheGet(T, task).uid <= FirstVid
    PROVE  LET u == CacheGet(T, task)
           IN  TurnOK(u) /\ CacheOK(u.out, u.cache) /\ QueueOK(u)
<1> DEFINE u == CacheGet(T, task)
<1>1. /\ IsTurn(T) /\ T.cache = cache /\ T.counter = counter /\ T.uid = uidCounter /\ T.out = <<>>
      /\ T.readQueue = readQueue /\ QueueTyped(T.readQueue)
  BY DEF Begun
<1>2. CASE T.cache # <<>>
  <2> DEFINE v == Callback(T, task, "none")
  <2>1. u = v
    BY <1>1, <1>2, CacheGetIs
  <2>2. v.uid <= FirstVid
    BY <2>1
  <2>3. TurnOK(v) /\ CacheOK(v.out, v.cache) /\ QueueOK(v)
    BY <1>2, <2>2, CachedStep
  <2> HIDE DEF u, v
  <2>4. TurnOK(u) /\ CacheOK(u.out, u.cache) /\ QueueOK(u)
    BY <2>1, <2>3
  <2> QED BY <2>4 DEF u
<1>3. CASE T.cache = <<>>
  <2>1. /\ IsTurn(u) /\ u.uid = T.uid /\ u.cache = T.cache /\ u.counter = T.counter
        /\ u.out = T.out /\ u.listing = T.listing
        /\ Joins(T.readQueue, u.readQueue, task)
    BY <1>1, <1>3, CacheGetIs
  <2> HIDE DEF u
  <2>2. TurnOK(T) /\ CacheOK(T.out, T.cache) /\ QueueOK(T)
    BY BegunIs
  <2>3. TurnOK(u) /\ CacheOK(u.out, u.cache)
    BY <2>1, <2>2 DEF TurnOK
  <2>4. PICK S, s, x : /\ s \in Seq(S)
                       /\ u.readQueue = <<[callbacks |-> Append(s, task), answer |-> x]>>
                       /\ \/ T.readQueue = <<>> /\ s = <<>> /\ x = <<>>
                          \/ T.readQueue = <<[callbacks |-> s, answer |-> x]>>
    BY <2>1, Zenon DEF Joins
  <2> DEFINE y == Append(s, task)
             e == [callbacks |-> y, answer |-> x]
  <2>5. u.readQueue[1].callbacks = y /\ u.readQueue[1].answer = x
    BY <2>4
  <2>6. /\ Len(y) \in Nat
        /\ \A i \in 1 .. Len(y) : y[i] = task \/ (i \in 1 .. Len(s) /\ y[i] = s[i])
    <3>1. s \in Seq(S \cup {task}) /\ task \in S \cup {task}
      BY <2>4
    <3>2. /\ Len(y) = Len(s) + 1 /\ \A i \in 1 .. Len(s) : y[i] = s[i]
          /\ y[Len(s) + 1] = task
      BY <3>1, AppendProperties
    <3>3. Len(s) \in Nat
      BY <2>4, LenProperties
    <3> HIDE DEF y
    <3> QED BY <3>2, <3>3
  <2>7. \A i \in 1 .. Len(s) : TaskOK(s[i], <<>>, uidCounter)
    <3>1. CASE s = <<>>
      BY <3>1
    <3>2. CASE T.readQueue = <<[callbacks |-> s, answer |-> x]>>
      <4>1. T.readQueue # <<>> /\ T.readQueue[1].callbacks = s
        BY <3>2
      <4> QED BY <1>1, <2>2, <4>1 DEF QueueOK
    <3> QED BY <2>4, <3>1, <3>2
  <2>8. x \in {<<>>, <<Line(<<>>)[Master]>>}
    <3>1. CASE x = <<>>
      BY <3>1
    <3>2. CASE T.readQueue = <<[callbacks |-> s, answer |-> x]>>
      <4>1. T.readQueue # <<>> /\ T.readQueue[1].answer = x
        BY <3>2
      <4> QED BY <1>1, <2>2, <4>1 DEF QueueOK
    <3> QED BY <2>4, <3>1, <3>2
  <2> HIDE DEF y
  <2>9. \A i \in 1 .. Len(y) : TaskOK(y[i], u.out, u.uid)
    BY <1>1, <2>1, <2>6, <2>7
  <2>10. QueueOK(u)
    BY <1>1, <1>3, <2>1, <2>5, <2>6, <2>8, <2>9 DEF QueueOK
  <2> QED BY <2>3, <2>10 DEF u
<1> QED BY <1>2, <1>3

\* A turn begins with the state.
LEMMA TurnHasBegun == Begun(Turn)
<1> DEFINE t == Turn
<1>1. HasFields(t, cache, readQueue, counter, uidCounter, listQueue, listing, repairTimer, got, <<>>, {})
  BY TurnBegins
<1> HIDE DEF t
<1>2. Begun(t)
  BY <1>1, FieldsAre DEF Begun
<1> QED BY <1>2 DEF t

\* put() and del() of a version.
LEMMA VersionRequestSteps ==
    ASSUME OnlyVersions, uidCounter \in Nat, QueueTyped(readQueue), NEW r \in Requests, VersionRequest(r)
    PROVE  Steps
<1>1. r \in Calls[scenario] /\ Op[r].type \in {"putVersion", "delVersion"}
  BY DEF VersionRequest, Start
<1> DEFINE t == Turn
           task == RequestTask(r)
           u == CacheGet(t, task)
<1>2. Finish(u)
  BY DEF VersionRequest
<1>3. Begun(t)
  BY TurnHasBegun
<1>4. TaskOK(task, <<>>, uidCounter)
  <2>1. task.req = r
    BY DEF RequestTask
  <2> HIDE DEF task
  <2>2. task = RequestTask(task.req)
    BY <2>1 DEF task
  <2> QED BY <1>1, <2>1, <2>2 DEF TaskOK
<1> HIDE DEF t, task
<1>5. TurnShape(t, uidCounter)
  BY <1>3, BegunIs
<1>6. TurnShape(u, uidCounter)
  BY <1>5, CacheGetShape
<1>7. ASSUME CoreInv, Apart, u.uid <= FirstVid PROVE TurnOK(u) /\ CacheOK(u.out, u.cache) /\ QueueOK(u)
  BY <1>3, <1>4, <1>7, CacheGetStep
<1> HIDE DEF u
<1> QED BY <1>2, <1>6, <1>7, TurnDone

\* What is stored is what the log makes of the database.
LEMMA StoredIs ==
    \A k \in Keys : Stored(k) = Disk[k]
<1>1. SUFFICES ASSUME NEW k \in Keys PROVE Stored(k) = Disk[k]
  OBVIOUS
<1>2. Disk[k] = IF WritesOf(dbLog, k) = {} THEN InitialDb[scenario][k] ELSE dbLog[LastOf(WritesOf(dbLog, k))].value
  BY DEF Disk, Over
<1> QED BY <1>2, Zenon DEF Stored, WritesOf, LastOf

\* Entries that do not write the master leave it.
LEMMA NoMasterWrites ==
    ASSUME NEW log, MasterSigs(log) = {}, NEW f
    PROVE  Over(log, f)[Master] = f[Master]
<1>1. WritesOf(log, Master) = {}
  <2>1. ASSUME NEW i \in WritesOf(log, Master) PROVE FALSE
    <3>1. log[i] \in Elems(log) /\ log[i].key = Master
      BY <2>1 DEF WritesOf, Elems
    <3>2. log[i].signature \in MasterSigs(log)
      BY <3>1 DEF MasterSigs
    <3> QED BY <3>2
  <2> QED BY <2>1
<1>2. Master \in Keys
  BY Parameters
<1> QED BY <1>1, <1>2 DEF Over

\* Nothing cached, nothing on its way: the database has what will be the master.
LEMMA NothingCached ==
    ASSUME CoreInv, cache = <<>>
    PROVE  /\ MasterSigs(Flight) = {} /\ MasterSigs(Gathered(<<>>)) = {}
           /\ Stored(Master) = Line(<<>>)[Master]
<1>1. MasterSigs(Flight) = {} /\ MasterSigs(Gathered(<<>>)) = {}
  BY DEF CoreInv, CacheOK
<1>2. MasterSigs(WaitingInFlight) = {}
  <2>1. CASE isCommitting /\ ~applied
    BY <1>1, <2>1 DEF WaitingInFlight, Flight, isCommitting
  <2>2. CASE ~(isCommitting /\ ~applied)
    BY <2>2 DEF WaitingInFlight, MasterSigs, Elems
  <2> QED BY <2>1, <2>2
<1>3. Line(<<>>)[Master] = Flown[Master] /\ Flown[Master] = Disk[Master]
  BY <1>1, <1>2, NoMasterWrites DEF Line, Flown
<1>4. Stored(Master) = Disk[Master]
  BY StoredIs, Parameters
<1> QED BY <1>1, <1>3, <1>4

\* The manager is left alone.
LEMMA ManagerStays ==
    ASSUME scenario' = scenario, UNCHANGED wgVars, LogsTyped, RepliesOK
    PROVE  /\ LogsTyped' /\ RepliesOK' /\ dbLog' = dbLog
           /\ WaitingInFlight' = WaitingInFlight /\ WaitingBatch' = WaitingBatch /\ Flight' = Flight
<1>1. UNCHANGED <<inFlight, applied, dbLog, batchCache, replies>>
  BY DEF wgVars
<1>2. Flight' = Flight /\ WaitingInFlight' = WaitingInFlight /\ WaitingBatch' = WaitingBatch
  BY <1>1 DEF Flight, WaitingInFlight, isCommitting, WaitingBatch
<1>3. LogsTyped'
  BY <1>1, <1>2 DEF LogsTyped
<1>4. Reqs(dbLog)' = Reqs(dbLog) /\ Reqs(Flight)' = Reqs(Flight)
  BY <1>1, <1>2 DEF Reqs, Elems
<1>5. RepliesOK'
  BY <1>1, <1>4 DEF RepliesOK
<1> QED BY <1>1, <1>2, <1>3, <1>5

\* The database is asked for the master.
LEMMA MasterReadSteps ==
    ASSUME OnlyVersions, uidCounter \in Nat, QueueTyped(readQueue), MasterRead
    PROVE  Steps
<1>1. /\ readQueue # <<>> /\ UNCHANGED <<scenario, wgVars, cache, counter, uidCounter, listing>>
      /\ readQueue' = <<[readQueue[1] EXCEPT !.answer = <<Stored(Master)>>]>>
  BY DEF MasterRead, listVars
<1>2. PICK S, s, x : s \in Seq(S) /\ readQueue = <<[callbacks |-> s, answer |-> x]>>
  BY <1>1 DEF QueueTyped
<1> DEFINE y == <<Stored(Master)>>
           q == <<[callbacks |-> s, answer |-> y]>>
<1>3. readQueue' = q
  <2>1. readQueue[1] = [callbacks |-> s, answer |-> x]
    BY <1>2
  <2>2. [[callbacks |-> s, answer |-> x] EXCEPT !.answer = y] = [callbacks |-> s, answer |-> y]
    OBVIOUS
  <2> QED BY <1>1, <2>1, <2>2, Zenon
<1> HIDE DEF y
<1>4. QueueTyped(readQueue)'
  BY <1>2, <1>3 DEF QueueTyped
<1>5. ASSUME CoreInv PROVE CoreInv'
  <2>1. LogsTyped /\ RepliesOK
        /\ StateIs(dbLog, WaitingInFlight, WaitingBatch, Flight, counter, uidCounter, listing, readQueue, cache)
    BY <1>5, CoreIs
  <2>2. Gathered(<<>>) = WaitingBatch
    BY DEF Gathered
  <2>3. /\ counter \in Nat /\ ImagesOK(<<>>, uidCounter) /\ GatheredOK(<<>>)
        /\ ListingOK(listing, <<>>, uidCounter)
        /\ SigsOK(<<>>, counter) /\ CacheOK(<<>>, cache) /\ ReadOK
    BY <1>5 DEF CoreInv
  <2>4. cache = <<>> /\ Len(s) \in Nat /\ \A i \in 1 .. Len(s) : TaskOK(s[i], <<>>, uidCounter)
    <3>1. readQueue[1].callbacks = s
      BY <1>2
    <3> QED BY <1>1, <2>3, <3>1 DEF ReadOK
  <2>5. y = <<Line(<<>>)[Master]>>
    BY <1>5, <2>4, NothingCached DEF y
  <2>6. q[1].callbacks = s /\ q[1].answer = y
    OBVIOUS
  <2> HIDE DEF q
  <2>7. StateIs(dbLog, WaitingInFlight, WaitingBatch, Flight, counter, uidCounter, listing, q, cache)
    BY <2>2, <2>3, <2>4, <2>5, <2>6, TurnIs
  <2>8. /\ LogsTyped' /\ RepliesOK' /\ dbLog' = dbLog
        /\ WaitingInFlight' = WaitingInFlight /\ WaitingBatch' = WaitingBatch /\ Flight' = Flight
    BY <1>1, <2>1, ManagerStays
  <2> QED BY <1>1, <1>3, <2>7, <2>8, NextCore
<1> QED BY <1>1, <1>4, <1>5 DEF Steps

\* The queued reads of the master are called back.
LEMMA MasterReadDoneSteps ==
    ASSUME OnlyVersions, uidCounter \in Nat, QueueTyped(readQueue), MasterReadDone
    PROVE  Steps
<1> DEFINE t == Turn
<1>1. Begun(t)
  BY TurnHasBegun
<1>2. PICK value, err :
        /\ Finish(Dequeue(t, value, err)) /\ err \in {"none", "notFound", "other"}
        /\ err # "other" => value = readQueue[1].answer[1] /\ (err = "notFound" => value = NoValue)
  <2>1. CASE \E value : value = readQueue[1].answer[1]
                        /\ Finish(Dequeue(Turn, value, IF value = NoValue THEN "notFound" ELSE "none"))
    <3>1. PICK value : value = readQueue[1].answer[1]
                       /\ Finish(Dequeue(Turn, value, IF value = NoValue THEN "notFound" ELSE "none"))
      BY <2>1
    <3> DEFINE err == IF value = NoValue THEN "notFound" ELSE "none"
    <3>2. err \in {"none", "notFound", "other"} /\ (err = "notFound" => value = NoValue)
      OBVIOUS
    <3> HIDE DEF err
    <3>3. Finish(Dequeue(t, value, err))
      BY <3>1 DEF err
    <3> QED BY <3>1, <3>2, <3>3
  <2>2. CASE Finish(Dequeue(Turn, NoValue, "other"))
    BY <2>2
  <2> QED BY <2>1, <2>2 DEF MasterReadDone
<1>3. readQueue # <<>> /\ readQueue[1].answer # <<>>
  BY DEF MasterReadDone
<1> HIDE DEF t
<1> DEFINE d == Dequeue(t, value, err)
<1>4. /\ IsTurn(t) /\ t.cache = cache /\ t.counter = counter /\ t.uid = uidCounter /\ t.out = <<>>
      /\ t.readQueue = readQueue
  BY <1>1 DEF Begun
<1>5. TurnShape(t, uidCounter)
  BY <1>1, BegunIs
<1>6. TurnShape(d, uidCounter) /\ d.readQueue = <<>>
  BY <1>3, <1>4, <1>5, DequeueShape
<1>7. ASSUME CoreInv, Apart, d.uid <= FirstVid PROVE TurnOK(d) /\ CacheOK(d.out, d.cache) /\ QueueOK(d)
  <2>1. ReadOK /\ LogsTyped
    BY <1>7 DEF CoreInv
  <2>2. /\ cache = <<>> /\ Len(readQueue[1].callbacks) \in Nat
        /\ \A i \in 1 .. Len(readQueue[1].callbacks) : TaskOK(readQueue[1].callbacks[i], <<>>, uidCounter)
        /\ readQueue[1].answer = <<Line(<<>>)[Master]>>
    BY <1>3, <2>1 DEF ReadOK
  <2>3. MasterSigs(Flight) = {} /\ MasterSigs(Gathered(<<>>)) = {}
    BY <1>7, <2>2, NothingCached
  <2>4. err # "other" => value = Line(<<>>)[Master] /\ (err = "notFound" => value = NoValue)
    BY <1>2, <2>2
  <2>5. TurnOK(t)
    BY <1>1, <1>7, BegunIs
  <2>6. /\ IsTurn(d) /\ d.uid \in Nat /\ t.uid <= d.uid /\ d.readQueue = <<>>
        /\ d.uid <= FirstVid => TurnOK(d) /\ CacheOK(d.out, d.cache)
    <3>1. /\ Len(t.readQueue[1].callbacks) \in Nat
          /\ \A i \in 1 .. Len(t.readQueue[1].callbacks) : TaskOK(t.readQueue[1].callbacks[i], <<>>, t.uid)
          /\ t.uid \in Nat
      BY <1>4, <2>2
    <3> QED BY <1>2, <1>4, <1>7, <2>1, <2>3, <2>4, <2>5, <3>1, DequeueStep
  <2> HIDE DEF d
  <2> QED BY <1>7, <2>6 DEF QueueOK
<1>8. Finish(d)
  BY <1>2
<1> HIDE DEF d
<1> QED BY <1>6, <1>7, <1>8, TurnDone

\* A turn that answers, fails, or asks for a listing.
LEMMA StillBegun ==
    ASSUME NEW T, Begun(T)
    PROVE  /\ \A r : Begun(GetByListing(T, r))
           /\ \A r, value : Begun(Answered(T, r, value))
           /\ \A x : Begun([T EXCEPT !.failed = x]) /\ Begun([T EXCEPT !.repairTimer = x])
           /\ \A value : Begun(DequeueGet(T, value))
           /\ \A x : Begun([T EXCEPT !.listQueue = <<>>, !.listing = <<>>, !.failed = x])
<1>1. /\ IsTurn(T) /\ T.cache = cache /\ T.counter = counter /\ T.uid = uidCounter /\ T.out = <<>>
      /\ T.readQueue = readQueue /\ T.listing \in {listing, <<>>, <<"issued">>}
  BY DEF Begun
<1>2. HasFields(T, T.cache, T.readQueue, T.counter, T.uid, T.listQueue, T.listing,
                T.repairTimer, T.got, T.out, T.failed)
  BY <1>1 DEF IsTurn
<1>3. ASSUME NEW u, NEW e, NEW f, NEW g, NEW h, NEW j, f \in {T.listing, <<>>},
             HasFields(u, T.cache, T.readQueue, T.counter, T.uid, e, f, g, h, T.out, j)
      PROVE  Begun(u)
  BY <1>1, <1>3, FieldsAre DEF Begun
<1>4. ASSUME NEW r PROVE Begun(GetByListing(T, r))
  <2> DEFINE u == GetByListing(T, r)
  <2>1. /\ IsTurn(u) /\ u.uid = T.uid /\ u.cache = T.cache /\ u.counter = T.counter
        /\ u.out = T.out /\ u.readQueue = T.readQueue /\ u.failed = T.failed
        /\ u.listing \in {T.listing, <<"issued">>}
    BY <1>1, GetByListingIs
  <2> HIDE DEF u
  <2>2. Begun(u)
    BY <1>1, <2>1 DEF Begun
  <2> QED BY <2>2 DEF u
<1>5. ASSUME NEW r, NEW value PROVE Begun(Answered(T, r, value))
  <2> DEFINE x == [T.got EXCEPT ![r] = Append(T.got[r], value)]
             u == [T EXCEPT !.got = x]
  <2>1. Answered(T, r, value) = IF r = Nobody THEN T ELSE u
    BY DEF Answered
  <2>2. HasFields(u, T.cache, T.readQueue, T.counter, T.uid, T.listQueue, T.listing,
                  T.repairTimer, x, T.out, T.failed)
    BY <1>2, FieldChanges
  <2> HIDE DEF u
  <2>3. Begun(u)
    BY <1>3, <2>2
  <2> QED BY <2>1, <2>3
<1>6. ASSUME NEW x PROVE Begun([T EXCEPT !.failed = x]) /\ Begun([T EXCEPT !.repairTimer = x])
  <2>1. HasFields([T EXCEPT !.failed = x], T.cache, T.readQueue, T.counter, T.uid, T.listQueue, T.listing,
                  T.repairTimer, T.got, T.out, x)
    BY <1>2, FieldChanges
  <2>2. HasFields([T EXCEPT !.repairTimer = x], T.cache, T.readQueue, T.counter, T.uid, T.listQueue, T.listing,
                  x, T.got, T.out, T.failed)
    BY <1>2, FieldChanges
  <2>3. Begun([T EXCEPT !.failed = x])
    BY <1>3, <2>1
  <2>4. Begun([T EXCEPT !.repairTimer = x])
    BY <1>3, <2>2
  <2> QED BY <2>3, <2>4
<1> DEFINE none == <<>>
           t1 == [T EXCEPT !.listQueue = none]
           t2 == [t1 EXCEPT !.listing = none]
<1>7. HasFields(t1, T.cache, T.readQueue, T.counter, T.uid, none, T.listing,
                T.repairTimer, T.got, T.out, T.failed)
  BY <1>2, FieldChanges
<1>8. HasFields(t2, T.cache, T.readQueue, T.counter, T.uid, none, none,
                T.repairTimer, T.got, T.out, T.failed)
  <2> HIDE DEF t1
  <2> QED BY <1>7, FieldChanges
<1>9. /\ \A x : [T EXCEPT !.listQueue = none, !.listing = none, !.failed = x] = [t2 EXCEPT !.failed = x]
      /\ \A x : [T EXCEPT !.listQueue = none, !.listing = none, !.got = x] = [t2 EXCEPT !.got = x]
  <2> HIDE DEF none
  <2> QED BY <1>1, ChangesTogether
<1> HIDE DEF t2
<1>10. ASSUME NEW x
       PROVE  Begun([T EXCEPT !.listQueue = <<>>, !.listing = <<>>, !.failed = x])
  <2> DEFINE u == [T EXCEPT !.listQueue = none, !.listing = none, !.failed = x]
             v == [t2 EXCEPT !.failed = x]
  <2>1. u = v
    BY <1>9
  <2>2. HasFields(v, T.cache, T.readQueue, T.counter, T.uid, none, none, T.repairTimer, T.got, T.out, x)
    BY <1>8, FieldChanges
  <2> HIDE DEF u, v
  <2>3. HasFields(u, T.cache, T.readQueue, T.counter, T.uid, none, none, T.repairTimer, T.got, T.out, x)
    BY <2>1, <2>2, Zenon
  <2>4. Begun(u)
    BY <1>3, <2>3
  <2> QED BY <2>4 DEF u
<1>11. ASSUME NEW value PROVE Begun(DequeueGet(T, value))
  <2> DEFINE x == [r \in Requests |-> IF \E i \in DOMAIN listQueue : listQueue[i] = r
                                      THEN Append(T.got[r], value) ELSE T.got[r]]
             u == DequeueGet(T, value)
             v == [t2 EXCEPT !.got = x]
  <2>1. u = [T EXCEPT !.listQueue = none, !.listing = none, !.got = x]
    BY Zenon DEF DequeueGet
  <2> HIDE DEF x, u
  <2>2. u = v
    BY <1>9, <2>1
  <2>3. HasFields(v, T.cache, T.readQueue, T.counter, T.uid, none, none, T.repairTimer, x, T.out, T.failed)
    BY <1>8, FieldChanges
  <2> HIDE DEF v
  <2>4. HasFields(u, T.cache, T.readQueue, T.counter, T.uid, none, none, T.repairTimer, x, T.out, T.failed)
    BY <2>2, <2>3, Zenon
  <2>5. Begun(u)
    BY <1>3, <2>4
  <2> QED BY <2>5 DEF u
<1> QED BY <1>4, <1>5, <1>6, <1>10, <1>11

\* A turn that does not read or write the master steps.
LEMMA BegunSteps ==
    ASSUME uidCounter \in Nat, QueueTyped(readQueue), NEW T, Begun(T), Finish(T)
    PROVE  Steps
BY BegunIs, TurnDone

\* What the invariant is about stays.
LEMMA UnchangedSteps ==
    ASSUME uidCounter \in Nat, QueueTyped(readQueue),
           UNCHANGED <<scenario, wgVars, cache, readQueue, counter, uidCounter, listing>>
    PROVE  Steps
<1>1. QueueTyped(readQueue)'
  BY DEF QueueTyped
<1>2. ASSUME CoreInv PROVE CoreInv'
  <2>1. /\ LogsTyped /\ RepliesOK
        /\ StateIs(dbLog, WaitingInFlight, WaitingBatch, Flight, counter, uidCounter, listing, readQueue, cache)
    BY <1>2, CoreIs
  <2>2. /\ LogsTyped' /\ RepliesOK' /\ dbLog' = dbLog
        /\ WaitingInFlight' = WaitingInFlight /\ WaitingBatch' = WaitingBatch /\ Flight' = Flight
    BY <2>1, ManagerStays
  <2> QED BY <2>1, <2>2, NextCore
<1> QED BY <1>1, <1>2 DEF Steps

\* get(): the answer of the database, which may have to be looked for by a listing.
LEMMA GetSteps ==
    ASSUME uidCounter \in Nat, QueueTyped(readQueue)
    PROVE  /\ \A r : GetRead(r) => Steps
           /\ \A read : GetDone(read) => Steps
           /\ RepairTimeout => Steps
<1> DEFINE t == Turn
<1>1. Begun(t)
  BY TurnHasBegun
<1> HIDE DEF t
<1>2. ASSUME NEW r, GetRead(r) PROVE Steps
  <2>1. UNCHANGED <<scenario, wgVars, cache, readQueue, counter, uidCounter, listing>>
    BY <1>2 DEF GetRead, cacheVars, listVars
  <2> QED BY <2>1, UnchangedSteps
<1>3. ASSUME NEW read, GetDone(read) PROVE Steps
  <2>1. \/ Finish(GetByListing(t, read.req)) \/ Finish(Answered(t, read.req, read.value))
        \/ Finish([t EXCEPT !.failed = {read.req}])
    BY <1>3 DEF GetDone, t
  <2> QED BY <1>1, <2>1, StillBegun, BegunSteps
<1>4. ASSUME RepairTimeout PROVE Steps
  <2> DEFINE cleared == FALSE
             u == [t EXCEPT !.repairTimer = cleared]
  <2>1. Finish(GetByListing(u, Nobody))
    BY <1>4 DEF RepairTimeout, t
  <2> HIDE DEF cleared
  <2>2. Begun(u)
    BY <1>1, StillBegun
  <2> HIDE DEF u
  <2>3. Begun(GetByListing(u, Nobody))
    BY <2>2, StillBegun
  <2> QED BY <2>1, <2>3, BegunSteps
<1> QED BY <1>2, <1>3, <1>4

\* A listing sees what is stored.
LEMMA ListReadSteps ==
    ASSUME uidCounter \in Nat, QueueTyped(readQueue), ListRead
    PROVE  Steps
<1> DEFINE rows == [k \in Keys |-> Stored(k)]
           lst == <<"read", rows>>
<1>1. /\ listing' = lst
      /\ UNCHANGED <<scenario, wgVars, cache, readQueue, counter, uidCounter>>
  BY DEF ListRead, cacheVars
<1>2. rows = Disk
  BY StoredIs DEF Disk, Over
<1> HIDE DEF rows
<1>3. QueueTyped(readQueue)'
  BY <1>1 DEF QueueTyped
<1>4. ASSUME CoreInv PROVE CoreInv'
  <2>1. /\ LogsTyped /\ RepliesOK /\ counter \in Nat /\ ImagesOK(<<>>, uidCounter) /\ GatheredOK(<<>>)
        /\ SigsOK(<<>>, counter) /\ CacheOK(<<>>, cache) /\ ReadOK
    BY <1>4 DEF CoreInv
  <2>2. SnapshotOK(rows, <<>>, uidCounter)
    <3>1. DbOK(Disk, uidCounter) /\ Agrees(Disk, Flown) /\ Agrees(Disk, Line(<<>>))
      BY <2>1 DEF ImagesOK, ImageOK, BothAgree
    <3>2. Agrees(Disk, Disk)
      BY DEF Agrees
    <3> QED BY <1>2, <3>1, <3>2 DEF SnapshotOK
  <2>3. lst = <<"read", lst[2]>> /\ lst[2] = rows
    OBVIOUS
  <2> HIDE DEF lst
  <2>4. ListingOK(lst, <<>>, uidCounter)
    BY <2>2, <2>3 DEF ListingOK
  <2>5. Gathered(<<>>) = WaitingBatch
    BY DEF Gathered
  <2>6. StateIs(dbLog, WaitingInFlight, WaitingBatch, Flight, counter, uidCounter, lst, readQueue, cache)
    BY <2>1, <2>4, <2>5, TurnIs DEF ReadOK
  <2>7. /\ LogsTyped' /\ RepliesOK' /\ dbLog' = dbLog
        /\ WaitingInFlight' = WaitingInFlight /\ WaitingBatch' = WaitingBatch /\ Flight' = Flight
    BY <1>1, <2>1, ManagerStays
  <2> QED BY <1>1, <2>6, <2>7, NextCore
<1> QED BY <1>1, <1>3, <1>4 DEF Steps

\* A place holder that a listing begins with is the master.
LEMMA FirstIsMaster ==
    ASSUME NEW rows, NEW uid, DbOK(rows, uid), isPHD(FirstIn(rows))
    PROVE  FirstIn(rows) = rows[Master] /\ rows[Master] # NoValue
<1>1. rows[NullKey] = NoValue /\ \A v \in Vids : rows[v] # NoValue => ~rows[v].phd
  BY DEF DbOK
<1>2. ASSUME rows[Master] = NoValue PROVE FALSE
  <2>1. VersionsIn(rows) # {} /\ FirstIn(rows) = rows[Newest(VersionsIn(rows))]
    BY <1>1, <1>2 DEF FirstIn, isPHD
  <2>2. Newest(VersionsIn(rows)) \in VersionsIn(rows)
    BY <2>1, NewestIs DEF VersionsIn
  <2> QED BY <1>1, <2>1, <2>2 DEF VersionsIn, isPHD
<1> QED BY <1>2 DEF FirstIn

\* The end of a listing, which answers gets or repairs the master.
LEMMA ListDoneSteps ==
    ASSUME OnlyVersions, uidCounter \in Nat, QueueTyped(readQueue), ListDone
    PROVE  Steps
<1> DEFINE t == Turn
           rows == listing[2]
           master == FirstIn(rows)
           latest == LatestIn(rows)
           told == IF latest = <<>> THEN NoValue ELSE latest[1].value
           failed == {r \in Requests : \E i \in DOMAIN listQueue : listQueue[i] = r}
           u == DequeueGet(t, told)
           task == RepairTask(master, latest)
           v == CacheGet(u, task)
<1>1. Begun(t)
  BY TurnHasBegun
<1>2. listing # <<>> /\ listing[1] = "read"
  BY DEF ListDone
<1>3. \/ Finish(DequeueGet(t, master))
      \/ isPHD(master) /\ Finish(v)
      \/ Finish([t EXCEPT !.listQueue = <<>>, !.listing = <<>>, !.failed = failed])
  <2>1. CASE Finish(IF ~isPHD(master) THEN DequeueGet(t, master) ELSE v)
    <3> HIDE DEF t, master, v
    <3> QED BY <2>1
  <2>2. CASE Finish([t EXCEPT !.listQueue = <<>>, !.listing = <<>>, !.failed = failed])
    BY <2>2
  <2>3. \/ Finish(IF ~isPHD(master) THEN DequeueGet(t, master) ELSE v)
        \/ Finish([t EXCEPT !.listQueue = <<>>, !.listing = <<>>, !.failed = failed])
    BY Zenon DEF ListDone
  <2> QED BY <2>1, <2>2, <2>3
<1> HIDE DEF t
<1>4. CASE Finish(DequeueGet(t, master))
  BY <1>1, <1>4, StillBegun, BegunSteps
<1>5. CASE Finish([t EXCEPT !.listQueue = <<>>, !.listing = <<>>, !.failed = failed])
  <2> HIDE DEF failed
  <2> QED BY <1>1, <1>5, StillBegun, BegunSteps
<1>6. CASE isPHD(master) /\ Finish(v)
  <2> HIDE DEF told
  <2>1. Begun(u)
    BY <1>1, StillBegun
  <2> HIDE DEF u
  <2>2. TurnShape(u, uidCounter)
    BY <2>1, BegunIs
  <2>3. TurnShape(v, uidCounter)
    BY <2>2, CacheGetShape
  <2>4. ASSUME CoreInv, Apart, v.uid <= FirstVid PROVE TurnOK(v) /\ CacheOK(v.out, v.cache) /\ QueueOK(v)
    <3>1. SnapshotOK(rows, <<>>, uidCounter)
      <4>1. ListingOK(listing, <<>>, uidCounter)
        BY <2>4 DEF CoreInv
      <4>2. listing # <<"issued">>
        BY <1>2
      <4> QED BY <1>2, <4>1, <4>2 DEF ListingOK
    <3>2. DbOK(rows, uidCounter) /\ rows \in Dbs
      BY <3>1 DEF SnapshotOK, DbOK
    <3>3. master = rows[Master]
      BY <1>6, <3>2, FirstIsMaster
    <3>4. TaskOK(task, <<>>, uidCounter)
      <4> HIDE DEF rows
      <4> QED BY <1>6, <3>1, <3>2, <3>3 DEF TaskOK
    <3> HIDE DEF task
    <3> QED BY <2>1, <2>4, <3>4, CacheGetStep
  <2> HIDE DEF v
  <2> QED BY <1>6, <2>3, <2>4, TurnDone
<1> QED BY <1>3, <1>4, <1>5, <1>6

-----------------------------------------------------------------------------
(* The manager and the database.                                           *)

\* The invariant but for its types, of the three databases and what is gone in them.
PartsOK(d, w, l, dg, wg, lg, c, f, cnt, uid, lst, q, ca) ==
    /\ cnt \in Nat
    /\ ImageOK(d, dg, uid) /\ ImageOK(w, wg, uid) /\ ImageOK(l, lg, uid)
    /\ BothAgree(d, w) /\ BothAgree(d, l) /\ BothAgree(w, l)
    /\ \/ lst = <<>> \/ lst = <<"issued">>
       \/ lst = <<"read", lst[2]>> /\ SnapshotIs(lst[2], uid, d, w, l)
    /\ q # <<>> => /\ ca = <<>> /\ Len(q[1].callbacks) \in Nat
                   /\ \A i \in 1 .. Len(q[1].callbacks) : TaskIs(q[1].callbacks[i], uid, d, w, l)
                   /\ q[1].answer \in {<<>>, <<l[Master]>>}
    /\ \A e \in Elems(c) : e.value # NoValue => e.value.vid \notin wg
    /\ \A x \in Sigs(f) \cup Sigs(c) : x < cnt
    /\ \A x \in Sigs(f), y \in Sigs(c) : x < y
    /\ \/ ca = <<>> /\ MasterSigs(f) = {} /\ MasterSigs(c) = {}
       \/ /\ ca # <<>> /\ ca = <<ca[1]>> /\ ca[1].value = l[Master]
          /\ IF MasterSigs(c) # {} THEN ca[1].signature \in MasterSigs(c)
             ELSE ca[1].signature \in MasterSigs(f)

\* The two forms of the invariant.
LEMMA PartsAre ==
    ASSUME NEW a, NEW b, NEW c, NEW f, NEW cnt, NEW uid, NEW lst, NEW q, NEW ca, NEW d, NEW w, NEW l,
           NEW dg, NEW wg, NEW lg,
           d = Over(a, InitialDb[scenario]), w = Over(b, d), l = Over(c, w),
           dg = GoneIn(a), wg = dg \cup GoneIn(b), lg = wg \cup GoneIn(c)
    PROVE  StateIs(a, b, c, f, cnt, uid, lst, q, ca) <=> PartsOK(d, w, l, dg, wg, lg, c, f, cnt, uid, lst, q, ca)
BY DEF StateIs, PartsOK

\* Nothing is on its way any more: the gathered batch is launched.
LEMMA LaunchedOK ==
    ASSUME NEW a, NEW c, NEW cnt, NEW uid, NEW lst, NEW q, NEW ca,
           StateIs(a, <<>>, c, <<>>, cnt, uid, lst, q, ca)
    PROVE  StateIs(a, c, <<>>, c, cnt, uid, lst, q, ca)
<1>1. PICK d, w, l, l2, dg, wg, lg, lg2 :
        /\ d = Over(a, InitialDb[scenario]) /\ w = Over(<<>>, d) /\ l = Over(c, w)
        /\ dg = GoneIn(a) /\ wg = dg \cup GoneIn(<<>>) /\ lg = wg \cup GoneIn(c)
        /\ l2 = Over(<<>>, l) /\ lg2 = lg \cup GoneIn(<<>>)
  OBVIOUS
<1>2. PartsOK(d, w, l, dg, wg, lg, c, <<>>, cnt, uid, lst, q, ca)
  BY <1>1, PartsAre
<1>3. d \in Dbs /\ l \in Dbs
  BY <1>2 DEF PartsOK, ImageOK, DbOK
<1>4. w = d /\ l2 = l /\ wg = dg /\ lg2 = lg
  BY <1>1, <1>3, OverNothing
<1>5. Elems(<<>>) = {} /\ Sigs(<<>>) = {} /\ MasterSigs(<<>>) = {}
  BY <1>3, OverNothing
<1>6. BothAgree(l, l)
  BY DEF BothAgree, Agrees
<1>7. \A rows : SnapshotIs(rows, uid, d, w, l) <=> SnapshotIs(rows, uid, d, l, l2)
  BY <1>4 DEF SnapshotIs
<1>8. \A task : TaskIs(task, uid, d, w, l) <=> TaskIs(task, uid, d, l, l2)
  BY <1>7 DEF TaskIs
<1>9. PartsOK(d, l, l2, dg, lg, lg2, <<>>, c, cnt, uid, lst, q, ca)
  BY <1>2, <1>4, <1>5, <1>6, <1>7, <1>8 DEF PartsOK
<1>10. l = Over(c, d) /\ lg = dg \cup GoneIn(c)
  BY <1>1, <1>4
<1> QED BY <1>1, <1>9, <1>10, PartsAre

\* The batch in flight is in the database.
LEMMA AppliedOK ==
    ASSUME NEW a \in Seq(VrEntry), NEW c, NEW f \in Seq(VrEntry), NEW cnt, NEW uid, NEW lst, NEW q, NEW ca,
           StateIs(a, f, c, f, cnt, uid, lst, q, ca)
    PROVE  StateIs(a \o f, <<>>, c, f, cnt, uid, lst, q, ca)
<1>1. PICK d, w, l, dg, wg, lg :
        /\ d = Over(a, InitialDb[scenario]) /\ w = Over(f, d) /\ l = Over(c, w)
        /\ dg = GoneIn(a) /\ wg = dg \cup GoneIn(f) /\ lg = wg \cup GoneIn(c)
  OBVIOUS
<1>2. PartsOK(d, w, l, dg, wg, lg, c, f, cnt, uid, lst, q, ca)
  BY <1>1, PartsAre
<1>3. w \in Dbs
  BY <1>2 DEF PartsOK, ImageOK, DbOK
<1>4. Over(a \o f, InitialDb[scenario]) = w
  BY <1>1, OverBoth
<1>5. GoneIn(a \o f) = wg
  <2>1. GoneIn(a \o f) = GoneIn(a) \cup GoneIn(f)
    BY LogsOfBoth
  <2> QED BY <1>1, <2>1
<1>6. Over(<<>>, w) = w /\ GoneIn(<<>>) = {}
  BY <1>3, OverNothing
<1>7. BothAgree(w, w)
  BY DEF BothAgree, Agrees
<1>8. \A rows : SnapshotIs(rows, uid, d, w, l) => SnapshotIs(rows, uid, w, w, l)
  BY DEF SnapshotIs
<1>9. \A task : TaskIs(task, uid, d, w, l) => TaskIs(task, uid, w, w, l)
  BY <1>8 DEF TaskIs
<1>10. PartsOK(w, w, l, wg, wg, lg, c, f, cnt, uid, lst, q, ca)
  BY <1>2, <1>7, <1>8, <1>9 DEF PartsOK
<1>11. /\ w = Over(a \o f, InitialDb[scenario]) /\ w = Over(<<>>, w) /\ l = Over(c, w)
       /\ wg = GoneIn(a \o f) /\ wg = wg \cup GoneIn(<<>>) /\ lg = wg \cup GoneIn(c)
  BY <1>1, <1>4, <1>5, <1>6
<1> QED BY <1>10, <1>11, PartsAre

\* The batch in flight is answered, and what is cached of it is cleared.
LEMMA AnsweredOK ==
    ASSUME NEW a, NEW c, NEW f, NEW cnt, NEW uid, NEW lst, NEW q, NEW ca,
           f \in Seq(VrEntry), c \in Seq(VrEntry),
           StateIs(a, <<>>, c, f, cnt, uid, lst, q, ca)
    PROVE  StateIs(a, <<>>, c, <<>>, cnt, uid, lst, q,
                   IF ca # <<>> /\ ca[1].signature \in MasterSigs(f) THEN <<>> ELSE ca)
<1> DEFINE ca2 == IF ca # <<>> /\ ca[1].signature \in MasterSigs(f) THEN <<>> ELSE ca
<1>1. PICK d, w, l, dg, wg, lg :
        /\ d = Over(a, InitialDb[scenario]) /\ w = Over(<<>>, d) /\ l = Over(c, w)
        /\ dg = GoneIn(a) /\ wg = dg \cup GoneIn(<<>>) /\ lg = wg \cup GoneIn(c)
  OBVIOUS
<1>2. PartsOK(d, w, l, dg, wg, lg, c, f, cnt, uid, lst, q, ca)
  BY <1>1, PartsAre
<1>3. d \in Dbs
  BY <1>2 DEF PartsOK, ImageOK, DbOK
<1>4. Sigs(<<>>) = {} /\ MasterSigs(<<>>) = {}
  BY <1>3, OverNothing
<1>5. \A x \in MasterSigs(f), y \in MasterSigs(c) : x # y
  <2>1. \A x \in Sigs(f) : x \in Nat
    <3>1. \A e \in Elems(f) : e \in VrEntry
      BY DEF Elems
    <3> QED BY <3>1 DEF Sigs, VrEntry
  <2>2. MasterSigs(f) \subseteq Sigs(f) /\ MasterSigs(c) \subseteq Sigs(c)
    BY DEF Sigs, MasterSigs
  <2>3. \A x \in Sigs(f), y \in Sigs(c) : x < y
    BY <1>2 DEF PartsOK
  <2> QED BY <2>1, <2>2, <2>3
<1>6. \/ ca2 = <<>> /\ MasterSigs(<<>>) = {} /\ MasterSigs(c) = {}
      \/ /\ ca2 # <<>> /\ ca2 = <<ca2[1]>> /\ ca2[1].value = l[Master]
         /\ IF MasterSigs(c) # {} THEN ca2[1].signature \in MasterSigs(c)
            ELSE ca2[1].signature \in MasterSigs(<<>>)
  BY <1>2, <1>4, <1>5 DEF PartsOK
<1>7. ca = <<>> => ca2 = <<>>
  OBVIOUS
<1> HIDE DEF ca2
<1>8. PartsOK(d, w, l, dg, wg, lg, c, <<>>, cnt, uid, lst, q, ca2)
  BY <1>2, <1>4, <1>6, <1>7 DEF PartsOK
<1>9. StateIs(a, <<>>, c, <<>>, cnt, uid, lst, q, ca2)
  BY <1>1, <1>8, PartsAre
<1> QED BY <1>9 DEF ca2

\* Both batches are given up, and what is cached of them is cleared.
LEMMA GivenUpOK ==
    ASSUME NEW a, NEW c, NEW f, NEW cnt, NEW uid, NEW lst, NEW q, NEW ca,
           StateIs(a, f, c, f, cnt, uid, lst, q, ca)
    PROVE  /\ StateIs(a, <<>>, <<>>, <<>>, cnt, uid, lst, q, <<>>)
           /\ ca # <<>> => ca[1].signature \in MasterSigs(f) \cup MasterSigs(c)
<1>1. PICK d, w, l, dg, wg, lg :
        /\ d = Over(a, InitialDb[scenario]) /\ w = Over(f, d) /\ l = Over(c, w)
        /\ dg = GoneIn(a) /\ wg = dg \cup GoneIn(f) /\ lg = wg \cup GoneIn(c)
  OBVIOUS
<1>2. PartsOK(d, w, l, dg, wg, lg, c, f, cnt, uid, lst, q, ca)
  BY <1>1, PartsAre
<1>3. d \in Dbs
  BY <1>2 DEF PartsOK, ImageOK, DbOK
<1>4. /\ Elems(<<>>) = {} /\ Sigs(<<>>) = {} /\ MasterSigs(<<>>) = {} /\ GoneIn(<<>>) = {}
      /\ Over(<<>>, d) = d
  BY <1>3, OverNothing
<1>5. q # <<>> => l[Master] = d[Master]
  <2>1. ASSUME q # <<>> PROVE l[Master] = d[Master]
    <3>1. MasterSigs(f) = {} /\ MasterSigs(c) = {}
      BY <1>2, <2>1 DEF PartsOK
    <3> QED BY <1>1, <3>1, NoMasterWrites
  <2> QED BY <2>1
<1>6. BothAgree(d, d)
  BY DEF BothAgree, Agrees
<1>7. \A rows : SnapshotIs(rows, uid, d, w, l) => SnapshotIs(rows, uid, d, d, d)
  BY DEF SnapshotIs
<1>8. \A task : TaskIs(task, uid, d, w, l) => TaskIs(task, uid, d, d, d)
  BY <1>7 DEF TaskIs
<1>9. PartsOK(d, d, d, dg, dg, dg, <<>>, <<>>, cnt, uid, lst, q, <<>>)
  BY <1>2, <1>4, <1>5, <1>6, <1>7, <1>8 DEF PartsOK
<1>10. /\ d = Over(a, InitialDb[scenario]) /\ d = Over(<<>>, d)
       /\ dg = GoneIn(a) /\ dg = dg \cup GoneIn(<<>>)
  BY <1>1, <1>4
<1>11. StateIs(a, <<>>, <<>>, <<>>, cnt, uid, lst, q, <<>>)
  BY <1>9, <1>10, PartsAre
<1>12. ca # <<>> => ca[1].signature \in MasterSigs(f) \cup MasterSigs(c)
  BY <1>2 DEF PartsOK
<1> QED BY <1>11, <1>12

\* What the manager has, of a step of it.
LEMMA ManagerIs ==
    ASSUME LogsTyped
    PROVE  /\ Flight \in Seq(VrEntry) /\ WaitingBatch \in Seq(VrEntry) /\ dbLog \in Seq(VrEntry)
           /\ isCommitting => inFlight[1] = Flight /\ inFlight = <<Flight>>
           /\ ~isCommitting => Flight = <<>>
           /\ isCommitting /\ ~applied => WaitingInFlight = Flight
           /\ ~isCommitting \/ applied => WaitingInFlight = <<>>
           /\ batchCache # <<>> => batchCache = <<WaitingBatch>>
           /\ batchCache = <<>> => WaitingBatch = <<>>
<1>1. /\ Flight \in Seq(VrEntry) /\ WaitingBatch \in Seq(VrEntry) /\ dbLog \in Seq(VrEntry)
      /\ inFlight \in {<<>>, <<Flight>>} /\ batchCache \in {<<>>, <<WaitingBatch>>}
  BY DEF LogsTyped
<1> QED BY <1>1 DEF Flight, WaitingBatch, WaitingInFlight, isCommitting

\* The gathered batch becomes the one in flight.
LEMMA StartCommitIs ==
    ASSUME LogsTyped, StartCommit, UNCHANGED <<scenario, dbLog>>
    PROVE  /\ Flight' = WaitingBatch /\ WaitingInFlight' = WaitingBatch /\ WaitingBatch' = <<>>
           /\ LogsTyped' /\ applied' = FALSE
<1>1. inFlight' = batchCache /\ batchCache' = <<>> /\ applied' = FALSE
  BY DEF StartCommit
<1>2. /\ WaitingBatch \in Seq(VrEntry)
      /\ batchCache # <<>> => batchCache = <<WaitingBatch>>
      /\ batchCache = <<>> => WaitingBatch = <<>>
  BY ManagerIs
<1>3. Flight' = WaitingBatch /\ inFlight' \in {<<>>, <<WaitingBatch>>}
  BY <1>1, <1>2 DEF Flight
<1>4. WaitingInFlight' = WaitingBatch
  BY <1>1, <1>2 DEF WaitingInFlight, isCommitting
<1>5. WaitingBatch' = <<>>
  BY <1>1 DEF WaitingBatch
<1>6. LogsTyped'
  <2>1. dbLog' \in Seq(VrEntry) /\ <<>> \in Seq(VrEntry) /\ scenario' \in Scenarios
    BY DEF LogsTyped
  <2> QED BY <1>1, <1>2, <1>3, <1>5, <2>1 DEF LogsTyped
<1> QED BY <1>1, <1>3, <1>4, <1>5, <1>6

\* The replies of the requests of a batch.
LEMMA AnswerIs ==
    ASSUME RepliesOK, NEW Batches, NEW reply \in {"ok", "error"}, Answer(Batches, reply)
    PROVE  /\ replies' \in [Requests -> Seq({"ok", "error"})]
           /\ \A r \in Requests : replies'[r] = <<"ok">> =>
                  \/ replies[r] = <<"ok">>
                  \/ reply = "ok" /\ \E b \in Batches : r \in Reqs(b)
<1>1. replies' = [r \in Requests |-> IF \E b \in Batches : r \in CallbacksOf(b)
                                     THEN Append(replies[r], reply) ELSE replies[r]]
  BY DEF Answer
<1>2. replies \in [Requests -> Seq({"ok", "error"})]
  BY DEF RepliesOK
<1>3. ASSUME NEW r \in Requests
      PROVE  /\ replies'[r] \in Seq({"ok", "error"})
             /\ replies'[r] = <<"ok">> => \/ replies[r] = <<"ok">>
                                          \/ reply = "ok" /\ \E b \in Batches : r \in Reqs(b)
  <2>1. PICK s : s = replies[r]
    OBVIOUS
  <2>2. s \in Seq({"ok", "error"})
    BY <1>2, <2>1
  <2>3. Append(s, reply) \in Seq({"ok", "error"}) /\ (Append(s, reply) = <<"ok">> => reply = "ok")
    <3>1. /\ Append(s, reply) \in Seq({"ok", "error"})
          /\ Append(s, reply)[Len(s) + 1] = reply
          /\ Len(Append(s, reply)) = Len(s) + 1
      BY <2>2, AppendProperties
    <3>2. <<"ok">>[1] = "ok" /\ Len(<<"ok">>) = 1
      OBVIOUS
    <3>3. Len(s) \in Nat
      BY <2>2, LenProperties
    <3> QED BY <3>1, <3>2, <3>3
  <2>4. \A b : r \in CallbacksOf(b) => r \in Reqs(b)
    BY DEF CallbacksOf, Reqs, Elems
  <2> QED BY <1>1, <2>1, <2>2, <2>3, <2>4
<1>4. replies' \in [Requests -> Seq({"ok", "error"})]
  BY <1>1, <1>3
<1> QED BY <1>3, <1>4

\* What is cached of a batch, that is cleared when it is answered.
LEMMA CacheClearIs ==
    ASSUME NEW Batches, CacheClear(Batches)
    PROVE  cache' = IF cache # <<>> /\ \E b \in Batches : cache[1].signature \in MasterSigs(b)
                    THEN <<>> ELSE cache
<1>1. \A b, x : x \in MasterSigs(b) <=> \E i \in DOMAIN b : b[i].key = Master /\ b[i].signature = x
  BY DEF MasterSigs, Elems
<1> QED BY <1>1 DEF CacheClear

\* The WG_TIMEOUT timer and the database.
LEMMA BackgroundSteps ==
    ASSUME uidCounter \in Nat, QueueTyped(readQueue), Background
    PROVE  Steps
<1>1. UNCHANGED <<scenario, cache, readQueue, counter, uidCounter, listing>>
  BY DEF Background, NotCommitting, listVars
<1>2. QueueTyped(readQueue)'
  BY <1>1 DEF QueueTyped
<1>3. ASSUME CoreInv PROVE CoreInv'
  <2>1. /\ LogsTyped /\ RepliesOK
        /\ StateIs(dbLog, WaitingInFlight, WaitingBatch, Flight, counter, uidCounter, listing, readQueue, cache)
    BY <1>3, CoreIs
  <2>2. /\ Flight \in Seq(VrEntry) /\ WaitingBatch \in Seq(VrEntry) /\ dbLog \in Seq(VrEntry)
        /\ isCommitting => inFlight[1] = Flight /\ inFlight = <<Flight>>
        /\ ~isCommitting => Flight = <<>>
        /\ isCommitting /\ ~applied => WaitingInFlight = Flight
        /\ ~isCommitting \/ applied => WaitingInFlight = <<>>
    BY <2>1, ManagerIs
  <2>3. CASE CommitOnTimeout
    <3>1. ~isCommitting /\ StartCommit /\ UNCHANGED <<dbLog, replies>>
      BY <2>3 DEF CommitOnTimeout
    <3>2. /\ Flight' = WaitingBatch /\ WaitingInFlight' = WaitingBatch /\ WaitingBatch' = <<>>
          /\ LogsTyped' /\ applied' = FALSE
      BY <1>1, <2>1, <3>1, StartCommitIs
    <3>3. RepliesOK'
      <4>1. Reqs(dbLog)' = Reqs(dbLog)
        BY <3>1 DEF Reqs, Elems
      <4> QED BY <2>1, <3>1, <3>2, <4>1 DEF RepliesOK
    <3>4. StateIs(dbLog, <<>>, WaitingBatch, <<>>, counter, uidCounter, listing, readQueue, cache)
      BY <2>1, <2>2, <3>1
    <3>5. StateIs(dbLog, WaitingBatch, <<>>, WaitingBatch, counter, uidCounter, listing, readQueue, cache)
      BY <3>4, LaunchedOK
    <3> QED BY <1>1, <3>1, <3>2, <3>3, <3>5, NextCore
  <2>4. CASE DeferOnTimeout
    <3>1. UNCHANGED <<batchCache, inFlight, applied, dbLog, replies>>
      BY <2>4 DEF DeferOnTimeout
    <3>2. Flight' = Flight /\ WaitingInFlight' = WaitingInFlight /\ WaitingBatch' = WaitingBatch
      BY <3>1 DEF Flight, WaitingInFlight, isCommitting, WaitingBatch
    <3>3. LogsTyped'
      BY <1>1, <2>1, <3>1, <3>2 DEF LogsTyped
    <3>4. Reqs(dbLog)' = Reqs(dbLog) /\ Reqs(Flight)' = Reqs(Flight)
      BY <3>1, <3>2 DEF Reqs, Elems
    <3>5. RepliesOK'
      BY <2>1, <3>1, <3>4 DEF RepliesOK
    <3> QED BY <1>1, <2>1, <3>1, <3>2, <3>3, <3>5, NextCore
  <2>5. CASE DbApply
    <3>1. /\ isCommitting /\ ~applied /\ applied' = TRUE /\ dbLog' = dbLog \o Flight
          /\ UNCHANGED <<batchCache, inFlight, replies>>
      BY <2>2, <2>5 DEF DbApply
    <3>2. Flight' = Flight /\ WaitingBatch' = WaitingBatch /\ WaitingInFlight' = <<>>
      BY <3>1 DEF Flight, WaitingInFlight, isCommitting, WaitingBatch
    <3>3. dbLog \o Flight \in Seq(VrEntry) /\ Reqs(dbLog \o Flight) = Reqs(dbLog) \cup Reqs(Flight)
      BY <2>2, LogsOfBoth
    <3>4. LogsTyped'
      BY <1>1, <2>1, <3>1, <3>2, <3>3 DEF LogsTyped
    <3>5. Reqs(dbLog)' = Reqs(dbLog) \cup Reqs(Flight) /\ Reqs(Flight)' = Reqs(Flight)
      <4>1. PICK a, f : a = dbLog \o Flight /\ f = Flight
        OBVIOUS
      <4>2. Reqs(dbLog)' = Reqs(a) /\ Reqs(Flight)' = Reqs(f)
        BY <3>1, <3>2, <4>1 DEF Reqs, Elems
      <4> QED BY <3>3, <4>1, <4>2
    <3>6. RepliesOK'
      BY <2>1, <3>1, <3>5 DEF RepliesOK
    <3>7. StateIs(dbLog, Flight, WaitingBatch, Flight, counter, uidCounter, listing, readQueue, cache)
      BY <2>1, <2>2, <3>1
    <3>8. StateIs(dbLog \o Flight, <<>>, WaitingBatch, Flight, counter, uidCounter, listing, readQueue, cache)
      BY <2>2, <3>7, AppliedOK
    <3> QED BY <1>1, <3>1, <3>2, <3>4, <3>6, <3>8, NextCore
  <2> QED BY <2>3, <2>4, <2>5 DEF Background
<1> QED BY <1>1, <1>2, <1>3 DEF Steps

\* The end of a commit.
LEMMA CommitDoneSteps ==
    ASSUME uidCounter \in Nat, QueueTyped(readQueue), VrCommitDone
    PROVE  Steps
<1>1. UNCHANGED <<scenario, readQueue, counter, uidCounter, listing>> /\ CommitDone /\ CacheClear({inFlight[1]})
  BY DEF VrCommitDone, NotCommitting, listVars
<1>2. QueueTyped(readQueue)'
  BY <1>1 DEF QueueTyped
<1>3. ASSUME CoreInv PROVE CoreInv'
  <2>1. /\ LogsTyped /\ RepliesOK
        /\ StateIs(dbLog, WaitingInFlight, WaitingBatch, Flight, counter, uidCounter, listing, readQueue, cache)
    BY <1>3, CoreIs
  <2>2. /\ isCommitting /\ applied /\ Answer({Flight}, "ok") /\ dbLog' = dbLog /\ CacheClear({Flight})
        /\ WaitingInFlight = <<>> /\ Flight \in Seq(VrEntry) /\ WaitingBatch \in Seq(VrEntry)
    <3>1. isCommitting /\ applied /\ Answer({inFlight[1]}, "ok") /\ dbLog' = dbLog
      BY <1>1 DEF CommitDone
    <3>2. inFlight[1] = Flight /\ WaitingInFlight = <<>> /\ Flight \in Seq(VrEntry) /\ WaitingBatch \in Seq(VrEntry)
      BY <2>1, <3>1, ManagerIs
    <3> QED BY <1>1, <3>1, <3>2
  <2> DEFINE ca == IF cache # <<>> /\ cache[1].signature \in MasterSigs(Flight) THEN <<>> ELSE cache
  <2>3. cache' = ca
    BY <2>2, CacheClearIs
  <2>4. StateIs(dbLog, <<>>, WaitingBatch, <<>>, counter, uidCounter, listing, readQueue, ca)
    BY <2>1, <2>2, AnsweredOK
  <2> HIDE DEF ca
  <2>5. /\ replies' \in [Requests -> Seq({"ok", "error"})]
        /\ \A r \in Requests : replies'[r] = <<"ok">> => r \in Reqs(dbLog)
    <3>1. /\ replies' \in [Requests -> Seq({"ok", "error"})]
          /\ \A r \in Requests : replies'[r] = <<"ok">> =>
                 \/ replies[r] = <<"ok">>
                 \/ "ok" = "ok" /\ \E b \in {Flight} : r \in Reqs(b)
      <4>1. "ok" \in {"ok", "error"}
        OBVIOUS
      <4> QED BY <2>1, <2>2, <4>1, AnswerIs
    <3>2. Reqs(Flight) \subseteq Reqs(dbLog) /\ \A r \in Requests : replies[r] = <<"ok">> => r \in Reqs(dbLog)
      BY <2>1, <2>2 DEF RepliesOK
    <3> QED BY <3>1, <3>2
  <2>6. applied' = FALSE => RepliesOK'
    <3>1. Reqs(dbLog)' = Reqs(dbLog)
      BY <2>2 DEF Reqs, Elems
    <3> QED BY <2>5, <3>1 DEF RepliesOK
  <2>7. CASE batchCache # <<>> /\ ~timer
    <3>1. StartCommit
      BY <1>1, <2>7 DEF CommitDone
    <3>2. /\ Flight' = WaitingBatch /\ WaitingInFlight' = WaitingBatch /\ WaitingBatch' = <<>>
          /\ LogsTyped' /\ applied' = FALSE
      BY <1>1, <2>1, <2>2, <3>1, StartCommitIs
    <3>3. StateIs(dbLog, WaitingBatch, <<>>, WaitingBatch, counter, uidCounter, listing, readQueue, ca)
      BY <2>4, LaunchedOK
    <3> QED BY <1>1, <2>2, <2>3, <2>6, <3>2, <3>3, NextCore
  <2>8. CASE ~(batchCache # <<>> /\ ~timer)
    <3>1. inFlight' = <<>> /\ applied' = FALSE /\ batchCache' = batchCache
      BY <1>1, <2>8 DEF CommitDone
    <3>2. Flight' = <<>> /\ WaitingInFlight' = <<>> /\ WaitingBatch' = WaitingBatch
      BY <3>1 DEF Flight, WaitingInFlight, isCommitting, WaitingBatch
    <3>3. LogsTyped'
      <4>1. <<>> \in Seq(VrEntry)
        OBVIOUS
      <4> QED BY <1>1, <2>1, <2>2, <3>1, <3>2, <4>1 DEF LogsTyped
    <3> QED BY <1>1, <2>2, <2>3, <2>4, <2>6, <3>1, <3>2, <3>3, NextCore
  <2> QED BY <2>7, <2>8
<1> QED BY <1>1, <1>2, <1>3 DEF Steps

\* A commit fails, and the gathered batch with it.
LEMMA CommitFailedSteps ==
    ASSUME uidCounter \in Nat, QueueTyped(readQueue), VrCommitFailed
    PROVE  Steps
<1> DEFINE Batches == {inFlight[1]} \cup {batchCache[i] : i \in DOMAIN batchCache}
<1>1. UNCHANGED <<scenario, readQueue, counter, uidCounter, listing>> /\ CommitFailed /\ CacheClear(Batches)
  BY DEF VrCommitFailed, NotCommitting, listVars
<1>2. QueueTyped(readQueue)'
  BY <1>1 DEF QueueTyped
<1>3. ASSUME CoreInv PROVE CoreInv'
  <2>1. /\ LogsTyped /\ RepliesOK
        /\ StateIs(dbLog, WaitingInFlight, WaitingBatch, Flight, counter, uidCounter, listing, readQueue, cache)
    BY <1>3, CoreIs
  <2>2. /\ isCommitting /\ ~applied /\ Answer(Batches, "error")
        /\ batchCache' = <<>> /\ inFlight' = <<>> /\ applied' = applied /\ dbLog' = dbLog
    BY <1>1 DEF CommitFailed
  <2>3. /\ inFlight[1] = Flight /\ WaitingInFlight = Flight
        /\ Flight \in Seq(VrEntry) /\ WaitingBatch \in Seq(VrEntry)
        /\ batchCache # <<>> => batchCache = <<WaitingBatch>>
        /\ batchCache = <<>> => WaitingBatch = <<>>
    BY <2>1, <2>2, ManagerIs
  <2>4. /\ StateIs(dbLog, <<>>, <<>>, <<>>, counter, uidCounter, listing, readQueue, <<>>)
        /\ cache # <<>> => cache[1].signature \in MasterSigs(Flight) \cup MasterSigs(WaitingBatch)
    BY <2>1, <2>3, GivenUpOK
  <2>5. Flight \in Batches /\ (WaitingBatch \in Batches \/ MasterSigs(WaitingBatch) = {})
    <3>1. CASE batchCache = <<>>
      BY <2>3, <3>1 DEF MasterSigs, Elems
    <3>2. CASE batchCache # <<>>
      <4>1. 1 \in DOMAIN batchCache /\ batchCache[1] = WaitingBatch
        BY <2>3, <3>2
      <4> QED BY <2>3, <4>1
    <3> QED BY <3>1, <3>2
  <2> HIDE DEF Batches
  <2>6. cache' = <<>>
    <3>1. cache' = IF cache # <<>> /\ \E b \in Batches : cache[1].signature \in MasterSigs(b) THEN <<>> ELSE cache
      BY <1>1, CacheClearIs
    <3> QED BY <2>4, <2>5, <3>1
  <2>7. Flight' = <<>> /\ WaitingInFlight' = <<>> /\ WaitingBatch' = <<>>
    BY <2>2 DEF Flight, WaitingInFlight, isCommitting, WaitingBatch
  <2>8. LogsTyped'
    <3>1. <<>> \in Seq(VrEntry)
      OBVIOUS
    <3> QED BY <1>1, <2>1, <2>2, <2>7, <3>1 DEF LogsTyped
  <2>9. RepliesOK'
    <3>1. /\ replies' \in [Requests -> Seq({"ok", "error"})]
          /\ \A r \in Requests : replies'[r] = <<"ok">> =>
                 \/ replies[r] = <<"ok">>
                 \/ "error" = "ok" /\ \E b \in Batches : r \in Reqs(b)
      <4>1. "error" \in {"ok", "error"}
        OBVIOUS
      <4> QED BY <2>1, <2>2, <4>1, AnswerIs
    <3>2. Reqs(dbLog)' = Reqs(dbLog)
      BY <2>2 DEF Reqs, Elems
    <3> QED BY <2>1, <2>2, <3>1, <3>2 DEF RepliesOK
  <2> QED BY <1>1, <2>2, <2>4, <2>6, <2>7, <2>8, <2>9, NextCore
<1> QED BY <1>1, <1>2, <1>3 DEF Steps

-----------------------------------------------------------------------------
(* The invariant, and what follows from it.                                *)

\* The database to begin with is an image without anything gone.
LEMMA InitialImage ==
    ASSUME scenario \in Scenarios, OnlyVersions
    PROVE  InitialDb[scenario] \in Dbs /\ ImageOK(InitialDb[scenario], {}, 0)
<1> DEFINE f == InitialDb[scenario]
<1>1. f \in Dbs /\ Master \in Keys /\ Vids \subseteq Keys /\ Master \notin Vids
  BY Parameters
<1>2. /\ f[NullKey] = NoValue
      /\ \A k \in Keys : f[k] # NoValue =>
             /\ ~f[k].phd /\ ~f[k].null
             /\ IF k = Master THEN f[k].vid # NoVid ELSE f[k].vid = k
  BY DEF OnlyVersions
<1>3. DbOK(f, 0)
  BY <1>1, <1>2 DEF DbOK
<1>4. Excludes(f, {})
  BY DEF Excludes
<1>5. SortedOK(f)
  BY <1>1, <1>2 DEF SortedOK, Sorted, PutsOnly
<1> QED BY <1>1, <1>3, <1>4, <1>5 DEF ImageOK

\* Every database of versions is a good one to begin with.
LEMMA InitInv ==
    ASSUME VrInit
    PROVE  VersionsInv
<1>1. /\ WgInit /\ scenario \in Scenarios /\ cache = <<>> /\ readQueue = <<>> /\ counter = 0
      /\ uidCounter = 0 /\ listing = <<>>
  BY DEF VrInit
<1>2. uidCounter \in Nat /\ QueueTyped(readQueue)
  BY <1>1 DEF QueueTyped
<1>3. ASSUME OnlyVersions PROVE CoreInv
  <2>1. /\ batchCache = <<>> /\ inFlight = <<>> /\ applied = FALSE /\ dbLog = <<>>
        /\ replies = [r \in Requests |-> <<>>]
    BY <1>1 DEF WgInit
  <2>2. Flight = <<>> /\ WaitingInFlight = <<>> /\ WaitingBatch = <<>>
    BY <2>1 DEF Flight, WaitingInFlight, WaitingBatch, isCommitting
  <2>3. <<>> \in Seq(VrEntry) /\ <<>> \in Seq({"ok", "error"}) /\ <<>> # <<"ok">>
    OBVIOUS
  <2>4. LogsTyped
    BY <1>1, <2>1, <2>2, <2>3 DEF LogsTyped
  <2>5. RepliesOK
    BY <2>1, <2>3 DEF RepliesOK
  <2>6. PICK d : d = InitialDb[scenario]
    OBVIOUS
  <2>7. d \in Dbs /\ ImageOK(d, {}, 0)
    BY <1>1, <1>3, <2>6, InitialImage
  <2>8. /\ Over(<<>>, d) = d /\ GoneIn(<<>>) = {} /\ Elems(<<>>) = {} /\ Sigs(<<>>) = {}
        /\ MasterSigs(<<>>) = {}
    BY <2>7, OverNothing
  <2>9. BothAgree(d, d)
    BY DEF BothAgree, Agrees
  <2>10. PartsOK(d, d, d, {}, {}, {}, <<>>, <<>>, 0, 0, <<>>, <<>>, <<>>)
    BY <2>7, <2>8, <2>9 DEF PartsOK
  <2>11. d = Over(<<>>, InitialDb[scenario]) /\ d = Over(<<>>, d) /\ {} = GoneIn(<<>>) /\ {} = {} \cup GoneIn(<<>>)
    BY <2>6, <2>8
  <2>12. StateIs(<<>>, <<>>, <<>>, <<>>, 0, 0, <<>>, <<>>, <<>>)
    BY <2>10, <2>11, PartsAre
  <2> QED BY <1>1, <2>1, <2>2, <2>4, <2>5, <2>12, CoreIs
<1> QED BY <1>2, <1>3 DEF VersionsInv, Premise

\* Every action steps, in a scenario of versions.
LEMMA NextSteps ==
    ASSUME OnlyVersions, uidCounter \in Nat, QueueTyped(readQueue), [VrNext]_vrVars
    PROVE  Steps
<1>1. ASSUME NEW r \in Requests, BlindRequest(r) PROVE FALSE
  BY <1>1 DEF BlindRequest, IsBlind, Start, OnlyVersions
<1>2. ASSUME NEW r \in Requests, VersionRequest(r) PROVE Steps
  BY <1>2, VersionRequestSteps
<1>3. ASSUME NEW r \in Requests, GetRead(r) PROVE Steps
  BY <1>3, GetSteps
<1>4. ASSUME NEW read \in reads, GetDone(read) PROVE Steps
  BY <1>4, GetSteps
<1>5. CASE MasterRead
  BY <1>5, MasterReadSteps
<1>6. CASE MasterReadDone
  BY <1>6, MasterReadDoneSteps
<1>7. CASE RepairTimeout
  BY <1>7, GetSteps
<1>8. CASE ListRead
  BY <1>8, ListReadSteps
<1>9. CASE ListDone
  BY <1>9, ListDoneSteps
<1>10. CASE VrCommitDone
  BY <1>10, CommitDoneSteps
<1>11. CASE VrCommitFailed
  BY <1>11, CommitFailedSteps
<1>12. CASE Background
  BY <1>12, BackgroundSteps
<1>13. CASE UNCHANGED vrVars
  <2>1. UNCHANGED <<scenario, wgVars, cache, readQueue, counter, uidCounter, listing>>
    BY <1>13 DEF vrVars, cacheVars, listVars
  <2> QED BY <2>1, UnchangedSteps
<1> QED BY <1>1, <1>2, <1>3, <1>4, <1>5, <1>6, <1>7, <1>8, <1>9, <1>10, <1>11, <1>12, <1>13 DEF VrNext

\* Every step preserves the invariant, in any scenario.
LEMMA NextInv ==
    ASSUME VersionsInv, [VrNext]_vrVars
    PROVE  VersionsInv'
<1>1. scenario' = scenario
  <2>1. ASSUME NEW T, Finish(T) PROVE scenario' = scenario
    BY <2>1 DEF Finish
  <2>2. ASSUME NEW r, BlindRequest(r) PROVE scenario' = scenario
    BY <2>2, <2>1, Zenon DEF BlindRequest
  <2>3. ASSUME NEW r, VersionRequest(r) PROVE scenario' = scenario
    BY <2>1, <2>3 DEF VersionRequest
  <2>4. ASSUME NEW r, GetRead(r) PROVE scenario' = scenario
    BY <2>4 DEF GetRead
  <2>5. ASSUME NEW read, GetDone(read) PROVE scenario' = scenario
    BY <2>1, <2>5, Zenon DEF GetDone
  <2>6. CASE MasterRead \/ ListRead
    BY <2>6 DEF MasterRead, ListRead
  <2>7. CASE MasterReadDone
    BY <2>1, <2>7, Zenon DEF MasterReadDone
  <2>8. CASE RepairTimeout
    BY <2>1, <2>8, Zenon DEF RepairTimeout
  <2>9. CASE ListDone
    BY <2>1, <2>9, Zenon DEF ListDone
  <2>10. CASE VrCommitDone \/ VrCommitFailed \/ Background
    BY <2>10 DEF VrCommitDone, VrCommitFailed, Background, NotCommitting
  <2>11. CASE UNCHANGED vrVars
    BY <2>11 DEF vrVars
  <2> QED BY <2>2, <2>3, <2>4, <2>5, <2>6, <2>7, <2>8, <2>9, <2>10, <2>11 DEF VrNext
<1>2. (OnlyVersions' <=> OnlyVersions) /\ (Apart' <=> Apart)
  BY <1>1, ScenarioStays
<1>3. ASSUME OnlyVersions
      PROVE  /\ uidCounter' \in Nat /\ QueueTyped(readQueue)'
             /\ Apart /\ uidCounter' <= FirstVid => CoreInv'
  <2>1. uidCounter \in Nat /\ QueueTyped(readQueue) /\ (Premise(uidCounter) => CoreInv)
    BY <1>3 DEF VersionsInv
  <2>2. Steps
    BY <1>3, <2>1, NextSteps
  <2>3. uidCounter' \in Nat /\ uidCounter <= uidCounter' /\ QueueTyped(readQueue)'
    BY <2>2 DEF Steps
  <2>4. ASSUME Apart, uidCounter' <= FirstVid PROVE CoreInv'
    <3>1. uidCounter <= FirstVid
      BY <2>1, <2>3, <2>4, Parameters
    <3> QED BY <1>3, <2>1, <2>2, <2>4, <3>1 DEF Premise, Steps
  <2> QED BY <2>3, <2>4
<1> QED BY <1>2, <1>3 DEF VersionsInv, Premise

\* Versions that are put and deleted by their ids, whatever is cached, gathered, in flight and
\* listed: what the manager has and the database will come to agree in what the requests rely on.
THEOREM VersionsInvariant == VrSafety => []VersionsInv
<1>1. VrInit => VersionsInv
  BY InitInv
<1>2. VersionsInv /\ [VrNext]_vrVars => VersionsInv'
  BY NextInv
<1> QED BY <1>1, <1>2, PTL DEF VrSafety

\* A version whose deletion was acknowledged is not in the database, not its master, and nothing
\* that is gathered brings it back: for any number of calls, put in any order, with a database
\* that may fail, as long as the deleted versions are not put again.
THEOREM DeletionsStay ==
    VrSafety => [](OnlyVersions /\ Apart /\ uidCounter <= FirstVid => DeletedStaysDeleted)
<1>1. ASSUME VersionsInv, OnlyVersions, Apart, uidCounter <= FirstVid PROVE DeletedStaysDeleted
  <2>1. RepliesOK /\ ImagesOK(<<>>, uidCounter) /\ GatheredOK(<<>>)
    BY <1>1 DEF VersionsInv, Premise, CoreInv
  <2>2. SUFFICES ASSUME NEW r \in Requests, IsDeleted(r), Op[r].isNull # "true"
                 PROVE  LET vid   == Op[r].vid
                            batch == IF batchCache = <<>> THEN <<>> ELSE batchCache[1]
                        IN  /\ Stored(vid) = NoValue
                            /\ Stored(Master) # NoValue => Stored(Master).vid # vid
                            /\ \A i \in DOMAIN batch : batch[i].value # NoValue => batch[i].value.vid # vid
    BY DEF DeletedStaysDeleted
  <2> DEFINE vid == Op[r].vid
  <2>3. vid \in DiskGone /\ vid \in FlownGone
    <3>1. r \in Reqs(dbLog) /\ Op[r].type = "delVersion"
      BY <2>1, <2>2 DEF IsDeleted, RepliesOK
    <3> QED BY <3>1 DEF DiskGone, FlownGone, GoneIn
  <2> HIDE DEF vid
  <2>4. vid \in Vids /\ Disk[vid] = NoValue /\ (Disk[Master] # NoValue => Disk[Master].vid # vid)
    BY <2>1, <2>3 DEF ImagesOK, ImageOK, Excludes
  <2>5. Stored(vid) = Disk[vid] /\ Stored(Master) = Disk[Master]
    BY <2>4, StoredIs, Parameters
  <2>6. \A i \in DOMAIN WaitingBatch : WaitingBatch[i].value # NoValue => WaitingBatch[i].value.vid # vid
    <3>1. Gathered(<<>>) = WaitingBatch
      BY DEF Gathered
    <3> QED BY <2>1, <2>3, <3>1 DEF GatheredOK, Elems
  <2> QED BY <2>4, <2>5, <2>6 DEF vid, WaitingBatch
<1> QED BY <1>1, VersionsInvariant, PTL

\* Once nothing is under way the master is the newest version, with its content, or a place
\* holder: where versions are only put, or only deleted, and the database was so to begin with.
THEOREM LatestIsMaster ==
    VrSafety => [](OnlyVersions /\ Apart /\ uidCounter <= FirstVid /\ Sorted => MasterIsLatest)
<1>1. ASSUME VersionsInv, OnlyVersions, Apart, uidCounter <= FirstVid, Sorted PROVE MasterIsLatest
  <2>1. ImagesOK(<<>>, uidCounter)
    BY <1>1 DEF VersionsInv, Premise, CoreInv
  <2>2. DbOK(Disk, uidCounter) /\ LatestOK(Disk)
    BY <1>1, <2>1 DEF ImagesOK, ImageOK, SortedOK
  <2>3. PICK f : f = Disk
    OBVIOUS
  <2>4. Stored(Master) = f[Master] /\ Stored(NullKey) = f[NullKey] /\ \A v \in Vids : Stored(v) = f[v]
    BY <2>3, StoredIs, Parameters
  <2>5. f[NullKey] = NoValue /\ f \in Dbs /\ Master \in Keys
    BY <2>2, <2>3, Parameters DEF DbOK
  <2>6. f[Master] # NoValue /\ f[Master].vid # NoVid => f[Master].vid \in Vids
    BY <2>5 DEF Dbs, Value
  <2>7. Present = {v \in Vids : f[v] # NoValue}
    BY <2>4 DEF Present
  <2> QED BY <2>2, <2>3, <2>4, <2>5, <2>6, <2>7 DEF LatestOK, MasterIsLatest, MasterLeads
<1> QED BY <1>1, VersionsInvariant, PTL
================================================================================
