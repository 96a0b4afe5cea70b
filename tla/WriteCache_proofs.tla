----------------------------- MODULE WriteCache_proofs -----------------------------
(***************************************************************************)
(* Proofs about the write cache: for every set of requests of every kind,  *)
(* every interleaving of the turns of the event loop with the manager and  *)
(* with the database, a cached value is that of a write on its way, and    *)
(* versioning updates are isolated from each other.                        *)
(*                                                                         *)
(* The batches and the database are read as one history of operations, and *)
(* a turn of the event loop as a sequence of operations that it appends:   *)
(* each callback of a turn continues the chain in which every operation    *)
(* was computed from the value that the one before it wrote.               *)
(***************************************************************************)
EXTENDS WriteCache, SequenceTheorems, WellFoundedInduction, TLAPS

\* The operations on the one key that is modelled.
Op == [req : Requests, index : {1}, value : Values, over : Values, signature : Nat]

\* A slot of the manager holds no batch, or one that is not empty.
IsSlot(slot) ==
    /\ slot \in Seq(Seq(Op))
    /\ slot # <<>> => Len(slot) = 1 /\ slot[1] # <<>>

\* The batch in a slot.
Content(slot) == IF slot = <<>> THEN <<>> ELSE slot[1]

\* The state of the manager and of the database behind it.
ManagerInv ==
    /\ IsSlot(inFlight) /\ IsSlot(batchCache)
    /\ dbLog \in Seq(Op)
    /\ submitted \in Seq(Requests)
    /\ replies \in [Requests -> Seq(Replies)]
    /\ applied \in BOOLEAN /\ timer \in BOOLEAN
    /\ applied => inFlight # <<>>

\* A queue of reads and a cached value exclude each other; the database is asked on behalf of
\* the queue that is there, or of one that is gone.
QueueInv ==
    /\ queue # <<>> =>
        /\ cache = <<>>
        /\ queue[1].signature = counter
        /\ \A i \in DOMAIN queue[1].callbacks : IsRead(queue[1].callbacks[i])
    /\ \A g \in dbGets :
        /\ g.signature <= counter
        /\ queue = <<>> => g.signature < counter

\* The value of the key after the operations of h, which was from before them.
LastValue(h, from) == IF h = <<>> THEN from ELSE h[Len(h)].value

\* Each operation was computed from the value that the one before it wrote.
IsChain(h, from) ==
    \A i \in DOMAIN h : h[i].over = IF i = 1 THEN from ELSE h[i - 1].value

\* Every operation is that of an update, which writes a value.
AllUpdates(h) == \A i \in DOMAIN h : Kind[h[i].req] = "update" /\ h[i].value # NoValue

\* The batch being committed, the batch being gathered, and both in commit order.
Flying == Content(inFlight)
Gathered == Content(batchCache)
Pending == Flying \o Gathered

\* A batch that is not answered yet has its last value in the cache, with its signature; a
\* signature is that of one batch.
CurrencyInv ==
    /\ Pending # <<>> =>
        /\ cache # <<>>
        /\ cache[1].value = Pending[Len(Pending)].value
        /\ cache[1].signature = Pending[Len(Pending)].signature
    /\ \A i \in DOMAIN Pending : Pending[i].signature < counter
    /\ \A i \in DOMAIN Flying, j \in DOMAIN Gathered : Flying[i].signature < Gathered[j].signature

\* What is in the database and what waits for it is one chain of updates; a read of the
\* database for the queue that is there has seen the end of it.
ChainInv ==
    /\ AllUpdates(dbLog) /\ AllUpdates(Flying) /\ AllUpdates(Gathered)
    /\ IsChain(dbLog \o Outstanding, Initial)
    /\ applied => LastValue(dbLog, Initial) = LastValue(Flying, Initial)
    /\ \A g \in dbGets :
        g.read /\ queue # <<>> /\ g.signature = queue[1].signature => g.value = Stored

\* The last part is about updates only; for the chain the key must exist to begin with.
WcInv ==
    /\ WcTypeOK
    /\ ManagerInv
    /\ QueueInv
    /\ NoOrphanCacheEntry
    /\ OnlyUpdates => CurrencyInv /\ (Initial # NoValue => ChainInv)

-----------------------------------------------------------------------------
(* Sequences of operations.                                                *)

\* What a slot holds is a sequence of operations, empty if the slot is.
LEMMA SlotContent ==
    ASSUME NEW slot, IsSlot(slot)
    PROVE  /\ Content(slot) \in Seq(Op)
           /\ slot = <<>> <=> Content(slot) = <<>>
           /\ slot # <<>> => DOMAIN slot = {1} /\ Content(slot) = slot[1] /\ slot[1] \in Seq(Op)
<1>1. CASE slot = <<>>
  BY <1>1, EmptySeq DEF Content
<1>2. CASE slot # <<>>
  <2>1. slot \in Seq(Seq(Op)) /\ Len(slot) = 1 /\ slot[1] # <<>>
    BY <1>2 DEF IsSlot
  <2>2. slot[1] \in Seq(Op) /\ DOMAIN slot = {1}
    BY <2>1, ElementOfSeq, LenProperties
  <2> QED BY <1>2, <2>1, <2>2 DEF Content
<1> QED BY <1>1, <1>2

\* A batch that is not empty fills a slot.
LEMMA FilledSlot ==
    ASSUME NEW b \in Seq(Op), b # <<>>
    PROVE  IsSlot(<<b>>) /\ <<b>> # <<>> /\ Content(<<b>>) = b
<1>1. <<b>> \in Seq(Seq(Op)) /\ Len(<<b>>) = 1 /\ <<b>>[1] = b
  OBVIOUS
<1>2. <<b>> # <<>>
  BY <1>1, EmptySeq
<1> QED BY <1>1, <1>2 DEF IsSlot, Content

\* No batch is a slot too.
LEMMA FreeSlot == IsSlot(<<>>) /\ Content(<<>>) = <<>>
  BY EmptySeq DEF IsSlot, Content

\* The places of two sequences, one after the other.
LEMMA PlacesOfBoth ==
    ASSUME NEW S, NEW h \in Seq(S), NEW k \in Seq(S)
    PROVE  /\ h \o k \in Seq(S)
           /\ Len(h) \in Nat /\ Len(k) \in Nat /\ Len(h \o k) = Len(h) + Len(k)
           /\ DOMAIN h = 1..Len(h) /\ DOMAIN k = 1..Len(k)
           /\ DOMAIN (h \o k) = 1..(Len(h) + Len(k))
           /\ \A i \in 1..Len(h) : (h \o k)[i] = h[i]
           /\ \A i \in 1..Len(k) : (h \o k)[Len(h) + i] = k[i]
           /\ \A i \in 1..(Len(h) + Len(k)) :
                i \in 1..Len(h) \/ \E j \in 1..Len(k) : i = Len(h) + j
<1>1. /\ Len(h) \in Nat /\ Len(k) \in Nat
      /\ DOMAIN h = 1..Len(h) /\ DOMAIN k = 1..Len(k)
  BY LenProperties
<1>2. /\ h \o k \in Seq(S)
      /\ Len(h \o k) = Len(h) + Len(k)
      /\ \A i \in 1 .. Len(h) + Len(k) :
            (h \o k)[i] = IF i <= Len(h) THEN h[i] ELSE k[i - Len(h)]
  BY ConcatProperties
<1>3. DOMAIN (h \o k) = 1..(Len(h) + Len(k))
  BY <1>2, LenProperties
<1>4. \A i \in 1..Len(h) : (h \o k)[i] = h[i]
  BY <1>1, <1>2
<1>5. ASSUME NEW i \in 1..Len(k) PROVE (h \o k)[Len(h) + i] = k[i]
  <2>1. /\ Len(h) + i \in 1 .. Len(h) + Len(k)
        /\ ~(Len(h) + i <= Len(h))
        /\ Len(h) + i - Len(h) = i
    BY <1>1
  <2> QED BY <1>2, <2>1
<1>6. ASSUME NEW i \in 1..(Len(h) + Len(k)), i \notin 1..Len(h)
      PROVE  \E j \in 1..Len(k) : i = Len(h) + j
  <2>1. i - Len(h) \in 1..Len(k) /\ i = Len(h) + (i - Len(h))
    BY <1>1, <1>6
  <2> QED BY <2>1
<1> QED BY <1>1, <1>2, <1>3, <1>4, <1>5, <1>6

\* The last value of two sequences is that of the second, unless it is empty.
LEMMA LastOfBoth ==
    ASSUME NEW h \in Seq(Op), NEW k \in Seq(Op), NEW from
    PROVE  LastValue(h \o k, from) = LastValue(k, LastValue(h, from))
<1>1. CASE k = <<>>
  <2>1. h \o k = h
    BY <1>1, ConcatEmptySeq
  <2> QED BY <1>1, <2>1 DEF LastValue
<1>2. CASE k # <<>>
  <2>1. Len(k) \in 1..Len(k) /\ Len(h) \in Nat
    BY <1>2, EmptySeq, LenProperties
  <2>2. (h \o k)[Len(h) + Len(k)] = k[Len(k)] /\ Len(h \o k) = Len(h) + Len(k)
    BY <2>1, PlacesOfBoth
  <2>3. h \o k # <<>>
    BY <1>2, ConcatEqualIffEmpty
  <2> QED BY <1>2, <2>2, <2>3 DEF LastValue
<1> QED BY <1>1, <1>2

\* A chain is continued by one that begins at its last value.
LEMMA ChainOfBoth ==
    ASSUME NEW h \in Seq(Op), NEW k \in Seq(Op), NEW from,
           IsChain(h, from), IsChain(k, LastValue(h, from))
    PROVE  IsChain(h \o k, from)
<1> DEFINE both == h \o k
           n == Len(h)
           m == Len(k)
           Continues(i) == both[i].over = IF i = 1 THEN from ELSE both[i - 1].value
<1>1. /\ n \in Nat /\ m \in Nat /\ DOMAIN h = 1..n /\ DOMAIN k = 1..m
      /\ DOMAIN both = 1..(n + m)
      /\ \A i \in 1..n : both[i] = h[i]
      /\ \A i \in 1..m : both[n + i] = k[i]
      /\ \A i \in 1..(n + m) : i \in 1..n \/ \E j \in 1..m : i = n + j
  BY PlacesOfBoth
<1> HIDE DEF both
<1>2. h = <<>> <=> n = 0
  BY EmptySeq
<1> HIDE DEF n, m
<1>3. ASSUME NEW i \in 1..n PROVE Continues(i)
  <2>1. h[i].over = IF i = 1 THEN from ELSE h[i - 1].value
    BY <1>1 DEF IsChain
  <2>2. i # 1 => i - 1 \in 1..n
    BY <1>1
  <2> QED BY <1>1, <2>1, <2>2
<1>4. ASSUME NEW j \in 1..m PROVE Continues(n + j)
  <2>1. k[j].over = IF j = 1 THEN LastValue(h, from) ELSE k[j - 1].value
    BY <1>1 DEF IsChain
  <2>2. both[n + j] = k[j]
    BY <1>1
  <2>3. CASE j = 1 /\ n = 0
    <3>1. LastValue(h, from) = from
      BY <1>2, <2>3 DEF LastValue
    <3> QED BY <2>1, <2>2, <2>3, <3>1
  <2>4. CASE j = 1 /\ n # 0
    <3>1. LastValue(h, from) = h[n].value
      BY <1>2, <2>4 DEF LastValue, n
    <3>2. n \in 1..n /\ n + j - 1 = n /\ n + j # 1
      BY <1>1, <2>4
    <3>3. both[n] = h[n]
      BY <1>1, <3>2
    <3> QED BY <2>1, <2>2, <2>4, <3>1, <3>2, <3>3
  <2>5. CASE j # 1
    <3>1. j - 1 \in 1..m /\ n + j - 1 = n + (j - 1) /\ n + j # 1
      BY <1>1, <2>5
    <3>2. both[n + (j - 1)] = k[j - 1]
      BY <1>1, <3>1
    <3>3. both[n + j].over = both[n + (j - 1)].value
      BY <2>1, <2>2, <2>5, <3>2
    <3>4. both[n + j].over = both[n + j - 1].value
      BY <3>1, <3>3, Zenon
    <3> DEFINE p == n + j
    <3>5. p # 1 /\ both[p].over = both[p - 1].value
      BY <1>1, <3>1, <3>4
    <3> HIDE DEF p
    <3>6. Continues(p)
      BY <3>5
    <3> QED BY <3>6 DEF p
  <2> QED BY <2>3, <2>4, <2>5
<1>5. \A i \in DOMAIN both : Continues(i)
  <2> HIDE DEF Continues
  <2> QED BY <1>1, <1>3, <1>4
<1> QED BY <1>5 DEF IsChain, both

\* The beginning of a chain is a chain.
LEMMA ChainBegins ==
    ASSUME NEW h \in Seq(Op), NEW k \in Seq(Op), NEW from, IsChain(h \o k, from)
    PROVE  IsChain(h, from)
<1> DEFINE both == h \o k
           n == Len(h)
<1>1. /\ n \in Nat /\ Len(k) \in Nat /\ DOMAIN h = 1..n
      /\ DOMAIN both = 1..(n + Len(k))
      /\ \A i \in 1..n : both[i] = h[i]
  BY PlacesOfBoth
<1>2. \A i \in DOMAIN both : both[i].over = IF i = 1 THEN from ELSE both[i - 1].value
  BY DEF IsChain
<1> HIDE DEF both, n
<1>3. ASSUME NEW i \in 1..n
      PROVE  h[i].over = IF i = 1 THEN from ELSE h[i - 1].value
  <2>1. i \in DOMAIN both /\ (i # 1 => i - 1 \in 1..n)
    BY <1>1
  <2> QED BY <1>1, <1>2, <2>1
<1> QED BY <1>1, <1>3 DEF IsChain

\* No operation is a chain from anything.
LEMMA EmptyChain == ASSUME NEW from PROVE IsChain(<<>>, from) /\ LastValue(<<>>, from) = from
  BY DEF IsChain, LastValue

-----------------------------------------------------------------------------
(* What a turn does, callback after callback.                              *)

\* An entry of the cache, and the record of a turn.
Cached == [signature : Nat, value : Values]

TurnType == [cache : Seq(Cached), counter : Nat, out : Seq(Op), done : SUBSET Requests]

\* The entry c is the cached value of the last operation of h.
IsLast(c, h) == h # <<>> /\ c.signature = h[Len(h)].signature /\ c.value = h[Len(h)].value

\* Operations of updates, with signatures between low and high.
FreshUpdates(h, low, high) ==
    /\ AllUpdates(h)
    /\ \A i \in DOMAIN h : low <= h[i].signature /\ h[i].signature < high

\* Where the turn is after callbacks that began with the cached value c: it is still there, or
\* it is that of the last operation; and if there was no error each of them was computed from
\* the value before it.
CalledBack(t, c, low, err) ==
    /\ t \in TurnType
    /\ Len(t.cache) = 1
    /\ low <= t.counter
    /\ t.out = <<>> => t.cache[1] = c
    /\ t.out # <<>> => IsLast(t.cache[1], t.out)
    /\ FreshUpdates(t.out, low, t.counter)
    /\ err = "none" => IsChain(t.out, c.value)
    /\ err = "other" => t.out = <<>>

\* The value that an update writes is one.
LEMMA UpdateValue ==
    ASSUME NEW r \in Requests
    PROVE  /\ ValueOf(r) \in Values
           /\ Kind[r] = "update" => ValueOf(r) # NoValue
  BY KindAssumption DEF ValueOf, Values

\* The callback of a versioning update that writes.
LEMMA NestedBatchStep ==
    ASSUME NEW t, NEW c \in Cached, NEW low \in Nat, NEW err, CalledBack(t, c, low, err),
           NEW r \in Requests, Kind[r] = "update", NEW over \in Values,
           err # "other", err = "none" => over = t.cache[1].value
    PROVE  CalledBack(NestedBatch(t, r, over), c, low, err)
<1> DEFINE op == [req |-> r, index |-> 1, value |-> ValueOf(r), over |-> over,
                  signature |-> t.counter]
           u == NestedBatch(t, r, over)
           h == t.out
           n == t.counter
<1>1. /\ t \in TurnType /\ Len(t.cache) = 1 /\ low <= n
      /\ h \in Seq(Op) /\ n \in Nat /\ t.cache \in Seq(Cached)
      /\ AllUpdates(h)
      /\ \A i \in DOMAIN h : low <= h[i].signature /\ h[i].signature < n
  BY DEF CalledBack, TurnType, FreshUpdates
<1>2. ValueOf(r) \in Values /\ ValueOf(r) # NoValue
  BY UpdateValue
<1>3. op \in Op /\ op.value = ValueOf(r) /\ op.over = over /\ op.signature = n /\ op.req = r
  BY <1>1, <1>2 DEF Op
<1> DEFINE entry == [signature |-> n, value |-> ValueOf(r)]
<1>16. t = [cache |-> t.cache, counter |-> n, out |-> h, done |-> t.done]
  BY <1>1 DEF TurnType
<1>17. u = [t EXCEPT !.cache = <<entry>>, !.counter = n + 1, !.out = h \o <<op>>]
  BY Zenon DEF NestedBatch, Write
<1> HIDE DEF op, u, entry, h, n
<1>18. u = [cache |-> <<entry>>, counter |-> n + 1, out |-> h \o <<op>>, done |-> t.done]
  BY <1>16, <1>17
<1>4. /\ u.cache = <<entry>>
      /\ u.counter = n + 1
      /\ u.out = h \o <<op>>
      /\ u.done = t.done
      /\ u = [cache |-> u.cache, counter |-> u.counter, out |-> u.out, done |-> u.done]
  BY <1>18
<1>5. /\ h \o <<op>> = Append(h, op)
      /\ Append(h, op) \in Seq(Op)
      /\ Append(h, op) # <<>>
      /\ Len(Append(h, op)) = Len(h) + 1
      /\ \A i \in 1..Len(h) : Append(h, op)[i] = h[i]
      /\ Append(h, op)[Len(h) + 1] = op
  <2>1. h \in Seq(Op) /\ op \in Op
    BY <1>1, <1>3
  <2>2. h \o <<op>> = Append(h, op)
    BY <2>1, AppendIsConcat
  <2> QED BY <2>1, <2>2, AppendProperties
<1>6. u.out = Append(h, op)
  BY <1>4, <1>5
<1> DEFINE k == Append(h, op)
<1>7. Len(h) \in Nat /\ DOMAIN h = 1..Len(h) /\ DOMAIN k = 1..(Len(h) + 1)
  BY <1>1, <1>5, LenProperties
<1>8. /\ k \in Seq(Op) /\ k # <<>> /\ Len(k) = Len(h) + 1
      /\ \A i \in 1..Len(h) : k[i] = h[i]
      /\ k[Len(h) + 1] = op
      /\ \A i \in DOMAIN k : i \in DOMAIN h \/ i = Len(h) + 1
  BY <1>5, <1>7
<1> HIDE DEF k
<1>9. u \in TurnType
  <2>1. entry \in Cached
    BY <1>1, <1>2 DEF Cached, entry
  <2>2. u.cache \in Seq(Cached)
    BY <1>4, <2>1
  <2>3. u.counter \in Nat /\ u.out \in Seq(Op) /\ u.done \in SUBSET Requests
    BY <1>1, <1>4, <1>6, <1>8 DEF k, TurnType
  <2> QED BY <1>4, <2>2, <2>3 DEF TurnType
<1>10. Len(u.cache) = 1 /\ u.cache[1].signature = n /\ u.cache[1].value = ValueOf(r)
  BY <1>4 DEF entry
<1>11. IsLast(u.cache[1], k)
  BY <1>3, <1>8, <1>10 DEF IsLast
<1>12. FreshUpdates(k, low, n + 1)
  <2>1. AllUpdates(k)
    BY <1>1, <1>2, <1>3, <1>7, <1>8 DEF AllUpdates
  <2>2. \A i \in DOMAIN h : low <= k[i].signature /\ k[i].signature < n + 1
    <3>1. \A i \in DOMAIN h : k[i].signature = h[i].signature /\ h[i].signature \in Nat
      <4>1. \A i \in 1..Len(h) : h[i] \in Op
        BY <1>1, ElementOfSeq
      <4> QED BY <1>7, <1>8, <4>1 DEF Op
    <3> QED BY <1>1, <3>1
  <2>3. low <= op.signature /\ op.signature < n + 1
    BY <1>1, <1>3
  <2>4. \A i \in DOMAIN k : low <= k[i].signature /\ k[i].signature < n + 1
    BY <1>8, <2>2, <2>3
  <2> QED BY <2>1, <2>4 DEF FreshUpdates
<1>13. ASSUME err = "none" PROVE IsChain(k, c.value)
  <2>1. IsChain(h, c.value) /\ over = t.cache[1].value
    BY <1>13 DEF CalledBack, h
  <2>2. t.cache[1].value = LastValue(h, c.value)
    BY DEF CalledBack, IsLast, LastValue, h
  <2>3. <<op>> \in Seq(Op) /\ DOMAIN <<op>> = {1} /\ <<op>>[1] = op
    BY <1>3
  <2>4. IsChain(<<op>>, LastValue(h, c.value))
    BY <1>3, <2>1, <2>2, <2>3 DEF IsChain
  <2>5. IsChain(h \o <<op>>, c.value)
    BY <1>1, <2>1, <2>3, <2>4, ChainOfBoth
  <2> QED BY <1>5, <2>5 DEF k
<1>14. u.out = k /\ u.out # <<>> /\ u.counter = n + 1 /\ low <= n + 1
  BY <1>1, <1>4, <1>6, <1>8 DEF k
<1>15. CalledBack(u, c, low, err)
  BY <1>9, <1>10, <1>11, <1>12, <1>13, <1>14 DEF CalledBack
<1> QED BY <1>15 DEF u

\* A callback leaves the turn in such a state.
LEMMA CallbackStep ==
    ASSUME NEW t, NEW c \in Cached, NEW low \in Nat, NEW err, CalledBack(t, c, low, err),
           NEW r \in Requests
    PROVE  CalledBack(Callback(t, r, err), c, low, err)
<1>1. CASE Kind[r] = "update" /\ err # "other"
  <2> DEFINE over == IF err = "notFound" THEN NoValue ELSE t.cache[1].value
  <2>1. Callback(t, r, err) = NestedBatch(t, r, over)
    BY <1>1 DEF Callback
  <2>2. t.cache[1] \in Cached
    BY ElementOfSeq DEF CalledBack, TurnType
  <2>3. over \in Values /\ (err = "none" => over = t.cache[1].value)
    BY <2>2 DEF Cached, Values
  <2> HIDE DEF over
  <2> QED BY <1>1, <2>1, <2>3, NestedBatchStep
<1>2. CASE ~(Kind[r] = "update" /\ err # "other")
  <2> DEFINE u == Callback(t, r, err)
  <2>1. u = [t EXCEPT !.done = @ \cup {r}]
    BY <1>2 DEF Callback
  <2>2. t \in TurnType
    BY DEF CalledBack
  <2>3. /\ u \in TurnType
        /\ u.cache = t.cache /\ u.counter = t.counter /\ u.out = t.out
    BY <2>1, <2>2 DEF TurnType
  <2> HIDE DEF u
  <2>4. CalledBack(u, c, low, err)
    BY <2>3 DEF CalledBack
  <2> QED BY <2>4 DEF u
<1> QED BY <1>1, <1>2

\* A set of natural numbers that is not empty has a least element: what stands for induction
\* here.
LEMMA LeastNumber ==
    ASSUME NEW T \in SUBSET Nat, T # {}
    PROVE  \E i \in T : \A j \in T : i <= j
<1>1. IsWellFoundedOn(OpToRel(<, Nat), Nat)
  BY NatLessThanWellFounded
<1>2. PICK i \in T : \A j \in T : ~ (<<j, i>> \in OpToRel(<, Nat))
  BY <1>1, WFMin
<1>3. ASSUME NEW j \in T PROVE i <= j
  <2>1. ~(j < i)
    BY <1>2 DEF OpToRel
  <2> QED BY <2>1
<1> QED BY <1>3

\* The queued reads are called one after the other. The function that the recursion defines
\* exists: there is no first number of reads for which none exists.
LEMMA CallsBySteps ==
    ASSUME NEW begin, NEW reads, Len(reads) \in Nat, NEW err
    PROVE  \E run : /\ run[0] = begin
                    /\ \A i \in 1..Len(reads) : run[i] = Callback(run[i - 1], reads[i], err)
                    /\ CallAll(begin, reads, err) = run[Len(reads)]
<1> DEFINE n == Len(reads)
           Of(m, f) == [i \in 0..m |-> IF i = 0 THEN begin
                                       ELSE Callback(f[i - 1], reads[i], err)]
           T == {m \in 0..n : ~ \E f : f = Of(m, f)}
           run == CHOOSE f : f = Of(n, f)
<1>0. n \in Nat
  OBVIOUS
<1>1. CallAll(begin, reads, err) = run[n]
  BY Zenon DEF CallAll
<1> HIDE DEF n
<1>2. T = {}
  <2>1. SUFFICES ASSUME T # {} PROVE FALSE
    OBVIOUS
  <2>2. PICK m \in T : \A i \in T : m <= i
    <3>1. T \in SUBSET Nat
      BY <1>0
    <3> HIDE DEF T
    <3> QED BY <2>1, <3>1, LeastNumber
  <2>3. m \in Nat /\ m <= n
    BY <1>0
  <2>4. \A f : f # Of(m, f)
    OBVIOUS
  <2>5. CASE m = 0
    <3> DEFINE f == [i \in 0..0 |-> begin]
    <3>1. f = Of(m, f)
      BY <2>5
    <3> QED BY <2>4, <3>1
  <2>6. CASE m # 0
    <3>1. m - 1 \in 0..n /\ ~ (m <= m - 1)
      BY <1>0, <2>3, <2>6
    <3>2. PICK f : f = Of(m - 1, f)
      BY <2>2, <3>1
    <3> DEFINE g == [i \in 0..m |-> IF i = m THEN Callback(f[m - 1], reads[m], err) ELSE f[i]]
    <3>3. \A i \in 0..(m - 1) :
            f[i] = IF i = 0 THEN begin ELSE Callback(f[i - 1], reads[i], err)
      BY <3>2
    <3>4. \A i \in 0..(m - 1) : i \in 0..m /\ i # m
      BY <2>3
    <3>5. \A i \in 0..(m - 1) : g[i] = f[i]
      BY <3>4
    <3>6. \A i \in 0..m : i # 0 => i - 1 \in 0..(m - 1)
      BY <2>3
    <3>7. g[m] = Callback(f[m - 1], reads[m], err) /\ m - 1 \in 0..(m - 1)
      BY <2>3, <2>6
    <3> HIDE DEF g
    <3>8. \A i \in 0..m : g[i] = IF i = 0 THEN begin ELSE Callback(g[i - 1], reads[i], err)
      <4>1. ASSUME NEW i \in 0..m, i # m
            PROVE  g[i] = IF i = 0 THEN begin ELSE Callback(g[i - 1], reads[i], err)
        <5>1. i \in 0..(m - 1)
          BY <2>3, <4>1
        <5>2. f[i] = IF i = 0 THEN begin ELSE Callback(f[i - 1], reads[i], err)
          BY <3>3, <5>1
        <5>3. g[i] = f[i] /\ (i # 0 => g[i - 1] = f[i - 1])
          BY <3>5, <3>6, <5>1
        <5> QED BY <5>2, <5>3
      <4>2. g[m] = IF m = 0 THEN begin ELSE Callback(g[m - 1], reads[m], err)
        BY <2>6, <3>5, <3>7
      <4> QED BY <4>1, <4>2
    <3>9. g = Of(m, g)
      BY <3>8 DEF g
    <3> QED BY <2>4, <3>9
  <2> QED BY <2>5, <2>6
<1>3. \E f : f = Of(n, f)
  BY <1>0, <1>2
<1>4. run = Of(n, run)
  <2> HIDE DEF Of
  <2> QED BY <1>3
<1> HIDE DEF run
<1>5. run[0] = begin
  BY <1>0, <1>4
<1>6. \A i \in 1..n : run[i] = Callback(run[i - 1], reads[i], err)
  BY <1>0, <1>4
<1> QED BY <1>1, <1>5, <1>6 DEF n

\* The turn is in such a state after all of them.
LEMMA CallAllStep ==
    ASSUME NEW t, NEW c \in Cached, NEW low \in Nat, NEW err, CalledBack(t, c, low, err),
           NEW reads \in Seq(Requests)
    PROVE  CalledBack(CallAll(t, reads, err), c, low, err)
<1> DEFINE n == Len(reads)
<1>1. n \in Nat /\ Len(reads) \in Nat
  BY LenProperties
<1>8. \E run : /\ run[0] = t
               /\ \A i \in 1..Len(reads) : run[i] = Callback(run[i - 1], reads[i], err)
               /\ CallAll(t, reads, err) = run[Len(reads)]
  <2> HIDE DEF n
  <2> QED BY <1>1, CallsBySteps
<1>2. PICK run : /\ run[0] = t
                 /\ \A i \in 1..n : run[i] = Callback(run[i - 1], reads[i], err)
                 /\ CallAll(t, reads, err) = run[n]
  BY <1>8
<1> DEFINE Good(i) == CalledBack(run[i], c, low, err)
           T == {i \in 0..n : ~Good(i)}
<1>3. \A i \in 1..n : reads[i] \in Requests
  BY ElementOfSeq
<1>4. Good(0)
  BY <1>2
<1>5. ASSUME NEW i \in 1..n, Good(i - 1) PROVE Good(i)
  <2>1. reads[i] \in Requests /\ run[i] = Callback(run[i - 1], reads[i], err)
    BY <1>2, <1>3
  <2> QED BY <1>5, <2>1, CallbackStep
<1> HIDE DEF Good, n
<1>6. T = {}
  <2>1. SUFFICES ASSUME T # {} PROVE FALSE
    OBVIOUS
  <2>2. PICK i \in T : \A j \in T : i <= j
    <3>1. T \in SUBSET Nat
      BY <1>1
    <3> HIDE DEF T
    <3> QED BY <2>1, <3>1, LeastNumber
  <2>3. i \in 1..n /\ i - 1 \in 0..n /\ ~(i <= i - 1)
    BY <1>1, <1>4, <2>2
  <2>4. Good(i - 1)
    BY <2>2, <2>3
  <2> QED BY <1>5, <2>2, <2>3, <2>4
<1>7. Good(n)
  BY <1>1, <1>6
<1> QED BY <1>2, <1>7 DEF Good

\* What a dequeueing leaves: the value of the last write, or none.
Dequeued(t, mark, value, err) ==
    /\ t \in TurnType
    /\ mark < t.counter
    /\ t.out = <<>> => t.cache = <<>>
    /\ t.out # <<>> => Len(t.cache) = 1 /\ IsLast(t.cache[1], t.out)
    /\ FreshUpdates(t.out, mark, t.counter)
    /\ err = "none" => IsChain(t.out, value)
    /\ err = "other" => t.out = <<>>

\* _dequeue() of a turn that has not written yet.
LEMMA DequeueStep ==
    ASSUME NEW t \in TurnType, t.out = <<>>, NEW value \in Values, NEW err,
           queue[1].callbacks \in Seq(Requests)
    PROVE  Dequeued(Dequeue(t, value, err), t.counter, value, err)
<1> DEFINE mark == t.counter
           c == [signature |-> mark, value |-> value]
           begin == [t EXCEPT !.cache = <<c>>, !.counter = mark + 1]
           reads == queue[1].callbacks
           end == CallAll(begin, reads, err)
           d == Dequeue(t, value, err)
<1>1. d = IF end.cache[1].signature = mark THEN [end EXCEPT !.cache = <<>>] ELSE end
  BY Zenon DEF Dequeue
<1>2. mark \in Nat /\ c \in Cached /\ c.value = value /\ c.signature = mark
  BY DEF TurnType, Cached
<1>3. CalledBack(begin, c, mark + 1, err)
  <2> DEFINE before == t.cache
             done == t.done
  <2>1. t = [cache |-> before, counter |-> mark, out |-> <<>>, done |-> done]
    BY DEF TurnType
  <2> HIDE DEF c, mark, before, done
  <2>8. begin = [t EXCEPT !.cache = <<c>>, !.counter = mark + 1]
    OBVIOUS
  <2> HIDE DEF begin
  <2>2. begin = [cache |-> <<c>>, counter |-> mark + 1, out |-> <<>>, done |-> done]
    BY <2>1, <2>8
  <2> HIDE DEF begin
  <2>3. /\ begin.cache = <<c>> /\ begin.counter = mark + 1 /\ begin.out = <<>>
        /\ begin.done = done
    BY <2>2
  <2>4. <<c>> \in Seq(Cached) /\ <<>> \in Seq(Op) /\ done \in SUBSET Requests
    BY <1>2, EmptySeq DEF TurnType, done
  <2>5. begin \in TurnType
    BY <1>2, <2>2, <2>4 DEF TurnType
  <2>6. FreshUpdates(<<>>, mark + 1, mark + 1)
    BY DEF FreshUpdates, AllUpdates
  <2>7. Len(<<c>>) = 1 /\ <<c>>[1] = c /\ mark + 1 <= mark + 1
    BY <1>2
  <2> QED BY <2>3, <2>5, <2>6, <2>7, EmptyChain DEF CalledBack
<1> HIDE DEF begin
<1>4. CalledBack(end, c, mark + 1, err)
  BY <1>2, <1>3, CallAllStep
<1> HIDE DEF end, d
<1>5. /\ end \in TurnType /\ Len(end.cache) = 1
      /\ mark + 1 <= end.counter /\ end.counter \in Nat
      /\ end.out \in Seq(Op)
      /\ end.out = <<>> => end.cache[1] = c
      /\ end.out # <<>> => IsLast(end.cache[1], end.out)
      /\ AllUpdates(end.out)
      /\ \A i \in DOMAIN end.out :
            mark + 1 <= end.out[i].signature /\ end.out[i].signature < end.counter
      /\ err = "none" => IsChain(end.out, value)
      /\ err = "other" => end.out = <<>>
  BY <1>2, <1>4 DEF CalledBack, TurnType, FreshUpdates
<1> HIDE DEF c
<1>6. FreshUpdates(end.out, mark, end.counter)
  <2>1. \A i \in DOMAIN end.out : end.out[i].signature \in Nat
    <3>1. DOMAIN end.out = 1..Len(end.out)
      BY <1>5, LenProperties
    <3>2. \A i \in 1..Len(end.out) : end.out[i] \in Op
      BY <1>5, ElementOfSeq
    <3> QED BY <3>1, <3>2 DEF Op
  <2> QED BY <1>2, <1>5, <2>1 DEF FreshUpdates
<1>7. mark < end.counter
  BY <1>2, <1>5
<1>8. CASE end.out = <<>>
  <2>1. end.cache[1].signature = mark
    BY <1>2, <1>5, <1>8
  <2>2. d = [end EXCEPT !.cache = <<>>]
    BY <1>1, <2>1
  <2>3. <<>> \in Seq(Cached)
    BY EmptySeq
  <2>4. /\ d \in TurnType
        /\ d.cache = <<>> /\ d.counter = end.counter /\ d.out = end.out
    BY <1>5, <2>2, <2>3 DEF TurnType
  <2>5. Dequeued(d, mark, value, err)
    BY <1>5, <1>6, <1>7, <1>8, <2>4 DEF Dequeued
  <2> QED BY <2>5 DEF d
<1>9. CASE end.out # <<>>
  <2>1. Len(end.out) \in DOMAIN end.out
    <3>1. Len(end.out) \in Nat \ {0} /\ DOMAIN end.out = 1..Len(end.out)
      BY <1>5, <1>9, EmptySeq, LenProperties
    <3> QED BY <3>1
  <2>2. /\ end.cache[1].signature = end.out[Len(end.out)].signature
        /\ mark + 1 <= end.out[Len(end.out)].signature
    BY <1>5, <1>9, <2>1 DEF IsLast
  <2>3. end.cache[1].signature # mark
    BY <1>2, <2>2
  <2>4. d = end
    BY <1>1, <2>3
  <2>5. Dequeued(d, mark, value, err)
    BY <1>5, <1>6, <1>7, <1>9, <2>4 DEF Dequeued
  <2> QED BY <2>5 DEF d
<1> QED BY <1>8, <1>9

-----------------------------------------------------------------------------
(* What the steps do to the batches.                                       *)

\* What is pending, and what of it is not in the database yet.
LEMMA Batches ==
    ASSUME ManagerInv
    PROVE  /\ Flying \in Seq(Op) /\ Gathered \in Seq(Op) /\ dbLog \in Seq(Op)
           /\ Pending \in Seq(Op) /\ Outstanding \in Seq(Op)
           /\ inFlight = <<>> <=> Flying = <<>>
           /\ batchCache = <<>> <=> Gathered = <<>>
           /\ inFlight # <<>> => inFlight[1] = Flying
           /\ batchCache # <<>> => batchCache[1] = Gathered /\ DOMAIN batchCache = {1}
           /\ applied => Flying # <<>> /\ Outstanding = Gathered
           /\ ~applied => Outstanding = Pending
<1>1. IsSlot(inFlight) /\ IsSlot(batchCache) /\ dbLog \in Seq(Op) /\ (applied => inFlight # <<>>)
  BY DEF ManagerInv
<1>2. /\ Flying \in Seq(Op) /\ Gathered \in Seq(Op)
      /\ inFlight = <<>> <=> Flying = <<>>
      /\ batchCache = <<>> <=> Gathered = <<>>
      /\ inFlight # <<>> => inFlight[1] = Flying
      /\ batchCache # <<>> => batchCache[1] = Gathered /\ DOMAIN batchCache = {1}
  BY <1>1, SlotContent DEF Flying, Gathered
<1>3. Pending \in Seq(Op)
  BY <1>2, ConcatProperties DEF Pending
<1>4. Outstanding = (IF inFlight # <<>> /\ ~applied THEN Flying ELSE <<>>) \o Gathered
  BY <1>2 DEF Outstanding, Content, Flying, Gathered
<1>5. <<>> \o Gathered = Gathered
  BY <1>2, ConcatEmptySeq
<1>6. applied => Flying # <<>> /\ Outstanding = Gathered
  BY <1>1, <1>2, <1>4, <1>5
<1>7. ~applied => Outstanding = Pending
  BY <1>2, <1>4 DEF Pending
<1>8. Outstanding \in Seq(Op)
  BY <1>2, <1>3, <1>6, <1>7
<1> QED BY <1>1, <1>2, <1>3, <1>6, <1>7, <1>8

\* A cached value is that of a pending operation.
LEMMA OrphansArePending ==
    ASSUME ManagerInv
    PROVE  NoOrphanCacheEntry <=>
             (cache # <<>> => \E i \in DOMAIN Pending : Pending[i].signature = cache[1].signature)
<1> DEFINE sig == cache[1].signature
           In(h) == \E i \in DOMAIN h : h[i].signature = sig
           Slots == {inFlight[i] : i \in DOMAIN inFlight} \cup {batchCache[i] : i \in DOMAIN batchCache}
<1>1. IsSlot(inFlight) /\ IsSlot(batchCache)
  BY DEF ManagerInv
<1>2. NoOrphanCacheEntry <=> (cache # <<>> => \E b \in Slots : In(b))
  BY Zenon DEF NoOrphanCacheEntry
<1>3. \A slot : IsSlot(slot) =>
        ((\E i \in DOMAIN slot : In(slot[i])) <=> In(Content(slot)))
  <2> SUFFICES ASSUME NEW slot, IsSlot(slot)
               PROVE  (\E i \in DOMAIN slot : In(slot[i])) <=> In(Content(slot))
    BY Zenon
  <2>1. CASE slot = <<>>
    <3>1. DOMAIN slot = {} /\ Content(slot) = slot
      BY <2>1 DEF Content
    <3> QED BY <3>1
  <2>2. CASE slot # <<>>
    <3>1. DOMAIN slot = {1} /\ Content(slot) = slot[1]
      BY <2>2, SlotContent
    <3> HIDE DEF In
    <3> QED BY <3>1
  <2> QED BY <2>1, <2>2
<1>4. (\E b \in Slots : In(b)) <=> In(Flying) \/ In(Gathered)
  <2>1. (\E b \in Slots : In(b)) <=>
          (\E i \in DOMAIN inFlight : In(inFlight[i])) \/ (\E i \in DOMAIN batchCache : In(batchCache[i]))
    <3> HIDE DEF In
    <3> QED OBVIOUS
  <2> HIDE DEF In, Slots
  <2> QED BY <1>1, <1>3, <2>1 DEF Flying, Gathered
<1>5. In(Pending) <=> In(Flying) \/ In(Gathered)
  <2>1. /\ Len(Flying) \in Nat /\ Len(Gathered) \in Nat
        /\ DOMAIN Flying = 1..Len(Flying) /\ DOMAIN Gathered = 1..Len(Gathered)
        /\ DOMAIN Pending = 1..(Len(Flying) + Len(Gathered))
        /\ \A i \in 1..Len(Flying) : Pending[i] = Flying[i]
        /\ \A i \in 1..Len(Gathered) : Pending[Len(Flying) + i] = Gathered[i]
        /\ \A i \in 1..(Len(Flying) + Len(Gathered)) :
             i \in 1..Len(Flying) \/ \E j \in 1..Len(Gathered) : i = Len(Flying) + j
    BY Batches, PlacesOfBoth DEF Pending
  <2>2. /\ \A i \in 1..Len(Flying) : i \in 1..(Len(Flying) + Len(Gathered))
        /\ \A i \in 1..Len(Gathered) : Len(Flying) + i \in 1..(Len(Flying) + Len(Gathered))
    BY <2>1
  <2> DEFINE n == Len(Flying)
             m == Len(Gathered)
  <2> HIDE DEF n, m, sig
  <2>3. ASSUME In(Pending) PROVE In(Flying) \/ In(Gathered)
    <3>1. PICK i \in 1..(Len(Flying) + Len(Gathered)) : Pending[i].signature = sig
      BY <2>1, <2>3
    <3>2. CASE i \in 1..Len(Flying)
      BY <2>1, <3>1, <3>2
    <3>3. CASE i \notin 1..Len(Flying)
      <4>1. PICK j \in 1..Len(Gathered) : i = Len(Flying) + j
        BY <2>1, <3>3
      <4>2. Pending[i] = Gathered[j]
        BY <2>1, <4>1
      <4> QED BY <2>1, <3>1, <4>2
    <3> QED BY <3>2, <3>3
  <2>4. ASSUME In(Flying) PROVE In(Pending)
    BY <2>1, <2>2, <2>4
  <2>5. ASSUME In(Gathered) PROVE In(Pending)
    BY <2>1, <2>2, <2>5
  <2> QED BY <2>3, <2>4, <2>5
<1> HIDE DEF In, Slots
<1>6. NoOrphanCacheEntry <=> (cache # <<>> => In(Pending))
  BY <1>2, <1>4, <1>5
<1> QED BY <1>6 DEF In

\* The end of a turn: its operations are gathered behind those that wait.
LEMMA TurnEnds ==
    ASSUME ManagerInv, NEW t \in TurnType, Finish(t)
    PROVE  /\ ManagerInv'
           /\ cache' = t.cache /\ counter' = t.counter
           /\ applied' = applied /\ dbLog' = dbLog /\ Flying' = Flying
           /\ Gathered' = Gathered \o t.out
           /\ Pending' = Pending \o t.out
           /\ Outstanding' = Outstanding \o t.out
<1> DEFINE out == t.out
           reqs == [i \in DOMAIN out |-> out[i].req]
<1>1. /\ out \in Seq(Op)
      /\ cache' = t.cache /\ counter' = t.counter
      /\ applied' = applied /\ dbLog' = dbLog /\ inFlight' = inFlight
      /\ Gathered \in Seq(Op) /\ Flying \in Seq(Op)
  BY Batches DEF TurnType, Finish
<1>2. Gathered' = Gathered \o out /\ IsSlot(batchCache') /\ timer' \in BOOLEAN
  <2>1. CASE out = <<>>
    <3>1. batchCache' = batchCache /\ timer' = timer
      BY <2>1 DEF Finish
    <3>2. Gathered' = Gathered
      BY <3>1 DEF Gathered
    <3>3. Gathered \o out = Gathered
      BY <1>1, <2>1, ConcatEmptySeq
    <3> QED BY <3>1, <3>2, <3>3 DEF ManagerInv
  <2>2. CASE out # <<>>
    <3>1. WgAppend(out)
      BY <2>2 DEF Finish
    <3>2. timer' \in BOOLEAN
      BY <3>1, Zenon DEF WgAppend, ManagerInv
    <3> HIDE DEF out
    <3>3. CASE batchCache = <<>>
      <4>1. batchCache' = <<out>> /\ Gathered = <<>>
        BY <3>1, <3>3, Batches DEF WgAppend
      <4>2. IsSlot(<<out>>) /\ Content(<<out>>) = out
        BY <1>1, <2>2, FilledSlot DEF out
      <4>3. <<>> \o out = out
        BY <1>1, ConcatEmptySeq DEF out
      <4> QED BY <3>2, <4>1, <4>2, <4>3, Zenon DEF Gathered
    <3>4. CASE batchCache # <<>>
      <4>1. batchCache' = <<Gathered \o out>>
        BY <3>1, <3>4, Batches DEF WgAppend
      <4>2. Gathered \o out \in Seq(Op) /\ Gathered \o out # <<>>
        BY <1>1, <2>2, ConcatProperties, ConcatEqualIffEmpty DEF out
      <4>3. IsSlot(<<Gathered \o out>>) /\ Content(<<Gathered \o out>>) = Gathered \o out
        BY <4>2, FilledSlot
      <4>4. Gathered' = Content(batchCache')
        BY DEF Gathered
      <4> QED BY <3>2, <4>1, <4>3, <4>4, Zenon
    <3> QED BY <3>3, <3>4
  <2> QED BY <2>1, <2>2
<1>3. Flying' = Flying
  BY <1>1 DEF Flying
<1>4. submitted' \in Seq(Requests)
  <2>1. DOMAIN out = 1..Len(out) /\ Len(out) \in Nat
    BY <1>1, LenProperties
  <2>2. \A i \in 1..Len(out) : out[i].req \in Requests
    <3>1. \A i \in 1..Len(out) : out[i] \in Op
      BY <1>1, ElementOfSeq
    <3> QED BY <3>1 DEF Op
  <2>3. reqs \in [1..Len(out) -> Requests]
    BY <2>1, <2>2
  <2>4. reqs \in Seq(Requests)
    BY <2>1, <2>3, SeqDef
  <2>5. submitted' = submitted \o reqs /\ submitted \in Seq(Requests)
    BY DEF Finish, ManagerInv
  <2> HIDE DEF reqs
  <2> QED BY <2>4, <2>5, ConcatProperties
<1>5. replies' \in [Requests -> Seq(Replies)]
  <2>1. replies \in [Requests -> Seq(Replies)]
    BY DEF ManagerInv
  <2>2. \A r \in Requests : Append(replies[r], "ok") \in Seq(Replies)
    BY <2>1, AppendProperties DEF Replies
  <2>3. replies' = [r \in Requests |->
                      IF r \in t.done THEN Append(replies[r], "ok") ELSE replies[r]]
    BY DEF Finish
  <2> QED BY <2>1, <2>2, <2>3
<1>6. ManagerInv'
  BY <1>1, <1>2, <1>4, <1>5 DEF ManagerInv
<1>7. Pending' = Pending \o out
  <2>1. (Flying \o Gathered) \o out = Flying \o (Gathered \o out)
    <3>1. Flying \in Seq(Op) /\ Gathered \in Seq(Op) /\ out \in Seq(Op)
      BY <1>1
    <3> HIDE DEF out
    <3> QED BY <3>1, ConcatAssociative
  <2> QED BY <1>2, <1>3, <2>1 DEF Pending
<1>8. Outstanding' = Outstanding \o out
  <2>1. CASE applied
    <3>1. Outstanding = Gathered
      BY <2>1, Batches
    <3>2. applied' = TRUE /\ Outstanding' = Gathered'
      <4>1. (applied => Outstanding = Gathered)'
        BY <1>6, Batches, PTL
      <4>2. applied' = TRUE
        BY <1>1, <2>1 DEF ManagerInv
      <4> QED BY <4>1, <4>2
    <3> QED BY <1>2, <3>1, <3>2
  <2>2. CASE ~applied
    <3>1. Outstanding = Pending
      BY <2>2, Batches
    <3>2. (~applied => Outstanding = Pending)'
      BY <1>6, Batches, PTL
    <3>3. Outstanding' = Pending'
      BY <1>1, <2>2, <3>2
    <3> QED BY <1>7, <3>1, <3>3
  <2> QED BY <2>1, <2>2
<1> QED BY <1>1, <1>2, <1>3, <1>6, <1>7, <1>8

-----------------------------------------------------------------------------
(* Turns that extend what waits.                                           *)

\* The elements of two sequences.
LEMMA ElementsOfBoth ==
    ASSUME NEW h \in Seq(Op), NEW k \in Seq(Op)
    PROVE  /\ \A i \in DOMAIN (h \o k) :
                \/ \E j \in DOMAIN h : (h \o k)[i] = h[j]
                \/ \E j \in DOMAIN k : (h \o k)[i] = k[j]
           /\ \A j \in DOMAIN h : \E i \in DOMAIN (h \o k) : (h \o k)[i] = h[j]
           /\ \A j \in DOMAIN k : \E i \in DOMAIN (h \o k) : (h \o k)[i] = k[j]
           /\ k # <<>> => (h \o k)[Len(h \o k)] = k[Len(k)] /\ h \o k # <<>>
           /\ k = <<>> => h \o k = h
<1> DEFINE n == Len(h)
           m == Len(k)
           both == h \o k
<1>1. /\ n \in Nat /\ m \in Nat /\ Len(both) = n + m
      /\ DOMAIN h = 1..n /\ DOMAIN k = 1..m /\ DOMAIN both = 1..(n + m)
      /\ \A i \in 1..n : both[i] = h[i]
      /\ \A i \in 1..m : both[n + i] = k[i]
      /\ \A i \in 1..(n + m) : i \in 1..n \/ \E j \in 1..m : i = n + j
  BY PlacesOfBoth
<1>2. k # <<>> => m \in 1..m /\ both # <<>>
  BY <1>1, EmptySeq, ConcatEqualIffEmpty
<1>3. k = <<>> => both = h
  BY ConcatEmptySeq
<1> HIDE DEF n, m, both
<1>4. /\ \A i \in 1..n : i \in 1..(n + m)
      /\ \A i \in 1..m : n + i \in 1..(n + m)
  BY <1>1
<1>5. ASSUME NEW i \in DOMAIN both
      PROVE  (\E j \in DOMAIN h : both[i] = h[j]) \/ (\E j \in DOMAIN k : both[i] = k[j])
  <2>1. CASE i \in 1..n
    BY <1>1, <2>1
  <2>2. CASE i \notin 1..n
    <3>1. PICK j \in 1..m : i = n + j
      BY <1>1, <2>2
    <3>2. both[i] = k[j]
      BY <1>1, <3>1
    <3> QED BY <1>1, <3>2
  <2> QED BY <2>1, <2>2
<1>6. \A j \in DOMAIN h : \E i \in DOMAIN both : both[i] = h[j]
  BY <1>1, <1>4
<1>7. \A j \in DOMAIN k : \E i \in DOMAIN both : both[i] = k[j]
  BY <1>1, <1>4
<1>8. k # <<>> => both[Len(both)] = k[m]
  BY <1>1, <1>2
<1> QED BY <1>2, <1>3, <1>5, <1>6, <1>7, <1>8 DEF n, m, both

\* Signatures are numbers.
LEMMA OpFields ==
    ASSUME NEW h \in Seq(Op)
    PROVE  \A i \in DOMAIN h : h[i].signature \in Nat /\ h[i].value \in Values
<1>1. DOMAIN h = 1..Len(h)
  BY LenProperties
<1>2. \A i \in 1..Len(h) : h[i] \in Op
  BY ElementOfSeq
<1> QED BY <1>1, <1>2 DEF Op

\* Updates and updates are updates.
LEMMA UpdatesOfBoth ==
    ASSUME NEW h \in Seq(Op), NEW k \in Seq(Op), AllUpdates(h), AllUpdates(k)
    PROVE  AllUpdates(h \o k)
<1> DEFINE both == h \o k
<1>1. \A i \in DOMAIN both :
         (\E j \in DOMAIN h : both[i] = h[j]) \/ (\E j \in DOMAIN k : both[i] = k[j])
  BY ElementsOfBoth
<1> HIDE DEF both
<1>2. AllUpdates(both)
  BY <1>1 DEF AllUpdates
<1> QED BY <1>2 DEF both

\* The cached value is the latest one, written or on its way.
LEMMA CachedIsLatest ==
    ASSUME ManagerInv, NoOrphanCacheEntry, CurrencyInv, ChainInv
    PROVE  /\ cache # <<>> => cache[1].value = LastValue(dbLog \o Outstanding, Initial)
           /\ cache = <<>> => Stored = LastValue(dbLog \o Outstanding, Initial)
           /\ Stored = LastValue(dbLog, Initial)
           /\ cache = <<>> => Pending = <<>>
<1>1. /\ Flying \in Seq(Op) /\ Gathered \in Seq(Op) /\ dbLog \in Seq(Op)
      /\ Pending \in Seq(Op) /\ Outstanding \in Seq(Op)
      /\ applied => Flying # <<>> /\ Outstanding = Gathered
      /\ ~applied => Outstanding = Pending
  BY Batches
<1>2. LastValue(dbLog \o Outstanding, Initial) = LastValue(Outstanding, LastValue(dbLog, Initial))
  BY <1>1, LastOfBoth
<1>3. \A from : LastValue(Pending, from) = LastValue(Gathered, LastValue(Flying, from))
  BY <1>1, LastOfBoth DEF Pending
<1>4. Stored = LastValue(dbLog, Initial)
  BY DEF Stored, LastValue
<1>5. cache = <<>> => Pending = <<>>
  BY DEF CurrencyInv
<1>6. Pending = <<>> => Flying = <<>> /\ Gathered = <<>>
  BY <1>1, ConcatEqualIffEmpty DEF Pending
<1>7. CASE cache = <<>>
  <2>1. Pending = <<>> /\ ~applied
    BY <1>1, <1>5, <1>6, <1>7
  <2>2. LastValue(Outstanding, LastValue(dbLog, Initial)) = LastValue(dbLog, Initial)
    BY <1>1, <2>1 DEF LastValue
  <2> QED BY <1>2, <1>4, <1>7, <2>1, <2>2
<1>8. CASE cache # <<>>
  <2>1. Pending # <<>>
    <3>1. PICK i \in DOMAIN Pending : Pending[i].signature = cache[1].signature
      BY <1>8, OrphansArePending
    <3> QED BY <3>1
  <2>2. \A from : LastValue(Pending, from) = cache[1].value
    BY <2>1 DEF CurrencyInv, LastValue
  <2>3. CASE ~applied
    BY <1>1, <1>2, <1>4, <1>8, <2>2, <2>3
  <2>4. CASE applied
    <3>1. Flying # <<>> /\ Outstanding = Gathered
      BY <1>1, <2>4
    <3>2. LastValue(dbLog, Initial) = LastValue(Flying, Initial)
      BY <2>4 DEF ChainInv
    <3>3. LastValue(dbLog \o Outstanding, Initial) = LastValue(Gathered, LastValue(Flying, Initial))
      BY <1>2, <3>1, <3>2
    <3> QED BY <1>3, <1>4, <1>8, <2>2, <3>3
  <2> QED BY <2>3, <2>4
<1> QED BY <1>7, <1>8

\* What a turn adds keeps the cache current.
LEMMA TurnKeepsCurrency ==
    ASSUME ManagerInv, CurrencyInv, counter \in Nat,
           NEW t \in TurnType, Finish(t), counter <= t.counter,
           FreshUpdates(t.out, counter, t.counter),
           t.out = <<>> => Pending = <<>> \/ t.cache = cache,
           t.out # <<>> => t.cache # <<>> /\ IsLast(t.cache[1], t.out)
    PROVE  CurrencyInv'
<1> DEFINE out == t.out
           all == Pending \o out
           behind == Gathered \o out
<1>1. /\ Flying \in Seq(Op) /\ Gathered \in Seq(Op) /\ Pending \in Seq(Op) /\ out \in Seq(Op)
      /\ t.counter \in Nat
  BY Batches DEF TurnType
<1>2. /\ cache' = t.cache /\ counter' = t.counter
      /\ Flying' = Flying /\ Gathered' = behind /\ Pending' = all
  BY TurnEnds
<1>8. \A i \in DOMAIN out : counter <= out[i].signature /\ out[i].signature < t.counter
  BY DEF FreshUpdates
<1>12. /\ out = <<>> => Pending = <<>> \/ t.cache = cache
       /\ out # <<>> => t.cache # <<>> /\ IsLast(t.cache[1], out)
  OBVIOUS
<1> HIDE DEF out
<1>3. /\ \A i \in DOMAIN all :
             (\E j \in DOMAIN Pending : all[i] = Pending[j]) \/ (\E j \in DOMAIN out : all[i] = out[j])
      /\ out # <<>> => all[Len(all)] = out[Len(out)] /\ all # <<>>
      /\ out = <<>> => all = Pending
  BY <1>1, ElementsOfBoth
<1>4. \A i \in DOMAIN behind :
         (\E j \in DOMAIN Gathered : behind[i] = Gathered[j]) \/ (\E j \in DOMAIN out : behind[i] = out[j])
  BY <1>1, ElementsOfBoth
<1>5. \A j \in DOMAIN Flying : \E i \in DOMAIN Pending : Pending[i] = Flying[j]
  BY <1>1, ElementsOfBoth DEF Pending
<1>6. /\ \A i \in DOMAIN Pending : Pending[i].signature \in Nat
      /\ \A i \in DOMAIN out : out[i].signature \in Nat
      /\ \A i \in DOMAIN Flying : Flying[i].signature \in Nat
      /\ \A i \in DOMAIN Gathered : Gathered[i].signature \in Nat
  BY <1>1, OpFields
<1>7. /\ \A i \in DOMAIN Pending : Pending[i].signature < counter
      /\ \A i \in DOMAIN Flying, j \in DOMAIN Gathered : Flying[i].signature < Gathered[j].signature
      /\ Pending # <<>> =>
            /\ cache # <<>>
            /\ cache[1].value = Pending[Len(Pending)].value
            /\ cache[1].signature = Pending[Len(Pending)].signature
  BY DEF CurrencyInv
<1> HIDE DEF all, behind
<1>9. \A i \in DOMAIN all : all[i].signature < t.counter
  <2>1. \A i \in DOMAIN Pending : Pending[i].signature < t.counter
    BY <1>1, <1>6, <1>7
  <2> QED BY <1>3, <1>8, <2>1
<1>10. \A i \in DOMAIN Flying, j \in DOMAIN behind : Flying[i].signature < behind[j].signature
  <2>1. \A i \in DOMAIN Flying : Flying[i].signature < counter
    BY <1>5, <1>7
  <2>2. \A i \in DOMAIN Flying, j \in DOMAIN out : Flying[i].signature < out[j].signature
    BY <1>6, <1>8, <2>1
  <2> QED BY <1>4, <1>7, <2>2
<1>11. all # <<>> =>
         /\ t.cache # <<>>
         /\ t.cache[1].value = all[Len(all)].value
         /\ t.cache[1].signature = all[Len(all)].signature
  <2>1. CASE out = <<>>
    BY <1>3, <1>7, <1>12, <2>1
  <2>2. CASE out # <<>>
    BY <1>3, <1>12, <2>2 DEF IsLast
  <2> QED BY <2>1, <2>2
<1> QED BY <1>2, <1>9, <1>10, <1>11 DEF CurrencyInv

\* And the chain a chain.
LEMMA TurnKeepsChain ==
    ASSUME ManagerInv, ChainInv, NEW t \in TurnType, Finish(t), AllUpdates(t.out),
           IsChain(t.out, LastValue(dbLog \o Outstanding, Initial)),
           queue' = <<>> \/ (queue' = queue /\ dbGets' = dbGets)
    PROVE  ChainInv'
<1> DEFINE out == t.out
<1>1. /\ Gathered \in Seq(Op) /\ Outstanding \in Seq(Op) /\ dbLog \in Seq(Op) /\ out \in Seq(Op)
  BY Batches DEF TurnType
<1>2. /\ applied' = applied /\ dbLog' = dbLog /\ Flying' = Flying
      /\ Gathered' = Gathered \o out /\ Outstanding' = Outstanding \o out
  BY TurnEnds
<1>3. /\ AllUpdates(dbLog) /\ AllUpdates(Flying) /\ AllUpdates(Gathered)
      /\ IsChain(dbLog \o Outstanding, Initial)
      /\ applied => LastValue(dbLog, Initial) = LastValue(Flying, Initial)
      /\ \A g \in dbGets :
            g.read /\ queue # <<>> /\ g.signature = queue[1].signature => g.value = Stored
  BY DEF ChainInv
<1>4. dbLog \o Outstanding \in Seq(Op)
  BY <1>1, ConcatProperties
<1> HIDE DEF out
<1>5. AllUpdates(Gathered \o out)
  BY <1>1, <1>3, UpdatesOfBoth DEF out
<1>6. IsChain((dbLog \o Outstanding) \o out, Initial)
  BY <1>1, <1>3, <1>4, ChainOfBoth DEF out
<1>7. (dbLog \o Outstanding) \o out = dbLog \o (Outstanding \o out)
  <2>1. dbLog \in Seq(Op) /\ Outstanding \in Seq(Op) /\ out \in Seq(Op)
    BY <1>1
  <2> QED BY <2>1, ConcatAssociative
<1>8. IsChain(dbLog \o (Outstanding \o out), Initial)
  BY <1>6, <1>7
<1>9. Stored' = Stored
  BY <1>2 DEF Stored
<1>10. \A g \in dbGets' :
         g.read /\ queue' # <<>> /\ g.signature = queue'[1].signature => g.value = Stored'
  BY <1>3, <1>9
<1>11. /\ AllUpdates(dbLog)' /\ AllUpdates(Flying)' /\ AllUpdates(Gathered)'
  BY <1>2, <1>3, <1>5 DEF AllUpdates
<1>12. IsChain(dbLog \o Outstanding, Initial)'
  BY <1>2, <1>8 DEF IsChain
<1>13. (applied => LastValue(dbLog, Initial) = LastValue(Flying, Initial))'
  BY <1>2, <1>3 DEF LastValue
<1> QED BY <1>10, <1>11, <1>12, <1>13 DEF ChainInv

-----------------------------------------------------------------------------
(* The steps keep the invariant.                                           *)

\* The cached value that a turn leaves is that of a pending operation.
LEMMA TurnLeavesNoOrphan ==
    ASSUME ManagerInv, NoOrphanCacheEntry, NEW t \in TurnType, Finish(t),
           t.out = <<>> => t.cache = <<>> \/ t.cache = cache,
           t.out # <<>> /\ t.cache # <<>> =>
                \E i \in DOMAIN t.out : t.out[i].signature = t.cache[1].signature
    PROVE  NoOrphanCacheEntry'
<1> DEFINE out == t.out
           all == Pending \o out
           Known(h) == \E i \in DOMAIN h : h[i].signature = t.cache[1].signature
<1>1. ManagerInv' /\ cache' = t.cache /\ Pending' = all
  BY TurnEnds
<1>2. (NoOrphanCacheEntry <=>
          (cache # <<>> => \E i \in DOMAIN Pending : Pending[i].signature = cache[1].signature))'
  BY <1>1, OrphansArePending, PTL
<1>3. cache # <<>> => \E i \in DOMAIN Pending : Pending[i].signature = cache[1].signature
  BY OrphansArePending
<1>4. Pending \in Seq(Op) /\ out \in Seq(Op)
  BY Batches DEF TurnType
<1>5. /\ out = <<>> => t.cache = <<>> \/ t.cache = cache
      /\ out # <<>> /\ t.cache # <<>> => Known(out)
  OBVIOUS
<1> HIDE DEF out
<1>6. /\ \A j \in DOMAIN out : \E i \in DOMAIN all : all[i] = out[j]
      /\ out = <<>> => all = Pending
  BY <1>4, ElementsOfBoth
<1> HIDE DEF all
<1>7. t.cache # <<>> => Known(all)
  BY <1>3, <1>5, <1>6
<1> QED BY <1>1, <1>2, <1>7

\* The turn that begins.
LEMMA TurnBegins ==
    ASSUME WcTypeOK
    PROVE  Turn \in TurnType /\ Turn.cache = cache /\ Turn.counter = counter /\ Turn.out = <<>>
<1>1. <<>> \in Seq(Op) /\ cache \in Seq(Cached) /\ counter \in Nat
  BY EmptySeq DEF WcTypeOK, Cached
<1> QED BY <1>1 DEF Turn, TurnType

\* A sequence of at most one element that is not empty has one.
LEMMA OneElement ==
    ASSUME NEW S, NEW s \in Seq(S), Len(s) <= 1, s # <<>>
    PROVE  Len(s) = 1 /\ DOMAIN s = {1} /\ s[1] \in S
<1>1. Len(s) \in Nat /\ Len(s) # 0 /\ DOMAIN s = 1..Len(s)
  BY EmptySeq, LenProperties
<1>2. Len(s) = 1
  BY <1>1
<1> QED BY <1>1, <1>2, ElementOfSeq

\* get() of a cached key.
LEMMA GetCachedStep ==
    ASSUME WcInv, NEW r \in Requests, GetCached(r), OnlyUpdates' => OnlyUpdates
    PROVE  WcInv'
<1> DEFINE t == Callback(Turn, r, "none")
           c == cache[1]
<1>1. /\ WcTypeOK /\ ManagerInv /\ QueueInv /\ NoOrphanCacheEntry
      /\ counter \in Nat /\ cache \in Seq(Cached) /\ Len(cache) <= 1
      /\ cache # <<>>
      /\ Finish(t)
      /\ queue' = queue /\ dbGets' = dbGets
  BY DEF WcInv, WcTypeOK, GetCached, Cached
<1>2. Len(cache) = 1 /\ c \in Cached
  BY <1>1, OneElement
<1>3. queue = <<>>
  BY <1>1 DEF QueueInv
<1>4. CalledBack(Turn, c, counter, "none")
  <2>1. FreshUpdates(<<>>, counter, counter) /\ counter <= counter
    BY <1>1 DEF FreshUpdates, AllUpdates
  <2> QED BY <1>1, <1>2, <2>1, TurnBegins, EmptyChain DEF CalledBack
<1>5. CalledBack(t, c, counter, "none")
  BY <1>1, <1>2, <1>4, CallbackStep
<1> HIDE DEF t
<1>6. /\ t \in TurnType /\ t.cache \in Seq(Cached) /\ Len(t.cache) = 1 /\ t.counter \in Nat
      /\ counter <= t.counter
      /\ t.out = <<>> => t.cache[1] = c
      /\ t.out # <<>> => IsLast(t.cache[1], t.out)
      /\ FreshUpdates(t.out, counter, t.counter)
      /\ IsChain(t.out, c.value)
      /\ t.out \in Seq(Op)
  BY <1>5 DEF CalledBack, TurnType
<1>7. t.cache # <<>>
  BY <1>6, EmptySeq
<1>8. t.out = <<>> => t.cache = cache
  <2> SUFFICES ASSUME t.out = <<>> PROVE t.cache = cache
    OBVIOUS
  <2>1. \A i \in 1..Len(t.cache) : t.cache[i] = cache[i]
    BY <1>6
  <2> QED BY <1>1, <1>2, <1>6, <2>1, SeqEqual
<1>9. ManagerInv' /\ cache' = t.cache /\ counter' = t.counter
  BY <1>1, <1>6, TurnEnds
<1>10. NoOrphanCacheEntry'
  <2>1. t.out # <<>> => \E i \in DOMAIN t.out : t.out[i].signature = t.cache[1].signature
    <3>1. t.out # <<>> => Len(t.out) \in DOMAIN t.out
      <4>1. t.out # <<>> => Len(t.out) \in Nat \ {0}
        BY <1>6, EmptySeq
      <4>2. DOMAIN t.out = 1..Len(t.out)
        BY <1>6, LenProperties
      <4> QED BY <4>1, <4>2
    <3> QED BY <1>6, <3>1 DEF IsLast
  <2> QED BY <1>1, <1>6, <1>8, <2>1, TurnLeavesNoOrphan
<1>11. WcTypeOK'
  BY <1>1, <1>6, <1>9 DEF WcTypeOK, Cached
<1>12. QueueInv'
  <2>1. \A g \in dbGets : g.signature \in Nat /\ g.signature < counter
    BY <1>1, <1>3 DEF QueueInv, WcTypeOK
  <2>2. \A g \in dbGets : g.signature <= t.counter /\ g.signature < t.counter
    BY <1>1, <1>6, <2>1
  <2> QED BY <1>1, <1>3, <1>9, <2>2 DEF QueueInv
<1>13. ASSUME OnlyUpdates' PROVE CurrencyInv' /\ (Initial # NoValue => ChainInv')
  <2>1. CurrencyInv /\ (Initial # NoValue => ChainInv)
    BY <1>13 DEF WcInv
  <2>2. CurrencyInv'
    BY <1>1, <1>6, <1>7, <1>8, <2>1, TurnKeepsCurrency
  <2>3. ASSUME Initial # NoValue PROVE ChainInv'
    <3>1. ChainInv /\ c.value = LastValue(dbLog \o Outstanding, Initial)
      BY <1>1, <2>1, <2>3, CachedIsLatest
    <3>2. AllUpdates(t.out) /\ IsChain(t.out, LastValue(dbLog \o Outstanding, Initial))
      BY <1>6, <3>1 DEF FreshUpdates
    <3> QED BY <1>1, <1>6, <3>1, <3>2, TurnKeepsChain
  <2> QED BY <2>2, <2>3
<1> QED BY <1>9, <1>10, <1>11, <1>12, <1>13 DEF WcInv

\* get() of a key that another get is reading.
LEMMA GetQueuedStep ==
    ASSUME WcInv, NEW r \in Requests, GetQueued(r), OnlyUpdates' => OnlyUpdates
    PROVE  WcInv'
<1> DEFINE q == [queue[1] EXCEPT !.callbacks = Append(@, r)]
           Q == [signature : Nat, callbacks : Seq(Requests)]
<1>1. /\ WcTypeOK /\ ManagerInv /\ QueueInv /\ NoOrphanCacheEntry
      /\ IsRead(r) /\ queue # <<>> /\ cache = <<>>
      /\ queue \in Seq(Q) /\ Len(queue) <= 1
      /\ queue' = <<q>>
      /\ UNCHANGED <<wgVars, cache, counter, dbGets>>
  BY DEF WcInv, WcTypeOK, GetQueued
<1>2. queue[1] \in Q
  BY <1>1, OneElement
<1>3. /\ queue[1].signature \in Nat /\ queue[1].callbacks \in Seq(Requests)
      /\ Append(queue[1].callbacks, r) \in Seq(Requests)
  BY <1>2, AppendProperties
<1>4. /\ q \in Q /\ q.signature = queue[1].signature
      /\ q.callbacks = Append(queue[1].callbacks, r)
  BY <1>2, <1>3
<1>5. \A i \in DOMAIN q.callbacks : IsRead(q.callbacks[i])
  <2> DEFINE before == queue[1].callbacks
             after == Append(before, r)
  <2>1. /\ \A i \in 1..Len(before) : after[i] = before[i]
        /\ after[Len(before) + 1] = r
        /\ after \in Seq(Requests)
        /\ Len(after) = Len(before) + 1
    BY <1>3, AppendProperties
  <2>2. Len(before) \in Nat /\ DOMAIN before = 1..Len(before) /\ DOMAIN after = 1..(Len(before) + 1)
    BY <1>3, <2>1, LenProperties
  <2>3. \A i \in DOMAIN before : IsRead(before[i])
    BY <1>1 DEF QueueInv
  <2> HIDE DEF after, before
  <2>4. ASSUME NEW i \in 1..(Len(before) + 1) PROVE IsRead(after[i])
    <3>1. CASE i \in 1..Len(before)
      BY <2>1, <2>2, <2>3, <3>1
    <3>2. CASE i \notin 1..Len(before)
      <4>1. i = Len(before) + 1
        BY <2>2, <3>2
      <4> QED BY <1>1, <2>1, <4>1
    <3> QED BY <3>1, <3>2
  <2> QED BY <1>4, <2>2, <2>4 DEF after, before
<1> HIDE DEF q
<1>6. queue' \in Seq(Q) /\ Len(queue') <= 1 /\ queue'[1] = q
  BY <1>1, <1>4
<1>7. WcTypeOK'
  BY <1>1, <1>6 DEF WcTypeOK
<1>8. ManagerInv' /\ NoOrphanCacheEntry'
  BY <1>1 DEF ManagerInv, NoOrphanCacheEntry, wgVars
<1>9. QueueInv'
  BY <1>1, <1>4, <1>5, <1>6 DEF QueueInv
<1>10. ASSUME OnlyUpdates' PROVE CurrencyInv' /\ (Initial # NoValue => ChainInv')
  <2>1. CurrencyInv /\ (Initial # NoValue => ChainInv)
    BY <1>10 DEF WcInv
  <2>2. /\ Flying' = Flying /\ Gathered' = Gathered /\ Pending' = Pending
        /\ Outstanding' = Outstanding /\ Stored' = Stored
        /\ dbLog' = dbLog /\ applied' = applied
    BY <1>1 DEF Flying, Gathered, Pending, Outstanding, Stored, wgVars
  <2>3. CurrencyInv'
    BY <1>1, <2>1, <2>2 DEF CurrencyInv
  <2>4. ASSUME Initial # NoValue PROVE ChainInv'
    BY <1>1, <1>4, <1>6, <2>1, <2>2, <2>4 DEF ChainInv, AllUpdates, IsChain, LastValue
  <2> QED BY <2>3, <2>4
<1> QED BY <1>7, <1>8, <1>9, <1>10 DEF WcInv

\* get() that asks the database.
LEMMA GetFromDbStep ==
    ASSUME WcInv, NEW r \in Requests, GetFromDb(r), OnlyUpdates' => OnlyUpdates
    PROVE  WcInv'
<1> DEFINE q == [signature |-> counter, callbacks |-> <<r>>]
           new == [signature |-> counter, read |-> FALSE, value |-> NoValue]
<1>1. /\ WcTypeOK /\ ManagerInv /\ QueueInv /\ NoOrphanCacheEntry
      /\ IsRead(r) /\ queue = <<>> /\ cache = <<>>
      /\ counter \in Nat
      /\ queue' = <<q>> /\ dbGets' = dbGets \cup {new}
      /\ UNCHANGED <<wgVars, cache, counter>>
  BY DEF WcInv, WcTypeOK, GetFromDb
<1>2. /\ q \in [signature : Nat, callbacks : Seq(Requests)]
      /\ q.signature = counter /\ q.callbacks = <<r>>
      /\ \A i \in DOMAIN <<r>> : <<r>>[i] = r
  BY <1>1
<1>3. /\ new \in [signature : Nat, read : BOOLEAN, value : Values]
      /\ new.signature = counter /\ ~new.read
  BY <1>1 DEF Values
<1> HIDE DEF q, new
<1>4. WcTypeOK'
  BY <1>1, <1>2, <1>3 DEF WcTypeOK
<1>5. ManagerInv' /\ NoOrphanCacheEntry'
  BY <1>1 DEF ManagerInv, NoOrphanCacheEntry, wgVars
<1>6. \A g \in dbGets : g.signature \in Nat /\ g.signature < counter
  BY <1>1 DEF QueueInv, WcTypeOK
<1>7. queue' # <<>> /\ queue'[1] = q
  BY <1>1
<1>8. QueueInv'
  <2>1. \A g \in dbGets' : g.signature <= counter
    BY <1>1, <1>3, <1>6
  <2> QED BY <1>1, <1>2, <1>7, <2>1 DEF QueueInv
<1>9. ASSUME OnlyUpdates' PROVE CurrencyInv' /\ (Initial # NoValue => ChainInv')
  <2>1. CurrencyInv /\ (Initial # NoValue => ChainInv)
    BY <1>9 DEF WcInv
  <2>2. /\ Flying' = Flying /\ Gathered' = Gathered /\ Pending' = Pending
        /\ Outstanding' = Outstanding /\ Stored' = Stored
        /\ dbLog' = dbLog /\ applied' = applied
    BY <1>1 DEF Flying, Gathered, Pending, Outstanding, Stored, wgVars
  <2>3. CurrencyInv'
    BY <1>1, <2>1, <2>2 DEF CurrencyInv
  <2>4. \A g \in dbGets' : ~(g.read /\ g.signature = queue'[1].signature)
    BY <1>1, <1>2, <1>3, <1>6, <1>7
  <2>5. ASSUME Initial # NoValue PROVE ChainInv'
    BY <2>1, <2>2, <2>4, <2>5 DEF ChainInv, AllUpdates, IsChain, LastValue
  <2> QED BY <2>3, <2>5
<1> QED BY <1>4, <1>5, <1>8, <1>9 DEF WcInv

\* The database reads the key.
LEMMA DbReadStep ==
    ASSUME WcInv, NEW g \in dbGets, DbRead(g), OnlyUpdates' => OnlyUpdates
    PROVE  WcInv'
<1> DEFINE G == [signature : Nat, read : BOOLEAN, value : Values]
           seen == [g EXCEPT !.read = TRUE, !.value = Stored]
<1>1. /\ WcTypeOK /\ ManagerInv /\ QueueInv /\ NoOrphanCacheEntry
      /\ dbGets \subseteq G /\ g \in G
      /\ dbGets' = (dbGets \ {g}) \cup {seen}
      /\ UNCHANGED <<wgVars, cache, queue, counter>>
  BY DEF WcInv, WcTypeOK, DbRead
<1>2. Stored \in Values
  <2>1. CASE dbLog = <<>>
    BY <2>1 DEF Stored, Values
  <2>2. CASE dbLog # <<>>
    <3>1. dbLog \in Seq(Op) /\ Len(dbLog) \in DOMAIN dbLog
      <4>1. dbLog \in Seq(Op)
        BY <1>1, Batches
      <4>2. Len(dbLog) \in Nat \ {0} /\ DOMAIN dbLog = 1..Len(dbLog)
        BY <2>2, <4>1, EmptySeq, LenProperties
      <4> QED BY <4>1, <4>2
    <3> QED BY <2>2, <3>1, OpFields DEF Stored
  <2> QED BY <2>1, <2>2
<1>3. seen \in G /\ seen.signature = g.signature /\ seen.value = Stored
  BY <1>1, <1>2
<1> HIDE DEF seen
<1>4. WcTypeOK'
  BY <1>1, <1>3 DEF WcTypeOK
<1>5. ManagerInv' /\ NoOrphanCacheEntry'
  BY <1>1 DEF ManagerInv, NoOrphanCacheEntry, wgVars
<1>6. \A h \in dbGets' : \E k \in dbGets : h.signature = k.signature /\ (h = k \/ h.value = Stored)
  BY <1>1, <1>3
<1>7. QueueInv'
  <2>1. \A h \in dbGets' : h.signature <= counter /\ (queue = <<>> => h.signature < counter)
    BY <1>1, <1>6 DEF QueueInv
  <2> QED BY <1>1, <2>1 DEF QueueInv
<1>8. ASSUME OnlyUpdates' PROVE CurrencyInv' /\ (Initial # NoValue => ChainInv')
  <2>1. CurrencyInv /\ (Initial # NoValue => ChainInv)
    BY <1>8 DEF WcInv
  <2>2. /\ Flying' = Flying /\ Gathered' = Gathered /\ Pending' = Pending
        /\ Outstanding' = Outstanding /\ Stored' = Stored
        /\ dbLog' = dbLog /\ applied' = applied
    BY <1>1 DEF Flying, Gathered, Pending, Outstanding, Stored, wgVars
  <2>3. CurrencyInv'
    BY <1>1, <2>1, <2>2 DEF CurrencyInv
  <2>4. ASSUME Initial # NoValue PROVE ChainInv'
    <3>1. \A h \in dbGets' :
            h.read /\ queue # <<>> /\ h.signature = queue[1].signature => h.value = Stored
      BY <1>6, <2>1, <2>4 DEF ChainInv
    <3> QED BY <1>1, <2>1, <2>2, <2>4, <3>1 DEF ChainInv, AllUpdates, IsChain, LastValue
  <2> QED BY <2>3, <2>4
<1> QED BY <1>4, <1>5, <1>7, <1>8 DEF WcInv

\* A turn that dequeues.
LEMMA DequeueingStep ==
    ASSUME WcInv, OnlyUpdates' => OnlyUpdates, queue # <<>>, queue' = <<>>, dbGets' \subseteq dbGets,
           NEW value \in Values, NEW err, Finish(Dequeue(Turn, value, err)),
           OnlyUpdates /\ Initial # NoValue => err = "other" \/ (err = "none" /\ value = Stored)
    PROVE  WcInv'
<1> DEFINE t == Dequeue(Turn, value, err)
<1>1. /\ WcTypeOK /\ ManagerInv /\ QueueInv /\ NoOrphanCacheEntry
      /\ counter \in Nat /\ cache = <<>>
      /\ queue \in Seq([signature : Nat, callbacks : Seq(Requests)]) /\ Len(queue) <= 1
      /\ Finish(t)
  BY DEF WcInv, WcTypeOK, QueueInv
<1>2. queue[1].callbacks \in Seq(Requests)
  <2>1. queue[1] \in [signature : Nat, callbacks : Seq(Requests)]
    BY <1>1, OneElement
  <2> QED BY <2>1
<1>3. Dequeued(t, counter, value, err)
  <2>1. Turn \in TurnType /\ Turn.counter = counter /\ Turn.out = <<>>
    BY <1>1, TurnBegins
  <2>2. Dequeued(t, Turn.counter, value, err)
    BY <1>2, <2>1, DequeueStep
  <2> QED BY <2>1, <2>2
<1> HIDE DEF t
<1>4. /\ t \in TurnType /\ t.cache \in Seq(Cached) /\ t.counter \in Nat /\ t.out \in Seq(Op)
      /\ counter < t.counter /\ counter <= t.counter
      /\ t.out = <<>> => t.cache = <<>>
      /\ t.out # <<>> => Len(t.cache) = 1 /\ IsLast(t.cache[1], t.out)
      /\ FreshUpdates(t.out, counter, t.counter)
      /\ err = "none" => IsChain(t.out, value)
      /\ err = "other" => t.out = <<>>
  BY <1>1, <1>3 DEF Dequeued, TurnType
<1>5. (t.out # <<>> => t.cache # <<>>) /\ Len(t.cache) <= 1
  <2>1. Len(<<>>) = 0
    BY EmptySeq
  <2>2. CASE t.out = <<>>
    BY <1>4, <2>1, <2>2
  <2>3. CASE t.out # <<>>
    <3>1. t.cache \in Seq(Cached) /\ Len(t.cache) = 1
      BY <1>4, <2>3
    <3>2. t.cache # <<>>
      BY <3>1, EmptySeq
    <3> QED BY <3>1, <3>2
  <2> QED BY <2>2, <2>3
<1>6. ManagerInv' /\ cache' = t.cache /\ counter' = t.counter
  BY <1>1, <1>4, TurnEnds
<1>7. NoOrphanCacheEntry'
  <2>1. t.out # <<>> => \E i \in DOMAIN t.out : t.out[i].signature = t.cache[1].signature
    <3>1. t.out # <<>> => Len(t.out) \in DOMAIN t.out
      <4>1. t.out # <<>> => Len(t.out) \in Nat \ {0}
        BY <1>4, EmptySeq
      <4>2. DOMAIN t.out = 1..Len(t.out)
        BY <1>4, LenProperties
      <4> QED BY <4>1, <4>2
    <3> QED BY <1>4, <3>1 DEF IsLast
  <2> QED BY <1>1, <1>4, <2>1, TurnLeavesNoOrphan
<1>8. WcTypeOK'
  <2>1. <<>> \in Seq([signature : Nat, callbacks : Seq(Requests)]) /\ Len(<<>>) <= 1
    BY EmptySeq
  <2> QED BY <1>1, <1>4, <1>5, <1>6, <2>1 DEF WcTypeOK, Cached
<1>9. QueueInv'
  <2>1. \A g \in dbGets' : g.signature \in Nat /\ g.signature <= counter
    BY <1>1 DEF QueueInv, WcTypeOK
  <2>2. \A g \in dbGets' : g.signature <= t.counter /\ g.signature < t.counter
    BY <1>1, <1>4, <2>1
  <2> QED BY <1>6, <2>2 DEF QueueInv
<1>10. ASSUME OnlyUpdates' PROVE CurrencyInv' /\ (Initial # NoValue => ChainInv')
  <2>1. CurrencyInv /\ (Initial # NoValue => ChainInv)
    BY <1>10 DEF WcInv
  <2>2. Pending = <<>>
    BY <1>1, <2>1 DEF CurrencyInv
  <2>3. CurrencyInv'
    BY <1>1, <1>4, <1>5, <2>1, <2>2, TurnKeepsCurrency
  <2>4. ASSUME Initial # NoValue PROVE ChainInv'
    <3>1. ChainInv /\ Stored = LastValue(dbLog \o Outstanding, Initial)
      BY <1>1, <2>1, <2>4, CachedIsLatest
    <3>2. AllUpdates(t.out)
      BY <1>4 DEF FreshUpdates
    <3>3. IsChain(t.out, LastValue(dbLog \o Outstanding, Initial))
      BY <1>4, <1>10, <2>4, <3>1, EmptyChain
    <3> QED BY <1>1, <1>4, <3>1, <3>2, <3>3, TurnKeepsChain
  <2> QED BY <2>3, <2>4
<1> QED BY <1>6, <1>7, <1>8, <1>9, <1>10 DEF WcInv

\* The database answers a get.
LEMMA DbGetDoneStep ==
    ASSUME WcInv, NEW g \in dbGets, NEW failed \in BOOLEAN, DbGetDone(g, failed),
           OnlyUpdates' => OnlyUpdates
    PROVE  WcInv'
<1>1. /\ WcTypeOK /\ ManagerInv /\ QueueInv /\ NoOrphanCacheEntry
      /\ g \in [signature : Nat, read : BOOLEAN, value : Values]
      /\ g.read /\ dbGets' = dbGets \ {g}
  BY DEF WcInv, WcTypeOK, DbGetDone
<1>2. CASE queue # <<>> /\ queue[1].signature = g.signature
  <2>1. /\ queue' = <<>>
        /\ Finish(IF failed THEN Dequeue(Turn, NoValue, "other")
                  ELSE IF g.value = NoValue THEN Dequeue(Turn, NoValue, "notFound")
                  ELSE Dequeue(Turn, g.value, "none"))
    BY <1>2 DEF DbGetDone
  <2>2. NoValue \in Values /\ g.value \in Values
    BY <1>1 DEF Values
  <2>3. ASSUME OnlyUpdates, Initial # NoValue PROVE g.value = Stored /\ Stored # NoValue
    <3>1. ChainInv
      BY <2>3 DEF WcInv
    <3>2. g.value = Stored
      BY <1>1, <1>2, <3>1 DEF ChainInv
    <3>3. dbLog # <<>> => Len(dbLog) \in DOMAIN dbLog
      <4>1. dbLog \in Seq(Op)
        BY <1>1, Batches
      <4>2. dbLog # <<>> => Len(dbLog) \in Nat \ {0} /\ DOMAIN dbLog = 1..Len(dbLog)
        BY <4>1, EmptySeq, LenProperties
      <4> QED BY <4>2
    <3>4. Stored # NoValue
      BY <2>3, <3>1, <3>3 DEF ChainInv, AllUpdates, Stored
    <3> QED BY <3>2, <3>4
  <2>4. CASE failed
    <3>1. Finish(Dequeue(Turn, NoValue, "other"))
      BY <2>1, <2>4
    <3> QED BY <1>1, <1>2, <2>1, <2>2, <3>1, DequeueingStep
  <2>5. CASE ~failed /\ g.value = NoValue
    <3>1. Finish(Dequeue(Turn, NoValue, "notFound"))
      BY <2>1, <2>5
    <3>2. ~(OnlyUpdates /\ Initial # NoValue)
      BY <2>3, <2>5
    <3> QED BY <1>1, <1>2, <2>1, <2>2, <3>1, <3>2, DequeueingStep
  <2>6. CASE ~failed /\ g.value # NoValue
    <3>1. Finish(Dequeue(Turn, g.value, "none"))
      BY <2>1, <2>6
    <3> QED BY <1>1, <1>2, <2>1, <2>2, <2>3, <3>1, DequeueingStep
  <2> QED BY <2>4, <2>5, <2>6
<1>3. CASE ~(queue # <<>> /\ queue[1].signature = g.signature)
  <2>1. UNCHANGED <<wgVars, cache, queue, counter>>
    BY <1>3 DEF DbGetDone
  <2>2. WcTypeOK'
    BY <1>1, <2>1 DEF WcTypeOK
  <2>3. ManagerInv' /\ NoOrphanCacheEntry'
    BY <1>1, <2>1 DEF ManagerInv, NoOrphanCacheEntry, wgVars
  <2>4. QueueInv'
    BY <1>1, <2>1 DEF QueueInv
  <2>5. ASSUME OnlyUpdates' PROVE CurrencyInv' /\ (Initial # NoValue => ChainInv')
    <3>1. CurrencyInv /\ (Initial # NoValue => ChainInv)
      BY <2>5 DEF WcInv
    <3>2. /\ Flying' = Flying /\ Gathered' = Gathered /\ Pending' = Pending
          /\ Outstanding' = Outstanding /\ Stored' = Stored
          /\ dbLog' = dbLog /\ applied' = applied
      BY <2>1 DEF Flying, Gathered, Pending, Outstanding, Stored, wgVars
    <3>3. CurrencyInv'
      BY <2>1, <3>1, <3>2 DEF CurrencyInv
    <3>4. ASSUME Initial # NoValue PROVE ChainInv'
      BY <1>1, <2>1, <3>1, <3>2, <3>4 DEF ChainInv, AllUpdates, IsChain, LastValue
    <3> QED BY <3>3, <3>4
  <2> QED BY <2>2, <2>3, <2>4, <2>5 DEF WcInv
<1> QED BY <1>2, <1>3

\* batch() outside of a callback. It is not an update, so that only what holds of any requests
\* is left to show.
LEMMA BlindBatchStep ==
    ASSUME WcInv, NEW r \in Requests, BlindBatch(r)
    PROVE  WcInv'
<1> DEFINE v == ValueOf(r)
           c == [signature |-> counter, value |-> v]
           written == [Turn EXCEPT !.cache = <<c>>, !.counter = @ + 1]
           turn == IF queue = <<>> THEN written ELSE Dequeue(written, v, "none")
           op == [req |-> r, index |-> 1, value |-> v, over |-> NoValue, signature |-> counter]
           t == [turn EXCEPT !.out = @ \o <<op>>]
<1>1. /\ WcTypeOK /\ ManagerInv /\ QueueInv /\ NoOrphanCacheEntry
      /\ counter \in Nat
      /\ queue \in Seq([signature : Nat, callbacks : Seq(Requests)]) /\ Len(queue) <= 1
      /\ ~IsRead(r) /\ queue' = <<>> /\ dbGets' = dbGets
  BY DEF WcInv, WcTypeOK, BlindBatch
<1>2. Finish(t)
  BY Zenon DEF BlindBatch, Write
<1>3. v \in Values /\ c \in Cached /\ c.signature = counter
  BY <1>1, UpdateValue DEF Cached
<1>4. op \in Op /\ op.signature = counter /\ op.req = r
  BY <1>1, <1>3 DEF Op, Values
<1>5. /\ written \in TurnType /\ written.out = <<>> /\ written.counter = counter + 1
      /\ written.cache = <<c>>
  <2>1. Turn = [cache |-> cache, counter |-> counter, out |-> <<>>, done |-> {}]
    BY DEF Turn
  <2>2. written = [Turn EXCEPT !.cache = <<c>>, !.counter = Turn.counter + 1]
    OBVIOUS
  <2> HIDE DEF c, written
  <2>3. written = [cache |-> <<c>>, counter |-> counter + 1, out |-> <<>>, done |-> {}]
    BY <2>1, <2>2
  <2>4. <<c>> \in Seq(Cached) /\ <<>> \in Seq(Op) /\ counter + 1 \in Nat
    BY <1>1, <1>3, EmptySeq
  <2>5. /\ written.cache = <<c>> /\ written.counter = counter + 1 /\ written.out = <<>>
        /\ written.done = {}
    BY <2>3
  <2> QED BY <2>3, <2>4, <2>5 DEF TurnType
<1> HIDE DEF written
<1>6. /\ turn \in TurnType /\ counter < turn.counter /\ Len(turn.cache) <= 1
      /\ turn.cache # <<>> =>
            turn.cache[1].signature = counter \/ IsLast(turn.cache[1], turn.out)
  <2>1. CASE queue = <<>>
    <3>1. turn = written
      BY <2>1
    <3>2. Len(<<c>>) = 1 /\ <<c>>[1] = c
      OBVIOUS
    <3> HIDE DEF turn, c
    <3>3. turn.cache = <<c>> /\ turn.counter = counter + 1 /\ turn \in TurnType
      BY <1>5, <3>1
    <3>4. Len(turn.cache) = 1 /\ turn.cache[1] = c
      BY <3>2, <3>3
    <3>5. turn.cache[1].signature = counter
      BY <1>3, <3>4
    <3>6. Len(turn.cache) <= 1 /\ counter < turn.counter
      BY <1>1, <3>3, <3>4
    <3> QED BY <3>3, <3>5, <3>6
  <2>2. CASE queue # <<>>
    <3>1. turn = Dequeue(written, v, "none")
      BY <2>2
    <3>2. queue[1].callbacks \in Seq(Requests)
      <4>1. queue[1] \in [signature : Nat, callbacks : Seq(Requests)]
        BY <1>1, <2>2, OneElement
      <4> QED BY <4>1
    <3> HIDE DEF turn, v
    <3>3. Dequeued(turn, counter + 1, v, "none")
      <4>1. Dequeued(Dequeue(written, v, "none"), written.counter, v, "none")
        BY <1>3, <1>5, <3>2, DequeueStep
      <4> QED BY <1>5, <3>1, <4>1
    <3>4. /\ turn \in TurnType /\ turn.counter \in Nat /\ turn.cache \in Seq(Cached)
          /\ counter + 1 < turn.counter
          /\ turn.out = <<>> => turn.cache = <<>>
          /\ turn.out # <<>> => Len(turn.cache) = 1 /\ IsLast(turn.cache[1], turn.out)
      BY <3>3 DEF Dequeued, TurnType
    <3>5. Len(turn.cache) <= 1
      <4>1. Len(<<>>) = 0
        BY EmptySeq
      <4>2. CASE turn.out = <<>>
        BY <3>4, <4>1, <4>2
      <4>3. CASE turn.out # <<>>
        <5>1. Len(turn.cache) = 1
          BY <3>4, <4>3
        <5> QED BY <5>1
      <4> QED BY <4>2, <4>3
    <3>6. counter < turn.counter
      BY <1>1, <3>4
    <3> QED BY <3>4, <3>5, <3>6
  <2> QED BY <2>1, <2>2
<1> HIDE DEF turn, op
<1> DEFINE out == turn.out \o <<op>>
           cached == turn.cache
           next == turn.counter
           done == turn.done
<1>7. /\ cached \in Seq(Cached) /\ next \in Nat /\ turn.out \in Seq(Op) /\ done \in SUBSET Requests
      /\ <<op>> \in Seq(Op) /\ out \in Seq(Op)
  <2>1. cached \in Seq(Cached) /\ next \in Nat /\ turn.out \in Seq(Op) /\ done \in SUBSET Requests
    BY <1>6 DEF TurnType
  <2>2. <<op>> \in Seq(Op)
    BY <1>4
  <2> QED BY <2>1, <2>2, ConcatProperties
<1>8. t \in TurnType /\ t.cache = cached /\ t.counter = next /\ t.out = out
  <2>1. t = [cache |-> cached, counter |-> next, out |-> out, done |-> done]
    <3>1. turn = [cache |-> cached, counter |-> next, out |-> turn.out, done |-> done]
      BY <1>6 DEF TurnType
    <3>2. t = [turn EXCEPT !.out = out]
      OBVIOUS
    <3> DEFINE before == turn.out
    <3>3. turn = [cache |-> cached, counter |-> next, out |-> before, done |-> done]
      BY <3>1
    <3> HIDE DEF t, out, cached, next, done, before
    <3> QED BY <3>2, <3>3
  <2> HIDE DEF t, out, cached, next, done
  <2>2. t.cache = cached /\ t.counter = next /\ t.out = out /\ t.done = done
    BY <2>1
  <2> QED BY <1>7, <2>1, <2>2 DEF TurnType
<1> HIDE DEF t
<1>9. /\ \A j \in DOMAIN turn.out : \E i \in DOMAIN out : out[i] = turn.out[j]
      /\ \E i \in DOMAIN out : out[i] = op
      /\ out # <<>>
  <2>1. DOMAIN <<op>> = {1} /\ <<op>>[1] = op /\ <<op>> # <<>>
    OBVIOUS
  <2>2. \E j \in DOMAIN <<op>> : <<op>>[j] = op
    BY <2>1
  <2> DEFINE last == <<op>>
  <2> HIDE DEF last
  <2>3. /\ \A j \in DOMAIN turn.out : \E i \in DOMAIN (turn.out \o last) :
              (turn.out \o last)[i] = turn.out[j]
        /\ \A j \in DOMAIN last : \E i \in DOMAIN (turn.out \o last) :
              (turn.out \o last)[i] = last[j]
        /\ last # <<>> => turn.out \o last # <<>>
    <3>1. turn.out \in Seq(Op) /\ last \in Seq(Op)
      BY <1>7 DEF last
    <3> DEFINE first == turn.out
    <3>2. first \in Seq(Op) /\ last \in Seq(Op)
      BY <3>1
    <3> HIDE DEF first
    <3>3. /\ \A j \in DOMAIN first : \E i \in DOMAIN (first \o last) :
                (first \o last)[i] = first[j]
          /\ \A j \in DOMAIN last : \E i \in DOMAIN (first \o last) :
                (first \o last)[i] = last[j]
          /\ last # <<>> => first \o last # <<>>
      BY <3>2, ElementsOfBoth
    <3> QED BY <3>3 DEF first
  <2>4. last # <<>> /\ \E j \in DOMAIN last : last[j] = op
    BY <2>1, <2>2 DEF last
  <2>5. \E i \in DOMAIN (turn.out \o last) : (turn.out \o last)[i] = op
    BY <2>3, <2>4
  <2> QED BY <2>3, <2>4, <2>5 DEF last
<1>10. ManagerInv' /\ cache' = cached /\ counter' = next
  BY <1>1, <1>2, <1>8, TurnEnds
<1>11. NoOrphanCacheEntry'
  <2>1. ASSUME cached # <<>>
        PROVE  \E i \in DOMAIN out : out[i].signature = cached[1].signature
    <3>1. CASE cached[1].signature = counter
      BY <1>4, <1>9, <3>1
    <3>2. CASE IsLast(cached[1], turn.out)
      <4>1. Len(turn.out) \in DOMAIN turn.out
        <5>1. turn.out # <<>>
          BY <3>2 DEF IsLast
        <5>2. Len(turn.out) \in Nat \ {0} /\ DOMAIN turn.out = 1..Len(turn.out)
          BY <1>7, <5>1, EmptySeq, LenProperties
        <5> QED BY <5>2
      <4>2. \E i \in DOMAIN out : out[i] = turn.out[Len(turn.out)]
        BY <1>9, <4>1
      <4> QED BY <3>2, <4>2 DEF IsLast
    <3> QED BY <1>6, <2>1, <3>1, <3>2
  <2> HIDE DEF out, cached, next
  <2> QED BY <1>1, <1>2, <1>8, <1>9, <2>1, TurnLeavesNoOrphan
<1>12. WcTypeOK'
  <2>1. <<>> \in Seq([signature : Nat, callbacks : Seq(Requests)]) /\ Len(<<>>) <= 1
    BY EmptySeq
  <2> QED BY <1>1, <1>6, <1>7, <1>10, <2>1 DEF WcTypeOK, Cached
<1>13. QueueInv'
  <2>1. \A g \in dbGets' : g.signature \in Nat /\ g.signature <= counter
    BY <1>1 DEF QueueInv, WcTypeOK
  <2>2. \A g \in dbGets' : g.signature <= next /\ g.signature < next
    BY <1>1, <1>6, <1>7, <2>1
  <2> QED BY <1>1, <1>10, <2>2 DEF QueueInv
<1>14. ~OnlyUpdates'
  <2> DEFINE reqs == [i \in DOMAIN out |-> out[i].req]
  <2>1. submitted' = submitted \o reqs /\ submitted \in Seq(Requests)
    BY <1>1, <1>2, <1>8 DEF Finish, ManagerInv
  <2>2. DOMAIN out = 1..Len(out) /\ Len(out) \in Nat
    BY <1>7, LenProperties
  <2>3. \A i \in 1..Len(out) : out[i].req \in Requests
    <3>1. \A i \in 1..Len(out) : out[i] \in Op
      BY <1>7, ElementOfSeq
    <3> QED BY <3>1 DEF Op
  <2> HIDE DEF out
  <2>4. reqs \in Seq(Requests)
    <3>1. reqs \in [1..Len(out) -> Requests]
      BY <2>2, <2>3
    <3> QED BY <2>2, <3>1, SeqDef
  <2>5. PICK j \in DOMAIN out : out[j] = op
    BY <1>9
  <2>6. reqs[j] = r /\ j \in DOMAIN reqs
    BY <1>4, <2>5
  <2> HIDE DEF reqs
  <2>7. \E i \in DOMAIN (submitted \o reqs) : (submitted \o reqs)[i] = r
    <3>1. /\ Len(submitted) \in Nat /\ Len(reqs) \in Nat
          /\ DOMAIN reqs = 1..Len(reqs)
          /\ DOMAIN (submitted \o reqs) = 1..(Len(submitted) + Len(reqs))
          /\ \A i \in 1..Len(reqs) : (submitted \o reqs)[Len(submitted) + i] = reqs[i]
      BY <2>1, <2>4, PlacesOfBoth
    <3>2. Len(submitted) + j \in DOMAIN (submitted \o reqs)
      BY <2>6, <3>1
    <3> QED BY <2>6, <3>1, <3>2
  <2>8. \E i \in DOMAIN submitted' : submitted'[i] = r
    BY <2>1, <2>7
  <2> QED BY <1>1, <2>8 DEF OnlyUpdates, IsCalled, IsRead
<1> QED BY <1>10, <1>11, <1>12, <1>13, <1>14 DEF WcInv

\* The answers to some batches are answers.
LEMMA AnswersType ==
    ASSUME ManagerInv, NEW S, NEW reply \in Replies, Answer(S, reply)
    PROVE  /\ replies' \in [Requests -> Seq(Replies)]
           /\ \A r \in Requests : replies[r] # <<>> => replies'[r] # <<>>
<1>1. replies \in [Requests -> Seq(Replies)]
  BY DEF ManagerInv
<1>2. \A r \in Requests :
         Append(replies[r], reply) \in Seq(Replies) /\ Append(replies[r], reply) # <<>>
  BY <1>1, AppendProperties
<1>3. replies' = [r \in Requests |-> IF \E b \in S : r \in CallbacksOf(b)
                                    THEN Append(replies[r], reply) ELSE replies[r]]
  BY DEF Answer
<1> QED BY <1>1, <1>2, <1>3

\* The end of a commit.
LEMMA CommitDoneStep ==
    ASSUME WcInv, WcCommitDone, OnlyUpdates' => OnlyUpdates
    PROVE  WcInv'
<1> DEFINE Known(h) == \E i \in DOMAIN h : h[i].signature = cache[1].signature
<1>1. /\ WcTypeOK /\ ManagerInv /\ QueueInv /\ NoOrphanCacheEntry
      /\ inFlight # <<>> /\ applied
      /\ dbLog' = dbLog /\ submitted' = submitted
      /\ Answer({inFlight[1]}, "ok")
      /\ UNCHANGED <<queue, counter, dbGets>>
  BY DEF WcInv, WcCommitDone, CommitDone, isCommitting
<1>2. /\ Flying \in Seq(Op) /\ Gathered \in Seq(Op) /\ Pending \in Seq(Op)
      /\ inFlight[1] = Flying /\ Outstanding = Gathered
  BY <1>1, Batches
<1>3. cache' = IF cache # <<>> /\ Known(Flying) THEN <<>> ELSE cache
  BY <1>2 DEF WcCommitDone, CacheClear
<1>4. /\ IsSlot(inFlight') /\ IsSlot(batchCache')
      /\ applied' = FALSE /\ timer' \in BOOLEAN
      /\ \/ Flying' = Gathered /\ Gathered' = <<>>
         \/ Flying' = <<>> /\ Gathered' = Gathered
  <2>1. CASE batchCache # <<>> /\ ~timer
    <3>1. inFlight' = batchCache /\ batchCache' = <<>> /\ timer' = FALSE /\ applied' = FALSE
      BY <2>1 DEF WcCommitDone, CommitDone, StartCommit
    <3>2. Flying' = Gathered /\ Gathered' = <<>>
      BY <3>1, FreeSlot DEF Flying, Gathered
    <3> QED BY <1>1, <3>1, <3>2, FreeSlot DEF ManagerInv
  <2>2. CASE ~(batchCache # <<>> /\ ~timer)
    <3>1. inFlight' = <<>> /\ applied' = FALSE /\ batchCache' = batchCache /\ timer' = timer
      BY <2>2 DEF WcCommitDone, CommitDone
    <3>2. Flying' = <<>> /\ Gathered' = Gathered
      BY <3>1, FreeSlot DEF Flying, Gathered
    <3> QED BY <1>1, <3>1, <3>2, FreeSlot DEF ManagerInv
  <2> QED BY <2>1, <2>2
<1>5. Pending' = Gathered
  <2>1. <<>> \o Gathered = Gathered /\ Gathered \o <<>> = Gathered
    BY <1>2, ConcatEmptySeq
  <2> QED BY <1>4, <2>1 DEF Pending
<1>6. ManagerInv'
  <2>1. replies' \in [Requests -> Seq(Replies)]
    BY <1>1, AnswersType DEF Replies
  <2> QED BY <1>1, <1>4, <2>1 DEF ManagerInv
<1>7. Outstanding' = Gathered
  <2>1. (~applied => Outstanding = Pending)'
    BY <1>6, Batches, PTL
  <2> QED BY <1>4, <1>5, <2>1
<1>8. NoOrphanCacheEntry'
  <2>1. (NoOrphanCacheEntry <=>
           (cache # <<>> => \E i \in DOMAIN Pending : Pending[i].signature = cache[1].signature))'
    BY <1>6, OrphansArePending, PTL
  <2>2. cache # <<>> => Known(Pending)
    BY <1>1, OrphansArePending
  <2>3. \A i \in DOMAIN Pending :
          \/ \E j \in DOMAIN Flying : Pending[i] = Flying[j]
          \/ \E j \in DOMAIN Gathered : Pending[i] = Gathered[j]
    <3>1. Flying \in Seq(Op) /\ Gathered \in Seq(Op)
      BY <1>2
    <3>2. \A i \in DOMAIN (Flying \o Gathered) :
            \/ \E j \in DOMAIN Flying : (Flying \o Gathered)[i] = Flying[j]
            \/ \E j \in DOMAIN Gathered : (Flying \o Gathered)[i] = Gathered[j]
      BY <3>1, ElementsOfBoth
    <3> QED BY <3>2, Zenon DEF Pending
  <2>4. ASSUME cache' # <<>> PROVE Known(Gathered) /\ cache' = cache
    <3>1. cache' = cache /\ cache # <<>> /\ ~Known(Flying)
      BY <1>3, <2>4
    <3>2. PICK i \in DOMAIN Pending : Pending[i].signature = cache[1].signature
      BY <2>2, <3>1
    <3> QED BY <2>3, <3>1, <3>2
  <2>5. cache' # <<>> => \E i \in DOMAIN Pending' : Pending'[i].signature = cache'[1].signature
    BY <1>5, <2>4
  <2> QED BY <2>1, <2>5
<1>9. WcTypeOK'
  <2>1. <<>> \in Seq(Cached) /\ Len(<<>>) <= 1
    BY EmptySeq
  <2> QED BY <1>1, <1>3, <2>1 DEF WcTypeOK, Cached
<1>10. QueueInv'
  BY <1>1, <1>3 DEF QueueInv
<1>11. ASSUME OnlyUpdates' PROVE CurrencyInv' /\ (Initial # NoValue => ChainInv')
  <2>1. CurrencyInv /\ (Initial # NoValue => ChainInv)
    BY <1>11 DEF WcInv
  <2>2. /\ Gathered # <<>> => Pending # <<>> /\ Pending[Len(Pending)] = Gathered[Len(Gathered)]
        /\ \A j \in DOMAIN Gathered : \E i \in DOMAIN Pending : Pending[i] = Gathered[j]
    BY <1>2, ElementsOfBoth DEF Pending
  <2>3. \A i \in DOMAIN Gathered : Gathered[i].signature < counter
    BY <2>1, <2>2 DEF CurrencyInv
  <2>4. ASSUME Gathered # <<>>
        PROVE  /\ cache' # <<>>
               /\ cache'[1].value = Gathered[Len(Gathered)].value
               /\ cache'[1].signature = Gathered[Len(Gathered)].signature
    <3>1. /\ cache # <<>>
          /\ cache[1].value = Gathered[Len(Gathered)].value
          /\ cache[1].signature = Gathered[Len(Gathered)].signature
      BY <2>1, <2>2, <2>4 DEF CurrencyInv
    <3>2. Len(Gathered) \in DOMAIN Gathered
      <4>1. Len(Gathered) \in Nat \ {0} /\ DOMAIN Gathered = 1..Len(Gathered)
        BY <1>2, <2>4, EmptySeq, LenProperties
      <4> QED BY <4>1
    <3>3. \A i \in DOMAIN Flying :
             Flying[i].signature < Gathered[Len(Gathered)].signature /\ Flying[i].signature \in Nat
      BY <1>2, <2>1, <3>2, OpFields DEF CurrencyInv
    <3>4. ~Known(Flying)
      BY <3>1, <3>3
    <3> QED BY <1>3, <3>1, <3>4
  <2>5. CurrencyInv'
    <3>1. DOMAIN <<>> = {}
      OBVIOUS
    <3>2. \A i \in DOMAIN Flying', j \in DOMAIN Gathered' : Flying'[i].signature < Gathered'[j].signature
      BY <1>4, <3>1
    <3> QED BY <1>1, <1>5, <2>3, <2>4, <3>2 DEF CurrencyInv
  <2>6. ASSUME Initial # NoValue PROVE ChainInv'
    <3>1. ChainInv
      BY <2>1, <2>6
    <3>2. AllUpdates(<<>>) /\ AllUpdates(Gathered) /\ AllUpdates(dbLog)
      BY <3>1 DEF ChainInv, AllUpdates
    <3>3. AllUpdates(dbLog)' /\ AllUpdates(Flying)' /\ AllUpdates(Gathered)'
      BY <1>1, <1>4, <3>2 DEF AllUpdates
    <3>4. IsChain(dbLog \o Outstanding, Initial)'
      BY <1>1, <1>2, <1>7, <3>1 DEF ChainInv, IsChain
    <3>5. Stored' = Stored
      BY <1>1 DEF Stored
    <3> QED BY <1>1, <1>4, <3>1, <3>3, <3>4, <3>5 DEF ChainInv
  <2> QED BY <2>5, <2>6
<1> QED BY <1>6, <1>8, <1>9, <1>10, <1>11 DEF WcInv

\* A commit that fails.
LEMMA CommitFailedStep ==
    ASSUME WcInv, WcCommitFailed, OnlyUpdates' => OnlyUpdates
    PROVE  WcInv'
<1>1. /\ WcTypeOK /\ ManagerInv /\ QueueInv /\ NoOrphanCacheEntry
      /\ inFlight # <<>> /\ ~applied
      /\ inFlight' = <<>> /\ batchCache' = <<>> /\ timer' = FALSE
      /\ applied' = applied /\ dbLog' = dbLog /\ submitted' = submitted
      /\ Answer({inFlight[1]} \cup {batchCache[i] : i \in DOMAIN batchCache}, "error")
      /\ UNCHANGED <<queue, counter, dbGets>>
  BY DEF WcInv, WcCommitFailed, CommitFailed, isCommitting
<1>2. /\ dbLog \in Seq(Op) /\ Outstanding \in Seq(Op)
      /\ Flying' = <<>> /\ Gathered' = <<>> /\ Pending' = <<>> /\ applied' = FALSE
  <2>1. dbLog \in Seq(Op) /\ Outstanding \in Seq(Op)
    BY <1>1, Batches
  <2>2. Flying' = <<>> /\ Gathered' = <<>>
    BY <1>1, FreeSlot DEF Flying, Gathered
  <2>3. <<>> \o <<>> = <<>>
    BY <2>1, EmptySeq, ConcatEmptySeq
  <2> QED BY <1>1, <2>1, <2>2, <2>3 DEF Pending, ManagerInv
<1>3. cache' = <<>>
  <2> DEFINE S == {inFlight[i] : i \in DOMAIN inFlight} \cup {batchCache[i] : i \in DOMAIN batchCache}
  <2>1. DOMAIN inFlight = {1}
    BY <1>1, SlotContent DEF ManagerInv
  <2>2. S = {inFlight[1]} \cup {batchCache[i] : i \in DOMAIN batchCache}
    BY <2>1
  <2>3. cache # <<>> => \E b \in S : \E i \in DOMAIN b : b[i].signature = cache[1].signature
    BY <1>1, Zenon DEF NoOrphanCacheEntry
  <2>4. CacheClear(S)
    BY <2>2, Zenon DEF WcCommitFailed
  <2> HIDE DEF S
  <2> QED BY <2>3, <2>4 DEF CacheClear
<1>4. ManagerInv'
  <2>1. replies' \in [Requests -> Seq(Replies)]
    BY <1>1, AnswersType DEF Replies
  <2> QED BY <1>1, <2>1, FreeSlot DEF ManagerInv
<1>5. NoOrphanCacheEntry'
  BY <1>3 DEF NoOrphanCacheEntry
<1>6. WcTypeOK'
  <2>1. <<>> \in Seq(Cached) /\ Len(<<>>) <= 1
    BY EmptySeq
  <2> QED BY <1>1, <1>3, <2>1 DEF WcTypeOK, Cached
<1>7. QueueInv'
  BY <1>1, <1>3 DEF QueueInv
<1>8. CurrencyInv'
  BY <1>2 DEF CurrencyInv
<1>9. ASSUME OnlyUpdates', Initial # NoValue PROVE ChainInv'
  <2>1. ChainInv
    BY <1>9 DEF WcInv
  <2>2. AllUpdates(<<>>) /\ AllUpdates(dbLog)
    BY <2>1 DEF ChainInv, AllUpdates
  <2>3. AllUpdates(dbLog)' /\ AllUpdates(Flying)' /\ AllUpdates(Gathered)'
    BY <1>1, <1>2, <2>2 DEF AllUpdates
  <2>4. IsChain(dbLog, Initial)
    BY <1>2, <2>1, ChainBegins DEF ChainInv
  <2>5. Outstanding' = <<>>
    <3>1. (~applied => Outstanding = Pending)'
      BY <1>4, Batches, PTL
    <3> QED BY <1>2, <3>1
  <2>6. dbLog \o <<>> = dbLog
    BY <1>2, ConcatEmptySeq
  <2>7. IsChain(dbLog \o Outstanding, Initial)'
    BY <1>1, <2>4, <2>5, <2>6 DEF IsChain
  <2>8. Stored' = Stored
    BY <1>1 DEF Stored
  <2> QED BY <1>1, <1>2, <2>1, <2>3, <2>7, <2>8 DEF ChainInv
<1> QED BY <1>4, <1>5, <1>6, <1>7, <1>8, <1>9 DEF WcInv

\* The timers, and the database that applies a batch.
LEMMA BackgroundStep ==
    ASSUME WcInv, WgBackground, OnlyUpdates' => OnlyUpdates
    PROVE  WcInv'
<1>1. /\ WcTypeOK /\ ManagerInv /\ QueueInv /\ NoOrphanCacheEntry
      /\ UNCHANGED <<cache, queue, counter, dbGets, submitted, replies>>
  BY DEF WcInv, WgBackground, CommitOnTimeout, DeferOnTimeout, DbApply
<1>2. /\ Flying \in Seq(Op) /\ Gathered \in Seq(Op) /\ Pending \in Seq(Op)
      /\ dbLog \in Seq(Op) /\ Outstanding \in Seq(Op)
      /\ inFlight = <<>> <=> Flying = <<>>
      /\ inFlight # <<>> => inFlight[1] = Flying
      /\ applied => inFlight # <<>> /\ Outstanding = Gathered
      /\ ~applied => Outstanding = Pending
  BY <1>1, Batches
<1>3. /\ IsSlot(inFlight) /\ IsSlot(batchCache) /\ dbLog \in Seq(Op)
      /\ applied \in BOOLEAN /\ timer \in BOOLEAN
      /\ submitted \in Seq(Requests) /\ replies \in [Requests -> Seq(Replies)]
  BY <1>1 DEF ManagerInv
<1>4. WcTypeOK' /\ QueueInv'
  BY <1>1 DEF WcTypeOK, QueueInv
<1>5. /\ ManagerInv'
      /\ Pending' = Pending
      /\ \/ Flying' = Flying /\ Gathered' = Gathered
         \/ Flying' = Gathered /\ Gathered' = <<>>
      /\ \/ dbLog' = dbLog /\ Outstanding' = Outstanding /\ (applied' => applied /\ Flying' = Flying)
         \/ /\ ~applied /\ applied' /\ Flying' = Flying /\ Gathered' = Gathered /\ Flying # <<>>
            /\ dbLog' = dbLog \o Flying /\ Outstanding' = Gathered
  <2>1. CASE CommitOnTimeout
    <3>1. /\ inFlight = <<>> /\ inFlight' = batchCache /\ batchCache' = <<>>
          /\ timer' = FALSE /\ applied' = FALSE /\ dbLog' = dbLog
      BY <2>1 DEF CommitOnTimeout, StartCommit, isCommitting
    <3>2. Flying' = Gathered /\ Gathered' = <<>>
      BY <3>1, FreeSlot DEF Flying, Gathered
    <3>3. ManagerInv'
      BY <1>1, <1>3, <3>1, FreeSlot DEF ManagerInv
    <3>4. Pending' = Pending
      <4>1. <<>> \o Gathered = Gathered /\ Gathered \o <<>> = Gathered
        BY <1>2, ConcatEmptySeq
      <4> QED BY <1>2, <3>1, <3>2, <4>1 DEF Pending
    <3>5. Outstanding' = Outstanding
      <4>1. (~applied => Outstanding = Pending)'
        BY <3>3, Batches, PTL
      <4> QED BY <1>2, <3>1, <3>4, <4>1
    <3> QED BY <3>1, <3>2, <3>3, <3>4, <3>5
  <2>2. CASE DeferOnTimeout
    <3>1. timer' = FALSE /\ UNCHANGED <<batchCache, inFlight, applied, dbLog>>
      BY <2>2 DEF DeferOnTimeout
    <3>2. Flying' = Flying /\ Gathered' = Gathered /\ Pending' = Pending /\ Outstanding' = Outstanding
      BY <3>1 DEF Flying, Gathered, Pending, Outstanding
    <3>3. ManagerInv'
      BY <1>1, <3>1 DEF ManagerInv
    <3> QED BY <3>1, <3>2, <3>3
  <2>3. CASE DbApply
    <3>1. /\ inFlight # <<>> /\ ~applied /\ applied' = TRUE
          /\ dbLog' = dbLog \o Flying
          /\ UNCHANGED <<batchCache, timer, inFlight>>
      BY <1>2, <2>3 DEF DbApply, isCommitting
    <3>2. Flying' = Flying /\ Gathered' = Gathered /\ Pending' = Pending
      BY <3>1 DEF Flying, Gathered, Pending
    <3>3. ManagerInv'
      <4>1. dbLog \o Flying \in Seq(Op)
        BY <1>2, ConcatProperties
      <4> QED BY <1>1, <3>1, <4>1 DEF ManagerInv
    <3>4. Outstanding' = Gathered
      <4>1. (applied => Outstanding = Gathered)'
        BY <3>3, Batches, PTL
      <4> QED BY <3>1, <3>2, <4>1
    <3> QED BY <1>2, <3>1, <3>2, <3>3, <3>4
  <2> QED BY <2>1, <2>2, <2>3 DEF WgBackground
<1>6. NoOrphanCacheEntry'
  <2>1. (NoOrphanCacheEntry <=>
           (cache # <<>> => \E i \in DOMAIN Pending : Pending[i].signature = cache[1].signature))'
    BY <1>5, OrphansArePending, PTL
  <2>2. cache # <<>> => \E i \in DOMAIN Pending : Pending[i].signature = cache[1].signature
    BY <1>1, OrphansArePending
  <2> QED BY <1>1, <1>5, <2>1, <2>2
<1>7. ASSUME OnlyUpdates' PROVE CurrencyInv' /\ (Initial # NoValue => ChainInv')
  <2>1. CurrencyInv /\ (Initial # NoValue => ChainInv)
    BY <1>7 DEF WcInv
  <2>2. CurrencyInv'
    <3>1. DOMAIN <<>> = {}
      OBVIOUS
    <3>2. \A i \in DOMAIN Flying', j \in DOMAIN Gathered' : Flying'[i].signature < Gathered'[j].signature
      BY <1>5, <2>1, <3>1 DEF CurrencyInv
    <3> QED BY <1>1, <1>5, <2>1, <3>2 DEF CurrencyInv
  <2>3. ASSUME Initial # NoValue PROVE ChainInv'
    <3>1. /\ AllUpdates(dbLog) /\ AllUpdates(Flying) /\ AllUpdates(Gathered)
          /\ IsChain(dbLog \o Outstanding, Initial)
          /\ applied => LastValue(dbLog, Initial) = LastValue(Flying, Initial)
          /\ \A g \in dbGets :
               g.read /\ queue # <<>> /\ g.signature = queue[1].signature => g.value = Stored
      BY <2>1, <2>3 DEF ChainInv
    <3>2. AllUpdates(Flying)' /\ AllUpdates(Gathered)'
      <4>1. AllUpdates(<<>>)
        BY DEF AllUpdates
      <4> QED BY <1>5, <3>1, <4>1 DEF AllUpdates
    <3>3. CASE dbLog' = dbLog /\ Outstanding' = Outstanding /\ (applied' => applied /\ Flying' = Flying)
      <4>1. AllUpdates(dbLog)' /\ IsChain(dbLog \o Outstanding, Initial)'
        BY <3>1, <3>3 DEF AllUpdates, IsChain
      <4>2. (applied => LastValue(dbLog, Initial) = LastValue(Flying, Initial))'
        BY <3>1, <3>3 DEF LastValue
      <4>3. Stored' = Stored
        BY <3>3 DEF Stored
      <4> QED BY <1>1, <3>1, <3>2, <4>1, <4>2, <4>3 DEF ChainInv
    <3>4. CASE /\ ~applied /\ applied' /\ Flying' = Flying /\ Gathered' = Gathered /\ Flying # <<>>
               /\ dbLog' = dbLog \o Flying /\ Outstanding' = Gathered
      <4>1. AllUpdates(dbLog)'
        <5>1. AllUpdates(dbLog \o Flying)
          BY <1>2, <3>1, UpdatesOfBoth
        <5> QED BY <3>4, <5>1 DEF AllUpdates
      <4>2. (dbLog \o Flying) \o Gathered = dbLog \o Outstanding
        <5>1. Outstanding = Flying \o Gathered
          BY <1>2, <3>4 DEF Pending
        <5>2. (dbLog \o Flying) \o Gathered = dbLog \o (Flying \o Gathered)
          <6>1. Flying \in Seq(Op) /\ Gathered \in Seq(Op) /\ dbLog \in Seq(Op)
            BY <1>2
          <6> QED BY <6>1, ConcatAssociative
        <5> QED BY <5>1, <5>2
      <4>3. IsChain(dbLog \o Outstanding, Initial)'
        BY <3>1, <3>4, <4>2 DEF IsChain
      <4>4. LastValue(dbLog \o Flying, Initial) = LastValue(Flying, Initial)
        <5>1. LastValue(dbLog \o Flying, Initial) = LastValue(Flying, LastValue(dbLog, Initial))
          BY <1>2, LastOfBoth
        <5> QED BY <3>4, <5>1 DEF LastValue
      <4>5. (applied => LastValue(dbLog, Initial) = LastValue(Flying, Initial))'
        BY <3>4, <4>4 DEF LastValue
      <4>6. queue = <<>>
        <5>1. cache # <<>>
          <6>1. Pending # <<>>
            BY <1>2, <3>4, ConcatEqualIffEmpty DEF Pending
          <6> QED BY <2>1, <6>1 DEF CurrencyInv
        <5> QED BY <1>1, <5>1 DEF QueueInv
      <4> QED BY <1>1, <3>2, <4>1, <4>3, <4>5, <4>6 DEF ChainInv
    <3> QED BY <1>5, <3>3, <3>4
  <2> QED BY <2>2, <2>3
<1> QED BY <1>4, <1>5, <1>6, <1>7 DEF WcInv
-----------------------------------------------------------------------------
(* The invariant.                                                          *)

\* A request that was submitted or answered stays so.
LEMMA CalledStays ==
    ASSUME ManagerInv, WcTypeOK, WcNext, NEW r \in Requests
    PROVE  /\ IsSubmitted(r) => IsSubmitted(r)'
           /\ replies[r] # <<>> => replies'[r] # <<>>
<1> DEFINE Stays == /\ IsSubmitted(r) => IsSubmitted(r)'
                    /\ replies[r] # <<>> => replies'[r] # <<>>
<1>1. submitted \in Seq(Requests) /\ replies \in [Requests -> Seq(Replies)]
  BY DEF ManagerInv
<1>2. ASSUME NEW t, Finish(t) PROVE Stays
  <2> DEFINE reqs == [i \in DOMAIN t.out |-> t.out[i].req]
  <2>1. submitted' = submitted \o reqs
    BY <1>2 DEF Finish
  <2>2. replies' = [q \in Requests |->
                      IF q \in t.done THEN Append(replies[q], "ok") ELSE replies[q]]
    BY <1>2 DEF Finish
  <2>3. Append(replies[r], "ok") # <<>>
    BY <1>1, AppendProperties DEF Replies
  <2>4. replies[r] # <<>> => replies'[r] # <<>>
    BY <2>2, <2>3
  <2> HIDE DEF reqs
  <2>5. DOMAIN submitted = 1..Len(submitted) /\ Len(submitted) \in Nat
    BY <1>1, LenProperties
  <2>6. \A i \in DOMAIN submitted : i \in DOMAIN submitted' /\ submitted'[i] = submitted[i]
    BY <2>1, <2>5
  <2> QED BY <2>4, <2>6 DEF IsSubmitted
<1>3. ASSUME submitted' = submitted, replies' = replies PROVE Stays
  BY <1>3 DEF IsSubmitted
<1>4. ASSUME submitted' = submitted, NEW S, NEW reply \in Replies, Answer(S, reply) PROVE Stays
  BY <1>4, AnswersType DEF IsSubmitted
<1> HIDE DEF Stays
<1>5. ASSUME NEW q \in Requests, GetCached(q) PROVE Stays
  BY <1>2, <1>5 DEF GetCached
<1>6. ASSUME NEW q \in Requests, GetQueued(q) PROVE Stays
  BY <1>3, <1>6 DEF GetQueued, wgVars
<1>7. ASSUME NEW q \in Requests, GetFromDb(q) PROVE Stays
  BY <1>3, <1>7 DEF GetFromDb, wgVars
<1>8. ASSUME NEW q \in Requests, BlindBatch(q) PROVE Stays
  <2>1. \E t : Finish(t)
    BY <1>8, Zenon DEF BlindBatch
  <2> QED BY <1>2, <2>1
<1>9. ASSUME NEW g, DbRead(g) PROVE Stays
  BY <1>3, <1>9 DEF DbRead, wgVars
<1>10. ASSUME NEW g, NEW failed, DbGetDone(g, failed) PROVE Stays
  <2>1. (\E t : Finish(t)) \/ UNCHANGED <<wgVars, cache, queue, counter>>
    BY <1>10, Zenon DEF DbGetDone
  <2> QED BY <1>2, <1>3, <2>1 DEF wgVars
<1>11. ASSUME WcCommitDone PROVE Stays
  <2>1. submitted' = submitted /\ Answer({inFlight[1]}, "ok") /\ "ok" \in Replies
    BY <1>11 DEF WcCommitDone, CommitDone, Replies
  <2> QED BY <1>4, <2>1
<1>12. ASSUME WcCommitFailed PROVE Stays
  <2> DEFINE S == {inFlight[1]} \cup {batchCache[i] : i \in DOMAIN batchCache}
  <2>1. submitted' = submitted /\ Answer(S, "error") /\ "error" \in Replies
    BY <1>12 DEF WcCommitFailed, CommitFailed, Replies
  <2> HIDE DEF S
  <2> QED BY <1>4, <2>1
<1>13. ASSUME WgBackground PROVE Stays
  <2>1. submitted' = submitted /\ replies' = replies
    BY <1>13 DEF WgBackground, CommitOnTimeout, DeferOnTimeout, DbApply
  <2> QED BY <1>3, <2>1
<1>14. Stays
  BY <1>5, <1>6, <1>7, <1>8, <1>9, <1>10, <1>11, <1>12, <1>13 DEF WcNext
<1> QED BY <1>14 DEF Stays

\* While only updates have been called, only updates had been: what leaves the queue of reads
\* is a read.
LEMMA OnlyUpdatesBefore ==
    ASSUME WcInv, WcNext, OnlyUpdates'
    PROVE  OnlyUpdates
<1> SUFFICES ASSUME NEW r \in Requests, IsCalled(r) PROVE IsRead(r)
  BY DEF OnlyUpdates
<1>1. ManagerInv /\ WcTypeOK /\ QueueInv
  BY DEF WcInv
<1>2. CASE IsSubmitted(r) \/ replies[r] # <<>>
  <2>1. IsSubmitted(r)' \/ replies'[r] # <<>>
    BY <1>1, <1>2, CalledStays
  <2>2. IsCalled(r)'
    BY <2>1 DEF IsCalled, IsSubmitted
  <2> QED BY <2>2 DEF OnlyUpdates, IsRead
<1>3. CASE queue # <<>> /\ \E i \in DOMAIN queue[1].callbacks : queue[1].callbacks[i] = r
  BY <1>1, <1>3 DEF QueueInv
<1> QED BY <1>2, <1>3 DEF IsCalled, IsSubmitted

\* The empty cache, the empty queue and no batch.
LEMMA WcInitially == WcInit => WcInv
<1> SUFFICES ASSUME WcInit PROVE WcInv
  OBVIOUS
<1>1. /\ cache = <<>> /\ queue = <<>> /\ counter = 0 /\ dbGets = {}
      /\ batchCache = <<>> /\ inFlight = <<>> /\ timer = FALSE /\ applied = FALSE
      /\ dbLog = <<>> /\ submitted = <<>>
      /\ replies = [r \in Requests |-> <<>>]
  BY DEF WcInit, WgInit
<1>2. \A S : <<>> \in Seq(S) /\ Len(<<>>) = 0
  BY EmptySeq
<1>3. DOMAIN <<>> = {}
  OBVIOUS
<1>4. WcTypeOK
  BY <1>1, <1>2 DEF WcTypeOK
<1>5. ManagerInv
  BY <1>1, <1>2, FreeSlot DEF ManagerInv
<1>6. QueueInv /\ NoOrphanCacheEntry
  BY <1>1 DEF QueueInv, NoOrphanCacheEntry
<1>7. Flying = <<>> /\ Gathered = <<>>
  BY <1>1, FreeSlot DEF Flying, Gathered
<1>8. Pending = <<>> /\ Outstanding = <<>> /\ dbLog \o Outstanding = <<>>
  <2>1. <<>> \o <<>> = <<>>
    BY <1>2, ConcatEmptySeq
  <2>2. ~applied => Outstanding = Pending
    BY <1>5, Batches
  <2> QED BY <1>1, <1>7, <2>1, <2>2 DEF Pending
<1>9. CurrencyInv
  BY <1>3, <1>7, <1>8 DEF CurrencyInv
<1>10. ChainInv
  BY <1>1, <1>3, <1>7, <1>8, EmptyChain DEF ChainInv, AllUpdates
<1> QED BY <1>4, <1>5, <1>6, <1>9, <1>10 DEF WcInv

\* Every step keeps it.
LEMMA WcInductive ==
    ASSUME WcInv, [WcNext]_wcVars
    PROVE  WcInv'
<1>1. CASE UNCHANGED wcVars
  <2>1. /\ UNCHANGED <<batchCache, timer, inFlight, applied, dbLog, submitted, replies>>
        /\ UNCHANGED <<cache, queue, counter, dbGets>>
    BY <1>1 DEF wcVars, wgVars
  <2>2. WcTypeOK => WcTypeOK'
    BY <2>1 DEF WcTypeOK
  <2>3. ManagerInv => ManagerInv'
    BY <2>1, Zenon DEF ManagerInv, IsSlot
  <2>4. QueueInv => QueueInv'
    BY <2>1, Zenon DEF QueueInv
  <2>5. NoOrphanCacheEntry => NoOrphanCacheEntry'
    BY <2>1 DEF NoOrphanCacheEntry
  <2>6. /\ Flying' = Flying /\ Gathered' = Gathered /\ Pending' = Pending
        /\ Outstanding' = Outstanding /\ Stored' = Stored
    BY <2>1, Zenon DEF Flying, Gathered, Pending, Outstanding, Stored, Content
  <2>7. OnlyUpdates' => OnlyUpdates
    BY <2>1, Zenon DEF OnlyUpdates, IsCalled, IsRead
  <2>8. CurrencyInv => CurrencyInv'
    BY <2>1, <2>6, Zenon DEF CurrencyInv
  <2>9. ChainInv => ChainInv'
    BY <2>1, <2>6, Zenon DEF ChainInv, AllUpdates, IsChain, LastValue
  <2> QED BY <2>2, <2>3, <2>4, <2>5, <2>7, <2>8, <2>9 DEF WcInv
<1>2. CASE WcNext
  <2>1. OnlyUpdates' => OnlyUpdates
    BY <1>2, OnlyUpdatesBefore
  <2>2. ASSUME NEW r \in Requests, GetCached(r) PROVE WcInv'
    BY <2>1, <2>2, GetCachedStep
  <2>3. ASSUME NEW r \in Requests, GetQueued(r) PROVE WcInv'
    BY <2>1, <2>3, GetQueuedStep
  <2>4. ASSUME NEW r \in Requests, GetFromDb(r) PROVE WcInv'
    BY <2>1, <2>4, GetFromDbStep
  <2>5. ASSUME NEW r \in Requests, BlindBatch(r) PROVE WcInv'
    BY <2>5, BlindBatchStep
  <2>6. ASSUME NEW g \in dbGets, DbRead(g) PROVE WcInv'
    BY <2>1, <2>6, DbReadStep
  <2>7. ASSUME NEW g \in dbGets, NEW failed \in BOOLEAN, DbGetDone(g, failed) PROVE WcInv'
    BY <2>1, <2>7, DbGetDoneStep
  <2>8. ASSUME WcCommitDone PROVE WcInv'
    BY <2>1, <2>8, CommitDoneStep
  <2>9. ASSUME WcCommitFailed PROVE WcInv'
    BY <2>1, <2>9, CommitFailedStep
  <2>10. ASSUME WgBackground PROVE WcInv'
    BY <2>1, <2>10, BackgroundStep
  <2> QED BY <1>2, <2>2, <2>3, <2>4, <2>5, <2>6, <2>7, <2>8, <2>9, <2>10 DEF WcNext
<1> QED BY <1>1, <1>2

\* The inductive invariant of the write cache (lib/versioning/WriteCache.ts) holds for every
\* set of requests, of every kind, and every interleaving with the manager and the database.
THEOREM WcInvariant == WcSafety => []WcInv
  BY WcInitially, WcInductive, PTL DEF WcSafety

\* The cache has the last value on its way to the database if only updates write the key, and
\* it never keeps a value whose write has ended, whoever writes (_cacheWrite, _cacheClear).
THEOREM CacheStaysCurrent == WcSafety => []CacheIsCurrent
<1>1. WcInv => CacheIsCurrent
  <2> SUFFICES ASSUME WcInv PROVE CacheHoldsLatestWrite
    BY DEF CacheIsCurrent, WcInv
  <2> SUFFICES ASSUME OnlyUpdates, Outstanding # <<>>
               PROVE  cache # <<>> /\ cache[1].value = Outstanding[Len(Outstanding)].value
    BY DEF CacheHoldsLatestWrite
  <2>1. ManagerInv /\ CurrencyInv
    BY DEF WcInv
  <2>2. /\ Flying \in Seq(Op) /\ Gathered \in Seq(Op)
        /\ applied => Outstanding = Gathered
        /\ ~applied => Outstanding = Pending
    BY <2>1, Batches
  <2>3. Gathered # <<>> => Pending # <<>> /\ Pending[Len(Pending)] = Gathered[Len(Gathered)]
    <3>1. Flying \in Seq(Op) /\ Gathered \in Seq(Op)
      BY <2>2
    <3> QED BY <3>1, ElementsOfBoth DEF Pending
  <2>4. Pending # <<>> /\ Pending[Len(Pending)] = Outstanding[Len(Outstanding)]
    BY <2>2, <2>3
  <2> QED BY <2>1, <2>4 DEF CurrencyInv
<1> QED BY <1>1, WcInvariant, PTL

\* Versioning updates of a key are isolated from each other: each is computed from the very
\* value it replaces. The key exists to begin with: when it does not, every queued update is
\* told so, also the second (_dequeue passes the same error to each).
THEOREM UpdatesStayIsolated ==
    ASSUME Initial # NoValue
    PROVE  WcSafety => []UpdatesAreIsolated
<1>1. WcInv => UpdatesAreIsolated
  <2> SUFFICES ASSUME WcInv, OnlyUpdates PROVE WritesAreIsolated
    BY DEF UpdatesAreIsolated
  <2>1. IsChain(dbLog \o Outstanding, Initial)
    BY DEF WcInv, ChainInv
  <2> QED BY <2>1, Zenon DEF IsChain, WritesAreIsolated
<1> QED BY <1>1, WcInvariant, PTL

=============================================================================
