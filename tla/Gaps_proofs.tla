------------------------------ MODULE Gaps_proofs ------------------------------
(***************************************************************************)
(* Proofs about the gap cache, for any keys, any numbers of listings and   *)
(* of lookups, any limits and any delays: an exposed gap never covers a    *)
(* live key whose writer has invalidated it, and a lookup never returns    *)
(* one that has been live since it began. And about a gap set under any    *)
(* calls, for any keys, weights and threshold: it covers what it was given *)
(* and removes what it must. And about the LRU cache, for any keys, any    *)
(* values and any number of entries: the links of the entries are a list   *)
(* of the keys in the order of their last use, which the cache keeps as    *)
(* RecentlyUsed promises.                                                  *)
(*                                                                         *)
(* What is said of the cache holds as long as exposureDelayMs is not set   *)
(* while a listing builds gaps: the setter drops the updated keys that     *)
(* such a listing relies on. The coverage of a set is exact as long as no  *)
(* gap is of a single key: callers that give such gaps, only to delimit    *)
(* them, can lose a stretch (a gap that begins at one, and is too heavy to *)
(* be merged with it, is not inserted).                                    *)
(***************************************************************************)
EXTENDS GapCache, GapSet, LruCache, SequencesExt, SequenceTheorems, WellFoundedInduction, TLAPS

-----------------------------------------------------------------------------
(* What the algorithms of a gap set compute, for gaps of any keys 1..n.    *)
(* The gaps of a set follow each other: two of them have at most one key   *)
(* in common, where one ends and the other begins, and no two have the     *)
(* same first key. Every fact of this part is about a set of gaps that do; *)
(* the state does not appear.                                              *)


\* A gap of keys 1..n. Nothing depends on what a weight is.
IsGap(g, n) ==
    /\ g = GapEntry(g.firstKey, g.lastKey, g.weight)
    /\ g.firstKey \in 1..n /\ g.lastKey \in 1..n
    /\ g.firstKey <= g.lastKey

Chained(S) == \A g, h \in S : g # h => g.lastKey <= h.firstKey \/ h.lastKey <= g.firstKey
Distinct(S) == \A g, h \in S : g.firstKey = h.firstKey => g = h

\* The sets of gaps that _gaps holds.
IsGapSetOf(S, n) == (\A g \in S : IsGap(g, n)) /\ Chained(S) /\ Distinct(S)

Holds(g, k) == g.firstKey <= k /\ k <= g.lastKey

\* The entry of two keys in order is a gap.
LEMMA EntryIsGap ==
    ASSUME NEW n \in Nat, NEW firstKey \in 1..n, NEW lastKey \in 1..n, NEW weight,
           firstKey <= lastKey
    PROVE  /\ GapEntry(firstKey, lastKey, weight).firstKey = firstKey
           /\ GapEntry(firstKey, lastKey, weight).lastKey = lastKey
           /\ IsGap(GapEntry(firstKey, lastKey, weight), n)
<1> DEFINE g == GapEntry(firstKey, lastKey, weight)
<1>1. g.firstKey = firstKey /\ g.lastKey = lastKey /\ g.weight = weight
  BY DEF GapEntry
<1>2. g = GapEntry(g.firstKey, g.lastKey, g.weight)
  BY <1>1
<1> HIDE DEF g
<1>3. IsGap(g, n)
  BY <1>1, <1>2 DEF IsGap
<1>4. QED
  BY <1>1, <1>3 DEF g

----------------------------------------------------------------------------
(* The ends of a set of gaps.                                              *)

\* A set of natural numbers that is not empty has a least element: what stands for
\* induction here.
LEMMA LeastNumber ==
    ASSUME NEW T \in SUBSET Nat, T # {}
    PROVE  \E m \in T : \A n \in T : m <= n
<1>1. IsWellFoundedOn(OpToRel(<,Nat), Nat)
  BY NatLessThanWellFounded
<1>2. \E m \in T : \A n \in T : ~ (<<n, m>> \in OpToRel(<,Nat))
  BY <1>1, WFMin
<1>3. PICK m \in T : \A n \in T : ~ (<<n, m>> \in OpToRel(<,Nat))
  BY <1>2
<1>4. ASSUME NEW n \in T
      PROVE  m <= n
  <2>1. ~ (<<n, m>> \in OpToRel(<,Nat))
    BY <1>3
  <2>2. ~ (n < m)
    BY <2>1 DEF OpToRel
  <2>3. QED
    BY <2>2
<1>5. QED
  BY <1>4

\* The keys of a set have a first and a last one.
LEMMA FirstOfKeys ==
    ASSUME NEW n \in Nat, NEW K \in SUBSET (1..n), K # {}
    PROVE  /\ Min(K) \in K
           /\ \A k \in K : Min(K) <= k
<1>1. \E m \in K : \A k \in K : m <= k
  BY LeastNumber
<1>2. QED
  BY <1>1 DEF Min

\* The last of some keys is one of them, and none is behind it.
LEMMA LastOfKeys ==
    ASSUME NEW n \in Nat, NEW K \in SUBSET (1..n), K # {}
    PROVE  /\ Max(K) \in K
           /\ \A k \in K : k <= Max(K)
<1> DEFINE T == {n - k : k \in K}
<1>1. \A k \in K : n - k \in Nat
  OBVIOUS
<1>2. T \in SUBSET Nat /\ T # {}
  BY <1>1
<1>5. PICK m \in T : \A t \in T : m <= t
  BY <1>2, LeastNumber
<1>3. PICK x \in K : m = n - x
  BY <1>2
<1>4. ASSUME NEW k \in K
      PROVE  x >= k
  <2>1. n - k \in T
    OBVIOUS
  <2>2. n - x <= n - k
    BY <2>1, <1>5, <1>3
  <2>3. n \in Int /\ x \in Int /\ k \in Int
    OBVIOUS
  <2> HIDE DEF T
  <2>4. QED
    BY <2>2, <2>3
<1>6. \E y \in K : \A k \in K : y >= k
  BY <1>4
<1>7. Max(K) \in K /\ \A k \in K : Max(K) >= k
  BY <1>6 DEF Max
<1>8. QED
  BY <1>7

\* Some gap begins last, or first, in a set that has gaps.
LEMMA LastGapExists ==
    ASSUME NEW n \in Nat, NEW S, \A g \in S : IsGap(g, n), S # {}
    PROVE  LastGap(S) # {}
<1> DEFINE K == {g.firstKey : g \in S}
<1>1. K \in SUBSET (1..n) /\ K # {}
  BY DEF IsGap
<1>2. Max(K) \in K /\ \A k \in K : k <= Max(K)
  BY <1>1, LastOfKeys
<1>3. PICK g \in S : g.firstKey = Max(K)
  BY <1>2
<1>4. \A h \in S : h.firstKey <= g.firstKey
  BY <1>2, <1>3
<1>5. QED
  BY <1>4 DEF LastGap

\* Among any gaps there is one that comes first.
LEMMA FirstGapExists ==
    ASSUME NEW n \in Nat, NEW S, \A g \in S : IsGap(g, n), S # {}
    PROVE  FirstGap(S) # {}
<1> DEFINE K == {g.firstKey : g \in S}
<1>1. K \in SUBSET (1..n) /\ K # {}
  BY DEF IsGap
<1>2. Min(K) \in K /\ \A k \in K : Min(K) <= k
  BY <1>1, FirstOfKeys
<1>3. PICK g \in S : g.firstKey = Min(K)
  BY <1>2
<1>4. \A h \in S : g.firstKey <= h.firstKey
  BY <1>2, <1>3
<1>5. QED
  BY <1>4 DEF FirstGap

\* The() takes a gap out of a set that has one.
LEMMA TheIsIn == ASSUME NEW T, T # {} PROVE The(T) \in T
BY DEF The

----------------------------------------------------------------------------
(* setGap(), step by step.                                                 *)

\* What the first step finds: a gap to work on, and the other gaps, none of which it
\* overlaps. It ends at firstKey or behind it, and begins before lastKey; when it begins
\* behind firstKey, another gap holds the keys between them. (It may be left out of the
\* set, when a gap of the single key firstKey is there already.)
Started(S, firstKey, lastKey, n, cur, others, inSet) ==
    /\ IsGap(cur, n)
    /\ others \subseteq S /\ S \subseteq others \cup {cur}
    /\ cur.firstKey < cur.lastKey => cur \in S
    /\ firstKey <= cur.lastKey
    /\ cur.firstKey <= lastKey /\ (firstKey < lastKey => cur.firstKey < lastKey)
    /\ \A h \in others : \/ h.lastKey <= cur.firstKey
                         \/ cur.lastKey <= h.firstKey /\ cur.firstKey < h.firstKey
    /\ inSet => \A h \in others : h.firstKey # cur.firstKey
    /\ ~inSet => \E h \in S : h.firstKey = h.lastKey
    /\ firstKey < cur.firstKey =>
          \E p \in others : p.firstKey <= firstKey /\ p.lastKey = cur.firstKey

\* The gap that LastFrom() finds.
LEMMA LastFromFacts ==
    ASSUME NEW n \in Nat, NEW S, IsGapSetOf(S, n), NEW key \in 1..n
    PROVE  /\ \A p \in LastFrom(S, key) :
                /\ p \in S /\ p.firstKey <= key
                /\ LastFrom(S, key) = {p}
                /\ \A h \in S : h.firstKey <= key => h.firstKey <= p.firstKey
           /\ LastFrom(S, key) = {} => \A h \in S : h.firstKey > key
<1> DEFINE B == {g \in S : g.firstKey <= key}
<1>1. ASSUME NEW p \in LastFrom(S, key)
      PROVE  /\ p \in S /\ p.firstKey <= key
             /\ LastFrom(S, key) = {p}
             /\ \A h \in S : h.firstKey <= key => h.firstKey <= p.firstKey
  <2>1. p \in S /\ p.firstKey <= key /\ \A h \in S : h.firstKey <= key => h.firstKey <= p.firstKey
    BY <1>1 DEF LastFrom, LastGap
  <2>2. ASSUME NEW q \in LastFrom(S, key)
        PROVE  q = p
    <3>1. q \in S /\ q.firstKey <= key /\ \A h \in S : h.firstKey <= key => h.firstKey <= q.firstKey
      BY <2>2 DEF LastFrom, LastGap
    <3>2. q.firstKey = p.firstKey
      BY <2>1, <3>1 DEF IsGapSetOf, IsGap
    <3>3. QED
      BY <3>2, <2>1, <3>1 DEF IsGapSetOf, Distinct
  <2>3. QED
    BY <2>1, <2>2, <1>1
<1>2. ASSUME LastFrom(S, key) = {}, NEW h \in S, h.firstKey <= key
      PROVE  FALSE
  <2>1. B # {} /\ \A g \in B : IsGap(g, n)
    BY <1>2 DEF IsGapSetOf
  <2>2. LastGap(B) # {}
    BY <2>1, LastGapExists
  <2>3. QED
    BY <2>2, <1>2 DEF LastFrom
<1>3. \A h \in S : h.firstKey \in Int
  BY DEF IsGapSetOf, IsGap
<1>4. QED
  BY <1>1, <1>2, <1>3

\* Step 1 starts, unless a gap of the set holds the new one already.
LEMMA Step1Starts ==
    ASSUME NEW n \in Nat, NEW S, IsGapSetOf(S, n), NEW weight, NEW maxWeight,
           NEW firstKey \in 1..n, NEW lastKey \in 1..n, firstKey <= lastKey,
           \A g \in LastFrom(S, firstKey) : g.lastKey < lastKey
    PROVE  LET start == Step1(S, firstKey, weight, maxWeight)
           IN  /\ Started(S, firstKey, lastKey, n, start.cur, start.others, start.inSet)
               /\ start.inSet \in BOOLEAN
<1> DEFINE prev    == LastFrom(S, firstKey)
           chained == {g \in S : g.firstKey = The(prev).lastKey}
           start   == Step1(S, firstKey, weight, maxWeight)
<1> SUFFICES /\ Started(S, firstKey, lastKey, n, start.cur, start.others, start.inSet)
             /\ start.inSet \in BOOLEAN
  OBVIOUS
<1> USE DEF IsGap
<1>1. \A g \in S : IsGap(g, n)
  BY DEF IsGapSetOf
<1>2. CASE StartsNewGap(prev, firstKey, weight, maxWeight)
  <2>1. start = [cur |-> GapEntry(firstKey, firstKey, 0), others |-> S, weight |-> weight,
                 inSet |-> {g \in S : g.firstKey = firstKey} = {}]
    BY <1>2 DEF Step1
  <2>2. ASSUME NEW h \in S
        PROVE  h.lastKey <= firstKey \/ firstKey <= h.firstKey
    <3>1. CASE h.firstKey <= firstKey
      <4>1. PICK p \in prev : TRUE
        BY <3>1, <1>1, LastFromFacts
      <4>2. p \in S /\ p.firstKey <= firstKey /\ h.firstKey <= p.firstKey
        BY <3>1, <4>1, LastFromFacts
      <4>3. p.lastKey <= firstKey
        BY <1>2, <4>1, <4>2, <1>1 DEF StartsNewGap
      <4>4. QED
        BY <4>2, <4>3, <1>1 DEF IsGapSetOf, Chained, Distinct
    <3>2. QED
      BY <3>1, <1>1
  <2>3. ASSUME NEW h \in S, h.firstKey = firstKey
        PROVE  h.lastKey = firstKey
    <3>1. PICK p \in prev : TRUE
      BY <2>3, <1>1, LastFromFacts
    <3>2. p \in S /\ p.firstKey <= firstKey /\ h.firstKey <= p.firstKey
      BY <2>3, <3>1, LastFromFacts
    <3>3. p = h
      BY <3>2, <2>3, <1>1 DEF IsGapSetOf, Distinct
    <3>4. QED
      BY <3>3, <3>1, <1>2, <1>1, <2>3 DEF StartsNewGap
  <2>4. /\ start.cur = GapEntry(firstKey, firstKey, 0) /\ start.others = S
        /\ start.inSet = ({g \in S : g.firstKey = firstKey} = {})
    BY <2>1
  <2> HIDE DEF start
  <2>7. /\ start.cur.firstKey = firstKey /\ start.cur.lastKey = firstKey
        /\ IsGap(start.cur, n)
    <3> HIDE DEF IsGap
    <3> DEFINE entry == GapEntry(firstKey, firstKey, 0)
    <3>1. firstKey <= firstKey
      OBVIOUS
    <3>2. entry.firstKey = firstKey /\ entry.lastKey = firstKey /\ IsGap(entry, n)
      BY <3>1, EntryIsGap
    <3>3. start.cur = entry
      BY <2>4
    <3> HIDE DEF entry
    <3> QED BY <3>2, <3>3
  <2>5. ~start.inSet => \E h \in S : h.firstKey = h.lastKey
    BY <2>3, <2>4
  <2>6. start.inSet => \A h \in S : h.firstKey # firstKey
    BY <2>4
  <2>8. start.others = S
    BY <2>4
  <2> HIDE <2>4
  <2>9. /\ firstKey <= firstKey /\ ~(firstKey < firstKey)
    OBVIOUS
  <2>11. \A h \in S : h.lastKey <= firstKey \/ (firstKey <= h.firstKey /\ firstKey < h.firstKey)
    BY <2>2, <2>3, <1>1
  <2>12. start.inSet \in BOOLEAN
    BY <2>4
  <2>10. QED
    BY <2>11, <2>12, <2>5, <2>6, <2>7, <2>8, <2>9 DEF Started
<1>3. CASE ~StartsNewGap(prev, firstKey, weight, maxWeight)
  <2>1. PICK p \in prev : ~(p.lastKey < firstKey)
    BY <1>3 DEF StartsNewGap
  <2>2. /\ p \in S /\ p.firstKey <= firstKey /\ prev = {p}
        /\ \A h \in S : h.firstKey <= firstKey => h.firstKey <= p.firstKey
    BY <2>1, LastFromFacts
  <2>3. firstKey <= p.lastKey /\ p.lastKey < lastKey
    BY <2>1, <2>2, <1>1
  <2>4. The(prev) = p
    BY <2>2 DEF The
  <2>5. \A h \in S \ {p} : h.lastKey <= p.firstKey \/ p.lastKey <= h.firstKey
    BY <2>2 DEF IsGapSetOf, Chained
  <2>6. CASE p.lastKey > firstKey /\ weight > maxWeight
    <3> DEFINE cur == IF chained # {} THEN The(chained) ELSE GapEntry(p.lastKey, p.lastKey, 0)
    <3>1. start = [cur |-> cur, others |-> S \ {cur}, weight |-> weight - p.weight, inSet |-> TRUE]
      BY <1>3, <2>4, <2>6 DEF Step1
    <3>2. CASE chained # {}
      <4>1. The(chained) \in chained
        BY <3>2, TheIsIn
      <4>2. cur \in S /\ cur.firstKey = p.lastKey
        BY <3>2, <4>1, <2>4
      <4> HIDE DEF cur
      <4>3. \A h \in S \ {cur} : /\ h.firstKey # cur.firstKey
                                 /\ h.lastKey <= cur.firstKey \/ cur.lastKey <= h.firstKey
        BY <4>2 DEF IsGapSetOf, Chained, Distinct
      <4>4. p # cur
        BY <4>2, <2>2, <2>6, <1>1
      <4>6. \A h \in S \ {cur} : \/ h.lastKey <= cur.firstKey
                                 \/ cur.lastKey <= h.firstKey /\ cur.firstKey < h.firstKey
        BY <4>2, <4>3, <1>1
      <4>5. QED
        BY <3>1, <4>2, <4>3, <4>4, <4>6, <2>2, <2>3, <1>1 DEF Started
    <3>3. CASE chained = {}
      <4>1. cur = GapEntry(p.lastKey, p.lastKey, 0)
        BY <3>3
      <4>2. cur.firstKey = p.lastKey /\ cur.lastKey = p.lastKey /\ IsGap(cur, n)
        <5>1. p.lastKey \in 1..n /\ p.lastKey <= p.lastKey
          BY <1>1, <2>2
        <5>2. QED
          BY <4>1, <5>1, EntryIsGap
      <4>3. ASSUME NEW h \in S
            PROVE  h.firstKey # p.lastKey
        BY <3>3, <2>4
      <4> HIDE DEF cur
      <4>4. cur \notin S /\ p # cur
        BY <4>2, <4>3, <2>2
      <4>5. ASSUME NEW h \in S
            PROVE  \/ h.lastKey <= cur.firstKey
                   \/ cur.lastKey <= h.firstKey /\ cur.firstKey < h.firstKey
        BY <4>2, <4>3, <2>5, <1>1, <2>2
      <4>6. QED
        BY <3>1, <4>2, <4>3, <4>4, <4>5, <2>2, <2>3, <2>6, <1>1 DEF Started
    <3>4. QED
      BY <3>2, <3>3
  <2>7. CASE ~(p.lastKey > firstKey /\ weight > maxWeight)
    <3>1. start = [cur |-> p, others |-> S \ {p}, weight |-> weight, inSet |-> TRUE]
      BY <1>3, <2>2, <2>4, <2>7 DEF Step1
    <3>2. \A h \in S \ {p} : h.firstKey # p.firstKey
      BY <2>2 DEF IsGapSetOf, Distinct
    <3>3. ASSUME NEW h \in S \ {p}
          PROVE  \/ h.lastKey <= p.firstKey
                 \/ p.lastKey <= h.firstKey /\ p.firstKey < h.firstKey
      <4>1. h.firstKey # p.firstKey /\ (h.lastKey <= p.firstKey \/ p.lastKey <= h.firstKey)
        BY <3>2, <2>5
      <4>2. IsGap(h, n) /\ IsGap(p, n)
        BY <2>2, <1>1
      <4>3. QED
        BY <4>1, <4>2
    <3>4. QED
      BY <3>1, <3>2, <3>3, <2>2, <2>3, <1>1 DEF Started
  <2>8. QED
    BY <2>6, <2>7
<1>4. QED
  BY <1>2, <1>3

\* Step 2 merges the next gaps up to the last one that ends by lastKey. Of the gaps that
\* stay, those behind the gap reach over lastKey.
LEMMA Step2Merges ==
    ASSUME NEW n \in Nat, NEW S, IsGapSetOf(S, n), NEW cur, NEW others, NEW inSet,
           NEW firstKey \in 1..n, NEW lastKey \in 1..n, firstKey <= lastKey,
           Started(S, firstKey, lastKey, n, cur, others, inSet)
    PROVE  LET gap == Step2(cur, others, lastKey)
               rest == others \ Merged(cur, others, lastKey)
           IN  /\ IsGap(gap, n) /\ gap.firstKey = cur.firstKey /\ cur.lastKey <= gap.lastKey
               /\ gap.lastKey = cur.lastKey \/ gap.lastKey <= lastKey
               /\ \A g \in Merged(cur, others, lastKey) :
                    cur.firstKey < g.firstKey /\ g.lastKey <= gap.lastKey
               /\ \A r \in rest : /\ r.lastKey <= gap.firstKey \/ gap.lastKey <= r.firstKey
                                  /\ gap.firstKey < r.firstKey => lastKey < r.lastKey
<1> DEFINE next   == {g \in others : g.firstKey > cur.firstKey}
           M      == Merged(cur, others, lastKey)
           gap    == Step2(cur, others, lastKey)
<1>1. /\ IsGap(cur, n) /\ others \subseteq S /\ \A g \in S : IsGap(g, n)
      /\ \A h \in others : \/ h.lastKey <= cur.firstKey
                           \/ cur.lastKey <= h.firstKey /\ cur.firstKey < h.firstKey
  BY DEF Started, IsGapSetOf
<1>2. M = {g \in next : \A h \in next : h.firstKey <= g.firstKey => h.lastKey <= lastKey}
  BY DEF Merged
<1>3. ASSUME NEW g \in next, NEW h \in next, g # h
      PROVE  /\ g.firstKey < h.firstKey \/ h.firstKey < g.firstKey
             /\ g.firstKey < h.firstKey => g.lastKey <= h.firstKey
  <2>1. g \in S /\ h \in S /\ IsGap(g, n) /\ IsGap(h, n)
    BY <1>1
  <2>2. g.firstKey # h.firstKey
    BY <2>1, <1>3 DEF IsGapSetOf, Distinct
  <2>3. g.lastKey <= h.firstKey \/ h.lastKey <= g.firstKey
    BY <2>1, <1>3 DEF IsGapSetOf, Chained
  <2>4. QED
    BY <2>1, <2>2, <2>3 DEF IsGap
<1>4. \A g \in M : g \in next /\ g \in others /\ cur.firstKey < g.firstKey /\ g.lastKey <= lastKey
  <2>1. \A g \in next : g.firstKey <= g.firstKey
    BY <1>1 DEF IsGap
  <2>2. QED
    BY <1>2, <2>1, <1>1 DEF IsGap
<1>5. ASSUME NEW r \in next \ M
      PROVE  lastKey < r.lastKey
  <2>1. PICK h \in next : h.firstKey <= r.firstKey /\ ~(h.lastKey <= lastKey)
    BY <1>2
  <2>2. IsGap(r, n) /\ IsGap(h, n)
    BY <1>1
  <2>3. CASE h = r
    BY <2>1, <2>2, <2>3 DEF IsGap
  <2>4. CASE h # r
    <3>1. h.firstKey < r.firstKey /\ h.lastKey <= r.firstKey
      BY <2>1, <2>2, <2>4, <1>3 DEF IsGap
    <3>2. QED
      BY <3>1, <2>1, <2>2 DEF IsGap
  <2>5. QED
    BY <2>3, <2>4
<1>6. CASE M = {}
  <2>1. gap = cur
    BY <1>6, Zenon DEF Step2
  <2> HIDE DEF M, gap
  <2>2. ASSUME NEW r \in others, cur.firstKey < r.firstKey
        PROVE  lastKey < r.lastKey
    BY <2>2, <1>5, <1>6
  <2>3. \A r \in others : cur.firstKey < r.firstKey => lastKey < r.lastKey
    BY <2>2
  <2>4. cur.lastKey <= cur.lastKey
    BY <1>1 DEF IsGap
  <2>5. /\ IsGap(gap, n) /\ gap.firstKey = cur.firstKey /\ cur.lastKey <= gap.lastKey
        /\ gap.lastKey = cur.lastKey \/ gap.lastKey <= lastKey
        /\ \A r \in others : /\ r.lastKey <= gap.firstKey \/ gap.lastKey <= r.firstKey
                             /\ gap.firstKey < r.firstKey => lastKey < r.lastKey
    BY <2>1, <2>3, <2>4, <1>1
  <2>6. QED
    BY <2>5, <1>6 DEF M, gap
<1>7. CASE M # {}
  <2> DEFINE m == The(LastGap(M))
  <2>1. \A g \in M : IsGap(g, n)
    BY <1>1, <1>4
  <2>2. LastGap(M) # {}
    BY <2>1, <1>7, LastGapExists
  <2>3. m \in LastGap(M)
    BY <2>2, TheIsIn
  <2>4. m \in M /\ \A h \in M : h.firstKey <= m.firstKey
    BY <2>3 DEF LastGap
  <2>5. \E w : gap = GapEntry(cur.firstKey, m.lastKey, w)
    BY <1>7, Zenon DEF Step2
  <2>6. PICK w : gap = GapEntry(cur.firstKey, m.lastKey, w)
    BY <2>5
  <2> HIDE DEF M, gap, m
  <2>7. IsGap(m, n) /\ m \in next /\ m \in others /\ cur.firstKey < m.firstKey /\ m.lastKey <= lastKey
    BY <2>1, <2>4, <1>4
  <2>8. cur.lastKey <= m.firstKey
    BY <2>7, <1>1 DEF IsGap
  <2>9. cur.firstKey \in 1..n /\ m.lastKey \in 1..n /\ cur.firstKey <= m.lastKey
    BY <2>7, <1>1 DEF IsGap
  <2>10. IsGap(gap, n) /\ gap.firstKey = cur.firstKey /\ gap.lastKey = m.lastKey
    BY <2>6, <2>9, EntryIsGap
  <2>11. ASSUME NEW g \in M
         PROVE  g.lastKey <= m.lastKey
    <3>1. IsGap(g, n) /\ g \in next /\ g.firstKey <= m.firstKey
      BY <2>1, <2>4, <1>4
    <3>2. CASE g = m
      BY <3>1, <3>2 DEF IsGap
    <3>3. CASE g # m
      <4>1. g.firstKey < m.firstKey /\ g.lastKey <= m.firstKey
        BY <3>1, <3>3, <2>7, <1>3 DEF IsGap
      <4>2. QED
        BY <4>1, <3>1, <2>7 DEF IsGap
    <3>4. QED
      BY <3>2, <3>3
  <2>12. ASSUME NEW r \in others \ M
         PROVE  /\ r.lastKey <= cur.firstKey \/ m.lastKey <= r.firstKey
                /\ cur.firstKey < r.firstKey => lastKey < r.lastKey
    <3>1. /\ IsGap(r, n)
          /\ r.lastKey <= cur.firstKey \/ cur.firstKey < r.firstKey
      BY <1>1
    <3>2. CASE cur.firstKey < r.firstKey
      <4>1. r \in next /\ lastKey < r.lastKey
        BY <3>2, <1>5
      <4>2. r # m /\ r.lastKey > m.firstKey
        BY <4>1, <2>4, <2>7, <3>1 DEF IsGap
      <4>3. m.lastKey <= r.firstKey
        BY <4>1, <4>2, <2>7, <3>1, <1>3 DEF IsGap
      <4>4. QED
        BY <4>1, <4>3
    <3>3. CASE ~(cur.firstKey < r.firstKey)
      <4>1. r.lastKey <= cur.firstKey
        BY <3>1, <3>3, <1>1 DEF IsGap
      <4>2. QED
        BY <3>3, <4>1
    <3>4. QED
      BY <3>2, <3>3
  <2>13. cur.lastKey <= m.lastKey
    BY <2>7, <2>8, <1>1 DEF IsGap
  <2>14. QED
    BY <2>7, <2>10, <2>11, <2>12, <2>13, <1>4 DEF M, gap
<1>8. QED
  BY <1>6, <1>7

\* Step 3 extends the gap to lastKey, when it ends before.
LEMMA Step3Extends ==
    ASSUME NEW n \in Nat, NEW gap, IsGap(gap, n), NEW weight,
           NEW firstKey \in 1..n, NEW lastKey \in 1..n, firstKey <= lastKey,
           firstKey <= gap.lastKey, gap.firstKey <= lastKey
    PROVE  LET final == Step3(gap, firstKey, lastKey, weight)
           IN  /\ IsGap(final, n) /\ final.firstKey = gap.firstKey
               /\ gap.lastKey <= lastKey => final.lastKey = lastKey
               /\ lastKey < gap.lastKey => final.lastKey = gap.lastKey
<1> DEFINE final == Step3(gap, firstKey, lastKey, weight)
<1>1. /\ gap.firstKey \in 1..n /\ gap.lastKey \in 1..n
  BY DEF IsGap
<1>2. CASE gap.lastKey <= lastKey
  <2>1. \E w : final = GapEntry(gap.firstKey, lastKey, w)
    BY <1>1, <1>2 DEF Step3
  <2>2. PICK w : final = GapEntry(gap.firstKey, lastKey, w)
    BY <2>1
  <2> HIDE DEF final
  <2>3. IsGap(final, n) /\ final.firstKey = gap.firstKey /\ final.lastKey = lastKey
    BY <2>2, <1>1, EntryIsGap
  <2>4. ~(lastKey < gap.lastKey)
    BY <1>1, <1>2
  <2>5. QED
    BY <2>3, <2>4 DEF final
<1>3. CASE lastKey < gap.lastKey
  <2>1. final = gap
    BY <1>1, <1>3 DEF Step3
  <2>2. ~(gap.lastKey <= lastKey)
    BY <1>1, <1>3
  <2>3. QED
    BY <2>1, <2>2, <1>3
<1>4. QED
  BY <1>1, <1>2, <1>3

\* The gaps of a set, and the gap worked on when it is in the set.
With(rest, inSet, gap) == rest \cup (IF inSet THEN {gap} ELSE {})

\* What step 4 makes of them: the gap as it was, with no gap that begins by lastKey behind
\* it, or a gap that ends with the next one, which goes, or where the next one begins.
Chains(final, rest, inSet, lastKey, n, T) ==
    \/ /\ T = With(rest, inSet, final)
       /\ \A r \in rest : final.firstKey < r.firstKey => lastKey < r.firstKey
    \/ \E next \in rest : \E gap :
          /\ IsGap(gap, n) /\ gap.firstKey = final.firstKey
          /\ final.firstKey < next.firstKey /\ next.firstKey <= lastKey
          /\ \A r \in rest : final.firstKey < r.firstKey => next.firstKey <= r.firstKey
          /\ \/ gap.lastKey = next.lastKey /\ T = With(rest \ {next}, inSet, gap)
             \/ gap.lastKey = next.firstKey /\ T = With(rest, inSet, gap)

\* Step 4 merges the gap that begins by lastKey, if there is one, or chains it: the gap
\* then ends with it, or where it begins.
LEMMA Step4Chains ==
    ASSUME NEW n \in Nat, NEW final, IsGap(final, n), NEW rest, \A g \in rest : IsGap(g, n),
           Distinct(rest), NEW inSet, NEW lastKey \in 1..n, final.firstKey <= lastKey,
           NEW minMergedWeight, NEW maxWeight,
           NEW T, T = Step4(final, rest, inSet, lastKey, minMergedWeight, maxWeight)
    PROVE  Chains(final, rest, inSet, lastKey, n, T)
<1> DEFINE later == {g \in rest : g.firstKey > final.firstKey}
           next  == {g \in FirstAfter(rest, final.firstKey) : g.firstKey <= lastKey}
           nx    == The(next)
<1>1. FirstAfter(rest, final.firstKey) = FirstGap(later)
  BY DEF FirstAfter
<1>2. CASE next = {}
  <2>1. T = With(rest, inSet, final)
    BY <1>2 DEF Step4, With
  <2>2. ASSUME NEW r \in rest, final.firstKey < r.firstKey
        PROVE  lastKey < r.firstKey
    <3>1. later # {} /\ \A g \in later : IsGap(g, n)
      BY <2>2 DEF IsGap
    <3>2. FirstGap(later) # {}
      BY <3>1, FirstGapExists
    <3>3. PICK g \in FirstGap(later) : TRUE
      BY <3>2
    <3>4. g \in later /\ g.firstKey <= r.firstKey /\ IsGap(g, n)
      BY <3>1, <3>3, <2>2 DEF FirstGap, IsGap
    <3>5. ~(g.firstKey <= lastKey)
      BY <3>3, <1>1, <1>2
    <3>6. QED
      BY <3>4, <3>5, <2>2 DEF IsGap
  <2>3. QED
    BY <2>1, <2>2 DEF Chains
<1>3. CASE next # {}
  <2>1. nx \in next
    BY <1>3, TheIsIn
  <2>2. /\ nx \in rest /\ final.firstKey < nx.firstKey /\ nx.firstKey <= lastKey
        /\ \A r \in rest : final.firstKey < r.firstKey => nx.firstKey <= r.firstKey
    BY <2>1, <1>1 DEF FirstGap, IsGap
  <2>3. IsGap(nx, n)
    BY <2>2
  <2>4. next = {nx}
    <3>1. ASSUME NEW g \in next
          PROVE  g = nx
      <4>1. g \in rest /\ final.firstKey < g.firstKey /\ \A r \in later : g.firstKey <= r.firstKey
        BY <1>1, <3>1 DEF FirstGap, IsGap
      <4>2. g.firstKey <= nx.firstKey /\ nx.firstKey <= g.firstKey /\ IsGap(g, n)
        BY <4>1, <2>2 DEF IsGap
      <4>3. g.firstKey = nx.firstKey
        BY <4>2, <2>3 DEF IsGap
      <4>4. QED
        BY <4>1, <4>3, <2>2 DEF Distinct
    <3>2. QED
      BY <3>1, <2>1
  <2>5. \/ \E w : T = With(rest \ next, inSet, GapEntry(final.firstKey, nx.lastKey, w))
        \/ \E w : T = With(rest, inSet, GapEntry(final.firstKey, nx.firstKey, w))
    BY <1>3, Zenon DEF Step4, With
  <2> HIDE DEF nx, next
  <2>6. CASE \E w : T = With(rest \ next, inSet, GapEntry(final.firstKey, nx.lastKey, w))
    <3>1. PICK w : T = With(rest \ next, inSet, GapEntry(final.firstKey, nx.lastKey, w))
      BY <2>6
    <3> DEFINE gap == GapEntry(final.firstKey, nx.lastKey, w)
    <3>2. final.firstKey \in 1..n /\ nx.lastKey \in 1..n /\ final.firstKey <= nx.lastKey
      BY <2>2, <2>3 DEF IsGap
    <3>3. IsGap(gap, n) /\ gap.firstKey = final.firstKey /\ gap.lastKey = nx.lastKey
      BY <3>2, EntryIsGap
    <3>4. T = With(rest \ {nx}, inSet, gap)
      BY <3>1, <2>4
    <3> HIDE DEF gap
    <3>5. QED
      BY <3>3, <3>4, <2>2 DEF Chains
  <2>7. CASE \E w : T = With(rest, inSet, GapEntry(final.firstKey, nx.firstKey, w))
    <3>1. PICK w : T = With(rest, inSet, GapEntry(final.firstKey, nx.firstKey, w))
      BY <2>7
    <3> DEFINE gap == GapEntry(final.firstKey, nx.firstKey, w)
    <3>2. final.firstKey \in 1..n /\ nx.firstKey \in 1..n /\ final.firstKey <= nx.firstKey
      BY <2>2, <2>3 DEF IsGap
    <3>3. IsGap(gap, n) /\ gap.firstKey = final.firstKey /\ gap.lastKey = nx.firstKey
      BY <3>2, EntryIsGap
    <3>4. T = With(rest, inSet, gap)
      BY <3>1
    <3> HIDE DEF gap
    <3>5. QED
      BY <3>3, <3>4, <2>2 DEF Chains
  <2>8. QED
    BY <2>5, <2>6, <2>7
<1>4. QED
  BY <1>2, <1>3

\* What the four steps make of the gap they started with, and of the others: the gap is
\* extended to lastKey, over the gaps that are no longer there, up to where another one
\* begins or ends.
Finished(S, firstKey, lastKey, n, cur, others, gap, stay) ==
    /\ IsGap(gap, n) /\ gap.firstKey = cur.firstKey /\ cur.lastKey <= gap.lastKey
    /\ stay \subseteq others
    /\ \A r \in stay : r.lastKey <= gap.firstKey \/ gap.lastKey <= r.firstKey
    /\ \A g \in others \ stay : gap.firstKey <= g.firstKey /\ g.lastKey <= gap.lastKey
    /\ lastKey < gap.lastKey /\ cur.lastKey < gap.lastKey =>
          \E h \in S : h.firstKey <= lastKey /\ h.lastKey = gap.lastKey
    /\ gap.lastKey < lastKey => \E h \in stay : h.firstKey = gap.lastKey /\ lastKey <= h.lastKey
    /\ firstKey < lastKey => gap.firstKey < gap.lastKey

SetBy(S, firstKey, lastKey, n, cur, others, inSet, T) ==
    \E gap, stay : /\ Finished(S, firstKey, lastKey, n, cur, others, gap, stay)
                   /\ T = With(stay, inSet, gap)

\* Steps 2 to 4 finish what step 1 has started.
LEMMA StepsFinish ==
    ASSUME NEW n \in Nat, NEW S, IsGapSetOf(S, n), NEW weight, NEW maxWeight,
           NEW firstKey \in 1..n, NEW lastKey \in 1..n, firstKey <= lastKey,
           NEW cur, NEW others, NEW inSet,
           Started(S, firstKey, lastKey, n, cur, others, inSet),
           NEW mid, mid = Step2(cur, others, lastKey),
           NEW rest, rest = others \ Merged(cur, others, lastKey),
           NEW final, final = Step3(mid, firstKey, lastKey, weight),
           NEW T, T = Step4(final, rest, inSet, lastKey, mid.weight, maxWeight)
    PROVE  SetBy(S, firstKey, lastKey, n, cur, others, inSet, T)
<1> DEFINE M == Merged(cur, others, lastKey)
           Done(gap, stay) == /\ Finished(S, firstKey, lastKey, n, cur, others, gap, stay)
                              /\ T = With(stay, inSet, gap)
<1> SUFFICES \E gap, stay : Done(gap, stay)
  BY DEF SetBy
<1>1. /\ IsGap(mid, n) /\ mid.firstKey = cur.firstKey /\ cur.lastKey <= mid.lastKey
      /\ mid.lastKey = cur.lastKey \/ mid.lastKey <= lastKey
      /\ \A g \in M : cur.firstKey < g.firstKey /\ g.lastKey <= mid.lastKey
      /\ \A r \in rest : /\ r.lastKey <= mid.firstKey \/ mid.lastKey <= r.firstKey
                         /\ mid.firstKey < r.firstKey => lastKey < r.lastKey
  BY Step2Merges
<1>20. rest = others \ M
  OBVIOUS
<1>2. /\ IsGap(cur, n) /\ others \subseteq S /\ \A g \in S : IsGap(g, n)
      /\ firstKey <= cur.lastKey /\ cur.firstKey <= lastKey
      /\ firstKey < lastKey => cur.firstKey < lastKey
      /\ \A h \in others : \/ h.lastKey <= cur.firstKey
                           \/ cur.lastKey <= h.firstKey /\ cur.firstKey < h.firstKey
  BY DEF Started, IsGapSetOf
<1>3. M \subseteq others
  BY DEF Merged
<1> HIDE DEF M
<1>4. firstKey <= mid.lastKey /\ mid.firstKey <= lastKey
  BY <1>1, <1>2 DEF IsGap
<1>5. /\ IsGap(final, n) /\ final.firstKey = mid.firstKey
      /\ mid.lastKey <= lastKey => final.lastKey = lastKey
      /\ lastKey < mid.lastKey => final.lastKey = mid.lastKey
  BY <1>1, <1>4, Step3Extends
<1>6. /\ \A g \in rest : IsGap(g, n)
      /\ Distinct(rest)
  BY <1>2 DEF IsGapSetOf, Distinct
<1>7. final.firstKey <= lastKey
  BY <1>5, <1>4
<1>8. Chains(final, rest, inSet, lastKey, n, T)
  BY <1>5, <1>6, <1>7, Step4Chains
<1>9. ASSUME NEW r \in rest
      PROVE  r \in S /\ IsGap(r, n)
  BY <1>2, <1>20
<1>10. rest \subseteq others /\ \A g \in others : g \notin rest => g \in M
  BY <1>20
<1>11. CASE /\ T = With(rest, inSet, final)
            /\ \A r \in rest : final.firstKey < r.firstKey => lastKey < r.firstKey
  <2>1. cur.lastKey <= final.lastKey /\ mid.lastKey <= final.lastKey /\ lastKey <= final.lastKey
    BY <1>1, <1>2, <1>5 DEF IsGap
  <2>2. ASSUME NEW r \in rest
        PROVE  r.lastKey <= final.firstKey \/ final.lastKey <= r.firstKey
    BY <1>1, <1>2, <1>5, <1>9, <1>11 DEF IsGap
  <2>3. ~(lastKey < final.lastKey /\ cur.lastKey < final.lastKey)
    BY <1>1, <1>2, <1>5 DEF IsGap
  <2>4. ~(final.lastKey < lastKey)
    BY <2>1, <1>5 DEF IsGap
  <2>5. firstKey < lastKey => final.firstKey < final.lastKey
    BY <2>1, <1>1, <1>2, <1>5 DEF IsGap
  <2>6. ASSUME NEW g \in others \ rest
        PROVE  final.firstKey <= g.firstKey /\ g.lastKey <= final.lastKey
    <3>1. g \in M /\ IsGap(g, n)
      BY <2>6, <1>2, <1>10
    <3>2. QED
      BY <3>1, <2>1, <1>1, <1>2, <1>5 DEF IsGap
  <2>7. Finished(S, firstKey, lastKey, n, cur, others, final, rest)
    BY <2>1, <2>2, <2>3, <2>4, <2>5, <2>6, <1>1, <1>5 DEF Finished
  <2>8. QED
    BY <2>7, <1>11
<1>12. ASSUME NEW next \in rest, NEW gap,
              IsGap(gap, n), gap.firstKey = final.firstKey,
              final.firstKey < next.firstKey, next.firstKey <= lastKey,
              \A r \in rest : final.firstKey < r.firstKey => next.firstKey <= r.firstKey,
              \/ gap.lastKey = next.lastKey /\ T = With(rest \ {next}, inSet, gap)
              \/ gap.lastKey = next.firstKey /\ T = With(rest, inSet, gap)
       PROVE  \E g, stay : Done(g, stay)
  <2>1. /\ IsGap(next, n) /\ next \in S /\ lastKey < next.lastKey
        /\ mid.lastKey <= next.firstKey /\ cur.lastKey <= next.firstKey
    <3>1. IsGap(next, n) /\ next \in S
      BY <1>9
    <3>2. lastKey < next.lastKey
      BY <1>1, <1>5, <1>12
    <3>3. QED
      BY <3>1, <3>2, <1>1, <1>2, <1>5, <1>12 DEF IsGap
  <2>2. ASSUME NEW r \in rest, r # next, cur.firstKey < r.firstKey
        PROVE  next.lastKey <= r.firstKey
    <3>1. next.firstKey <= r.firstKey /\ lastKey < r.lastKey
      BY <2>2, <1>1, <1>5, <1>12
    <3>2. next.lastKey <= r.firstKey \/ r.lastKey <= next.firstKey
      BY <2>1, <2>2, <1>9 DEF IsGapSetOf, Chained
    <3>3. QED
      BY <3>1, <3>2, <2>1, <1>9, <1>12 DEF IsGap
  <2>3. ASSUME NEW r \in rest, ~(cur.firstKey < r.firstKey)
        PROVE  r.lastKey <= cur.firstKey
    BY <2>3, <1>2
  <2>4. \A g \in M : gap.firstKey <= g.firstKey /\ g.lastKey <= mid.lastKey /\ IsGap(g, n)
    BY <1>1, <1>2, <1>3, <1>5, <1>12 DEF IsGap
  <2>5. CASE gap.lastKey = next.lastKey /\ T = With(rest \ {next}, inSet, gap)
    <3> DEFINE stay == rest \ {next}
    <3>1. ASSUME NEW r \in stay
          PROVE  r.lastKey <= gap.firstKey \/ gap.lastKey <= r.firstKey
      BY <2>2, <2>3, <2>5, <1>1, <1>5, <1>12
    <3>2. cur.lastKey <= gap.lastKey /\ ~(gap.lastKey < lastKey) /\ mid.lastKey <= gap.lastKey
      BY <2>1, <2>5, <1>1, <1>2 DEF IsGap
    <3>3. \A g \in others \ stay : gap.firstKey <= g.firstKey /\ g.lastKey <= gap.lastKey
      BY <2>1, <2>4, <2>5, <3>2, <1>1, <1>5, <1>10, <1>12 DEF IsGap
    <3>4. firstKey < lastKey => gap.firstKey < gap.lastKey
      BY <2>1, <2>5, <1>5, <1>12 DEF IsGap
    <3>5. stay \subseteq others /\ gap.firstKey = cur.firstKey
      BY <1>10, <1>1, <1>5, <1>12
    <3>6. \E h \in S : h.firstKey <= lastKey /\ h.lastKey = gap.lastKey
      BY <2>1, <2>5, <1>12
    <3>7. Finished(S, firstKey, lastKey, n, cur, others, gap, stay)
      BY <3>1, <3>2, <3>3, <3>4, <3>5, <3>6, <1>12 DEF Finished
    <3>8. QED
      BY <3>7, <2>5
  <2>6. CASE gap.lastKey = next.firstKey /\ T = With(rest, inSet, gap)
    <3>1. ASSUME NEW r \in rest
          PROVE  r.lastKey <= gap.firstKey \/ gap.lastKey <= r.firstKey
      BY <2>3, <2>6, <1>1, <1>5, <1>12
    <3>2. cur.lastKey <= gap.lastKey /\ ~(lastKey < gap.lastKey) /\ mid.lastKey <= gap.lastKey
      BY <2>1, <2>6, <1>1, <1>2, <1>12 DEF IsGap
    <3>3. \A g \in others \ rest : gap.firstKey <= g.firstKey /\ g.lastKey <= gap.lastKey
      BY <2>1, <2>4, <3>2, <1>1, <1>10, <1>12 DEF IsGap
    <3>4. gap.firstKey < gap.lastKey
      BY <2>6, <1>12
    <3>5. rest \subseteq others /\ gap.firstKey = cur.firstKey
      BY <1>10, <1>1, <1>5, <1>12
    <3>6. \E h \in rest : h.firstKey = gap.lastKey /\ lastKey <= h.lastKey
      BY <2>1, <2>6 DEF IsGap
    <3>7. Finished(S, firstKey, lastKey, n, cur, others, gap, rest)
      BY <3>1, <3>2, <3>3, <3>4, <3>5, <3>6, <1>12 DEF Finished
    <3>8. QED
      BY <3>7, <2>6
  <2>7. QED
    BY <2>5, <2>6, <1>12
<1>13. QED
  BY <1>8, <1>11, <1>12 DEF Chains

\* setGap() changes nothing, or it finishes what it started.
LEMMA SetGapFinishes ==
    ASSUME NEW n \in Nat, NEW S, IsGapSetOf(S, n), NEW weight, NEW maxWeight,
           NEW firstKey \in 1..n, NEW lastKey \in 1..n, firstKey <= lastKey
    PROVE  \/ /\ SetGap(S, firstKey, lastKey, weight, maxWeight) = S
              /\ \E g \in S : g.firstKey <= firstKey /\ lastKey <= g.lastKey
           \/ \E cur, others, inSet :
                 /\ Started(S, firstKey, lastKey, n, cur, others, inSet) /\ inSet \in BOOLEAN
                 /\ SetBy(S, firstKey, lastKey, n, cur, others, inSet,
                          SetGap(S, firstKey, lastKey, weight, maxWeight))
<1> DEFINE prev  == LastFrom(S, firstKey)
           start == Step1(S, firstKey, weight, maxWeight)
<1>1. \A g \in prev : g \in S /\ g.firstKey <= firstKey /\ IsGap(g, n)
  BY LastFromFacts DEF IsGapSetOf
<1>2. CASE \E g \in prev : g.lastKey >= lastKey
  <2>1. SetGap(S, firstKey, lastKey, weight, maxWeight) = S
    BY <1>2 DEF SetGap
  <2>2. \E g \in S : g.firstKey <= firstKey /\ lastKey <= g.lastKey
    BY <1>1, <1>2 DEF IsGap
  <2>3. QED
    BY <2>1, <2>2
<1>3. CASE ~\E g \in prev : g.lastKey >= lastKey
  <2>1. \A g \in prev : g.lastKey < lastKey
    BY <1>1, <1>3 DEF IsGap
  <2>2. /\ Started(S, firstKey, lastKey, n, start.cur, start.others, start.inSet)
        /\ start.inSet \in BOOLEAN
    BY <2>1, Step1Starts
  <2>3. PICK cur, others, inSet, left :
            cur = start.cur /\ others = start.others /\ inSet = start.inSet /\ left = start.weight
    OBVIOUS
  <2>4. PICK mid : mid = Step2(cur, others, lastKey)
    OBVIOUS
  <2>5. PICK rest : rest = others \ Merged(cur, others, lastKey)
    OBVIOUS
  <2>6. PICK final : final = Step3(mid, firstKey, lastKey, left)
    OBVIOUS
  <2>7. PICK T : T = Step4(final, rest, inSet, lastKey, mid.weight, maxWeight)
    OBVIOUS
  <2>8. SetGap(S, firstKey, lastKey, weight, maxWeight) = T
    BY <1>3, <2>3, <2>4, <2>5, <2>6, <2>7 DEF SetGap
  <2>9. Started(S, firstKey, lastKey, n, cur, others, inSet) /\ inSet \in BOOLEAN
    BY <2>2, <2>3
  <2>10. SetBy(S, firstKey, lastKey, n, cur, others, inSet, T)
    BY <2>4, <2>5, <2>6, <2>7, <2>9, StepsFinish
  <2>11. QED
    BY <2>8, <2>9, <2>10
<1>4. QED
  BY <1>2, <1>3

----------------------------------------------------------------------------
(* What setGap() guarantees.                                               *)

\* The set of gaps remains one: none overlap, and each begins at a key of its own.
LEMMA SetGapKeepsSet ==
    ASSUME NEW n \in Nat, NEW S, IsGapSetOf(S, n), NEW weight, NEW maxWeight,
           NEW firstKey \in 1..n, NEW lastKey \in 1..n, firstKey <= lastKey
    PROVE  IsGapSetOf(SetGap(S, firstKey, lastKey, weight, maxWeight), n)
<1> DEFINE T == SetGap(S, firstKey, lastKey, weight, maxWeight)
<1> HIDE DEF T
<1>1. CASE T = S
  BY <1>1 DEF T
<1>2. ASSUME NEW cur, NEW others, NEW inSet, inSet \in BOOLEAN,
             Started(S, firstKey, lastKey, n, cur, others, inSet),
             SetBy(S, firstKey, lastKey, n, cur, others, inSet, T)
      PROVE  IsGapSetOf(T, n)
  <2>1. PICK gap, stay : /\ Finished(S, firstKey, lastKey, n, cur, others, gap, stay)
                         /\ T = With(stay, inSet, gap)
    BY <1>2 DEF SetBy
  <2>2. /\ IsGap(gap, n) /\ gap.firstKey = cur.firstKey
        /\ stay \subseteq others
        /\ \A r \in stay : r.lastKey <= gap.firstKey \/ gap.lastKey <= r.firstKey
    BY <2>1 DEF Finished
  <2>3. others \subseteq S /\ (inSet => \A h \in others : h.firstKey # cur.firstKey)
    BY <1>2 DEF Started
  <2>4. IsGapSetOf(stay, n)
    BY <2>2, <2>3 DEF IsGapSetOf, Chained, Distinct
  <2>5. CASE inSet
    <3>1. T = stay \cup {gap}
      BY <2>1, <2>5 DEF With
    <3>2. \A r \in stay : r.firstKey # gap.firstKey
      BY <2>2, <2>3, <2>5
    <3>3. QED
      BY <3>1, <3>2, <2>2, <2>4 DEF IsGapSetOf, Chained, Distinct
  <2>6. CASE ~inSet
    BY <2>1, <2>4, <2>6 DEF With
  <2>7. QED
    BY <2>5, <2>6, <1>2
<1>3. QED
  BY <1>1, <1>2, SetGapFinishes DEF T

\* A key that a gap holds afterwards was held by a gap, or lies in the range that is
\* set: merging, chaining and splitting invent nothing.
LEMMA SetGapInventsNothing ==
    ASSUME NEW n \in Nat, NEW S, IsGapSetOf(S, n), NEW weight, NEW maxWeight,
           NEW firstKey \in 1..n, NEW lastKey \in 1..n, firstKey <= lastKey,
           NEW g \in SetGap(S, firstKey, lastKey, weight, maxWeight),
           NEW k \in Int, Holds(g, k)
    PROVE  (firstKey <= k /\ k <= lastKey) \/ \E h \in S : Holds(h, k)
<1> DEFINE T == SetGap(S, firstKey, lastKey, weight, maxWeight)
<1>0. g \in T
  OBVIOUS
<1> HIDE DEF T
<1>1. CASE T = S
  BY <1>0, <1>1
<1>2. ASSUME NEW cur, NEW others, NEW inSet, inSet \in BOOLEAN,
             Started(S, firstKey, lastKey, n, cur, others, inSet),
             SetBy(S, firstKey, lastKey, n, cur, others, inSet, T)
      PROVE  (firstKey <= k /\ k <= lastKey) \/ \E h \in S : Holds(h, k)
  <2>1. PICK gap, stay : /\ Finished(S, firstKey, lastKey, n, cur, others, gap, stay)
                         /\ T = With(stay, inSet, gap)
    BY <1>2 DEF SetBy
  <2>2. /\ IsGap(gap, n) /\ gap.firstKey = cur.firstKey
        /\ stay \subseteq others
        /\ lastKey < gap.lastKey /\ cur.lastKey < gap.lastKey =>
              \E h \in S : h.firstKey <= lastKey /\ h.lastKey = gap.lastKey
    BY <2>1 DEF Finished
  <2>3. /\ others \subseteq S /\ IsGap(cur, n)
        /\ cur.firstKey < cur.lastKey => cur \in S
        /\ firstKey <= cur.lastKey /\ cur.firstKey <= lastKey
    BY <1>2 DEF Started
  <2>4. CASE g \in stay
    BY <2>2, <2>3, <2>4
  <2>5. CASE g = gap
    <3>1. /\ cur.firstKey \in Int /\ cur.lastKey \in Int /\ cur.firstKey <= cur.lastKey
          /\ gap.lastKey \in Int /\ cur.firstKey <= k /\ k <= gap.lastKey
      BY <2>2, <2>3, <2>5 DEF IsGap, Holds
    <3>2. CASE k <= cur.lastKey /\ cur.firstKey < cur.lastKey
      BY <3>1, <3>2, <2>3 DEF Holds
    <3>3. CASE k <= cur.lastKey /\ cur.firstKey = cur.lastKey
      <4>1. k = cur.firstKey
        BY <3>1, <3>3
      <4>2. QED
        BY <4>1, <3>3, <2>3
    <3>4. CASE cur.lastKey < k /\ k <= lastKey
      BY <3>1, <3>4, <2>3
    <3>5. CASE cur.lastKey < k /\ lastKey < k
      <4>1. lastKey < gap.lastKey /\ cur.lastKey < gap.lastKey
        BY <3>1, <3>5
      <4>2. PICK h \in S : h.firstKey <= lastKey /\ h.lastKey = gap.lastKey
        BY <4>1, <2>2
      <4>3. h.firstKey \in Int
        BY DEF IsGapSetOf, IsGap
      <4>4. Holds(h, k)
        BY <4>2, <4>3, <3>1, <3>5 DEF Holds
      <4>5. QED
        BY <4>4
    <3>6. QED
      BY <3>1, <3>2, <3>3, <3>4, <3>5
  <2>6. QED
    BY <1>0, <2>1, <2>4, <2>5 DEF With
<1>3. QED
  BY <1>1, <1>2, SetGapFinishes DEF T

\* A key and the next one that lie in a gap.
Steps(g, k) == g.firstKey <= k /\ k < g.lastKey

NoSingleKeys(S) == \A g \in S : g.firstKey < g.lastKey

\* With gaps of several keys, the stretches that are covered are those that were and
\* those of the new gap, no more and no less, and the gaps remain such.
LEMMA SetGapCoversExactly ==
    ASSUME NEW n \in Nat, NEW S, IsGapSetOf(S, n), NEW weight, NEW maxWeight,
           NEW firstKey \in 1..n, NEW lastKey \in 1..n, firstKey < lastKey,
           NoSingleKeys(S)
    PROVE  /\ NoSingleKeys(SetGap(S, firstKey, lastKey, weight, maxWeight))
           /\ \A k \in Int :
                (\E g \in SetGap(S, firstKey, lastKey, weight, maxWeight) : Steps(g, k))
                <=> \/ \E h \in S : Steps(h, k)
                    \/ firstKey <= k /\ k < lastKey
<1> DEFINE T == SetGap(S, firstKey, lastKey, weight, maxWeight)
           Exact == /\ NoSingleKeys(T)
                    /\ \A k \in Int : (\E g \in T : Steps(g, k))
                                      <=> \/ \E h \in S : Steps(h, k)
                                          \/ firstKey <= k /\ k < lastKey
<1> HIDE DEF T
<1>0. \A g \in S : IsGap(g, n)
  BY DEF IsGapSetOf
<1>1. ASSUME T = S, NEW h \in S, h.firstKey <= firstKey, lastKey <= h.lastKey
      PROVE  Exact
  <2>1. \A k \in Int : firstKey <= k /\ k < lastKey => Steps(h, k)
    BY <1>0, <1>1 DEF IsGap, Steps
  <2>2. QED
    BY <2>1, <1>1
<1>2. ASSUME NEW cur, NEW others, NEW inSet, inSet \in BOOLEAN,
             Started(S, firstKey, lastKey, n, cur, others, inSet),
             SetBy(S, firstKey, lastKey, n, cur, others, inSet, T)
      PROVE  Exact
  <2>1. PICK gap, stay : /\ Finished(S, firstKey, lastKey, n, cur, others, gap, stay)
                         /\ T = With(stay, inSet, gap)
    BY <1>2 DEF SetBy
  <2>2. /\ others \subseteq S /\ S \subseteq others \cup {cur} /\ IsGap(cur, n)
        /\ cur.firstKey < cur.lastKey => cur \in S
        /\ firstKey <= cur.lastKey /\ cur.firstKey < lastKey
        /\ ~inSet => \E h \in S : h.firstKey = h.lastKey
        /\ firstKey < cur.firstKey =>
              \E p \in others : p.firstKey <= firstKey /\ p.lastKey = cur.firstKey
    BY <1>2 DEF Started
  <2>3. /\ IsGap(gap, n) /\ gap.firstKey = cur.firstKey /\ cur.lastKey <= gap.lastKey
        /\ stay \subseteq others /\ gap.firstKey < gap.lastKey
        /\ \A g \in others \ stay : gap.firstKey <= g.firstKey /\ g.lastKey <= gap.lastKey
        /\ lastKey < gap.lastKey /\ cur.lastKey < gap.lastKey =>
              \E h \in S : h.firstKey <= lastKey /\ h.lastKey = gap.lastKey
        /\ gap.lastKey < lastKey => \E h \in stay : h.firstKey = gap.lastKey /\ lastKey <= h.lastKey
    BY <2>1 DEF Finished
  <2>4. inSet
    BY <2>2, <1>0 DEF NoSingleKeys, IsGap
  <2>5. T = stay \cup {gap}
    BY <2>1, <2>4 DEF With
  <2>6. /\ cur.firstKey \in Int /\ cur.lastKey \in Int /\ cur.firstKey <= cur.lastKey
        /\ gap.lastKey \in Int
    BY <2>2, <2>3 DEF IsGap
  <2>7. NoSingleKeys(T)
    BY <2>2, <2>3, <2>5 DEF NoSingleKeys
  <2>8. ASSUME NEW k \in Int, NEW g \in T, Steps(g, k)
        PROVE  (\E h \in S : Steps(h, k)) \/ (firstKey <= k /\ k < lastKey)
    <3>1. CASE g \in stay
      BY <3>1, <2>2, <2>3, <2>8
    <3>2. CASE g = gap
      <4>1. cur.firstKey <= k /\ k < gap.lastKey
        BY <3>2, <2>3, <2>8 DEF Steps
      <4>2. CASE k < cur.lastKey
        BY <4>1, <4>2, <2>2, <2>6 DEF Steps
      <4>3. CASE ~(k < cur.lastKey) /\ k < lastKey
        BY <4>3, <2>2, <2>6
      <4>4. CASE ~(k < cur.lastKey) /\ ~(k < lastKey)
        <5>1. PICK h \in S : h.firstKey <= lastKey /\ h.lastKey = gap.lastKey
          BY <4>1, <4>4, <2>3, <2>6
        <5>2. h.firstKey \in Int
          BY <1>0 DEF IsGap
        <5>3. Steps(h, k)
          BY <4>1, <4>4, <5>1, <5>2 DEF Steps
        <5>4. QED
          BY <5>3
      <4>5. QED
        BY <4>2, <4>3, <4>4
    <3>3. QED
      BY <3>1, <3>2, <2>5, <2>8
  <2>9. ASSUME NEW k \in Int, NEW h \in S, Steps(h, k)
        PROVE  \E g \in T : Steps(g, k)
    <3>1. CASE h \in stay
      BY <3>1, <2>5, <2>9
    <3>2. CASE h \notin stay
      <4>1. gap.firstKey <= h.firstKey /\ h.lastKey <= gap.lastKey
        BY <3>2, <2>2, <2>3, <2>6
      <4>2. h.firstKey \in Int /\ h.lastKey \in Int /\ gap.firstKey \in Int
        BY <1>0, <2>3 DEF IsGap
      <4>3. Steps(gap, k)
        BY <4>1, <4>2, <2>6, <2>9 DEF Steps
      <4>4. QED
        BY <4>3, <2>5
    <3>3. QED
      BY <3>1, <3>2
  <2>10. ASSUME NEW k \in Int, firstKey <= k, k < lastKey
         PROVE  \E g \in T : Steps(g, k)
    <3>1. CASE k < cur.firstKey
      <4>1. PICK p \in others : p.firstKey <= firstKey /\ p.lastKey = cur.firstKey
        BY <3>1, <2>2, <2>6, <2>10
      <4>2. p \in S /\ p.firstKey \in Int /\ p.firstKey < p.lastKey
        BY <4>1, <2>2, <1>0 DEF IsGap, NoSingleKeys
      <4>3. Steps(p, k)
        BY <4>1, <4>2, <3>1, <2>10 DEF Steps
      <4>4. QED
        BY <4>2, <4>3, <2>9
    <3>2. CASE cur.firstKey <= k /\ k < gap.lastKey
      BY <3>2, <2>3, <2>5 DEF Steps
    <3>3. CASE cur.firstKey <= k /\ ~(k < gap.lastKey)
      <4>1. PICK h \in stay : h.firstKey = gap.lastKey /\ lastKey <= h.lastKey
        BY <3>3, <2>3, <2>6, <2>10
      <4>2. h.lastKey \in Int
        BY <2>2, <2>3, <1>0 DEF IsGap
      <4>3. Steps(h, k)
        BY <4>1, <4>2, <3>3, <2>6, <2>10 DEF Steps
      <4>4. QED
        BY <4>3, <2>5
    <3>4. QED
      BY <3>1, <3>2, <3>3, <2>6
  <2>11. QED
    BY <2>7, <2>8, <2>9, <2>10
<1>3. Exact
  BY <1>1, <1>2, SetGapFinishes DEF T
<1>4. QED
  BY <1>3 DEF T

----------------------------------------------------------------------------
(* removeOverlappingGaps(): one iteration, then the loop.                  *)

\* The gaps that hold none of the keys.
Spared(S, keys) == {g \in S : \A k \in keys : ~Holds(g, k)}

\* The gap that FirstFrom() finds.
LEMMA FirstFromFacts ==
    ASSUME NEW n \in Nat, NEW S, IsGapSetOf(S, n), NEW key \in 1..n
    PROVE  /\ \A x \in FirstFrom(S, key) :
                /\ x \in S /\ key <= x.firstKey
                /\ FirstFrom(S, key) = {x}
                /\ \A h \in S : key <= h.firstKey => x.firstKey <= h.firstKey
           /\ FirstFrom(S, key) = {} => \A h \in S : h.firstKey < key
<1> DEFINE B == {g \in S : g.firstKey >= key}
<1>0. \A g \in S : g.firstKey \in Int
  BY DEF IsGapSetOf, IsGap
<1>1. ASSUME NEW x \in FirstFrom(S, key)
      PROVE  /\ x \in S /\ key <= x.firstKey
             /\ FirstFrom(S, key) = {x}
             /\ \A h \in S : key <= h.firstKey => x.firstKey <= h.firstKey
  <2>1. x \in S /\ key <= x.firstKey /\ \A h \in S : key <= h.firstKey => x.firstKey <= h.firstKey
    BY <1>0, <1>1 DEF FirstFrom, FirstGap
  <2>2. ASSUME NEW y \in FirstFrom(S, key)
        PROVE  y = x
    <3>1. y \in S /\ key <= y.firstKey /\ \A h \in S : key <= h.firstKey => y.firstKey <= h.firstKey
      BY <1>0, <2>2 DEF FirstFrom, FirstGap
    <3>2. y.firstKey = x.firstKey
      BY <1>0, <2>1, <3>1
    <3>3. QED
      BY <3>2, <2>1, <3>1 DEF IsGapSetOf, Distinct
  <2>3. QED
    BY <2>1, <2>2, <1>1
<1>2. ASSUME FirstFrom(S, key) = {}, NEW h \in S, key <= h.firstKey
      PROVE  FALSE
  <2>1. B # {} /\ \A g \in B : IsGap(g, n)
    BY <1>0, <1>2 DEF IsGapSetOf
  <2>2. FirstGap(B) # {}
    BY <2>1, FirstGapExists
  <2>3. QED
    BY <2>2, <1>2 DEF FirstFrom
<1>3. QED
  BY <1>0, <1>1, <1>2

\* Of two gaps of a set, the one that begins first ends by the beginning of the other.
LEMMA GapsFollow ==
    ASSUME NEW n \in Nat, NEW S, IsGapSetOf(S, n), NEW g \in S, NEW h \in S, g # h,
           g.firstKey <= h.firstKey
    PROVE  g.lastKey <= h.firstKey /\ g.firstKey < h.firstKey
<1>1. IsGap(g, n) /\ IsGap(h, n)
  BY DEF IsGapSetOf
<1>2. g.firstKey # h.firstKey
  BY DEF IsGapSetOf, Distinct
<1>3. g.lastKey <= h.firstKey \/ h.lastKey <= g.firstKey
  BY DEF IsGapSetOf, Chained
<1>4. QED
  BY <1>1, <1>2, <1>3 DEF IsGap

\* What an iteration leaves: it goes on behind the key, or at the key once the gap of this
\* single key is gone, and what it has removed is what need not be spared.
Iterated(S, keys, key, left, rest) ==
    /\ left \in SUBSET keys
    /\ left = {} => rest = Spared(S, {k \in keys : key <= k})
    /\ left # {} =>
         /\ Spared(rest, {k \in keys : Min(left) <= k}) = Spared(S, {k \in keys : key <= k})
         /\ \/ key < Min(left)
            \/ /\ key = Min(left)
               /\ \E g \in S : g.firstKey = key /\ g.lastKey = key
               /\ \A g \in rest : g.firstKey # key

\* An iteration of the loop for one of the keys: it removes what holds the key and what
\* the keys up to the ones that are left hold.
LEMMA OneIteration ==
    ASSUME NEW n \in Nat, NEW S, IsGapSetOf(S, n), NEW keys \in SUBSET (1..n), NEW key \in keys,
           NEW left, left = KeysLeft(S, keys, key),
           NEW rest, rest = S \ RemovedAround(S, keys, key)
    PROVE  Iterated(S, keys, key, left, rest)
<1> USE DEF Iterated
<1> DEFINE closest == {g \in LastBefore(S, key) : key <= g.lastKey}
           others  == S \ closest
           next    == FirstFrom(others, key)
           from    == {k \in keys : key <= k}
<1>0. \A g \in S : IsGap(g, n)
  BY DEF IsGapSetOf
<1>00. key \in Int /\ \A k \in keys : k \in Int
  OBVIOUS
<1>1. closest = {g \in S : g.firstKey < key /\ key <= g.lastKey}
  <2>1. ASSUME NEW g \in S, g.firstKey < key, key <= g.lastKey
        PROVE  g \in LastBefore(S, key)
    <3>1. ASSUME NEW h \in S, h.firstKey < key
          PROVE  h.firstKey <= g.firstKey
      <4>1. SUFFICES ASSUME ~(h.firstKey <= g.firstKey) PROVE FALSE
        OBVIOUS
      <4>2. g.lastKey <= h.firstKey
        BY <4>1, <1>0, GapsFollow DEF IsGap
      <4>3. QED
        BY <4>2, <2>1, <3>1, <1>0 DEF IsGap
    <3>2. QED
      BY <2>1, <3>1 DEF LastBefore, LastGap
  <2>2. QED
    BY <2>1 DEF LastBefore, LastGap
<1>2. left = IF next = {} THEN {} ELSE {k \in keys : k >= The(next).lastKey}
  BY DEF KeysLeft
<1>3. rest = S \ (closest \cup {g \in next : Max({k \in keys : k <= g.lastKey}) >= g.firstKey})
  BY DEF RemovedAround
<1>4. IsGapSetOf(others, n)
  BY DEF IsGapSetOf, Chained, Distinct
<1>5. ASSUME NEW g \in S, g.firstKey < key, NEW k \in from, Holds(g, k)
      PROVE  g \in closest
  BY <1>0, <1>1, <1>5 DEF Holds, IsGap
<1>6. ASSUME NEW g \in closest
      PROVE  key \in from /\ Holds(g, key)
  <2>1. g.firstKey <= key /\ key <= g.lastKey /\ key <= key
    BY <1>00, <1>0, <1>1 DEF IsGap
  <2>2. QED
    BY <2>1 DEF Holds
<1>9. others \subseteq S /\ (\A g \in S : g \in others <=> g \notin closest)
  OBVIOUS
<1> HIDE DEF others
<1>7. CASE next = {}
  <2>1. left = {} /\ rest = S \ closest
    BY <1>2, <1>3, <1>7
  <2>2. \A g \in others : g.firstKey < key
    BY <1>4, <1>7, FirstFromFacts
  <2> HIDE DEF closest
  <2>3. \A g \in S : g \in closest \/ g.firstKey < key
    BY <1>9, <2>2
  <2>4. rest = Spared(S, from)
    BY <2>1, <2>3, <1>5, <1>6 DEF Spared
  <2>5. QED
    BY <2>1, <2>4
<1>8. CASE next # {}
  <2>1. PICK x \in next : TRUE
    BY <1>8
  <2>2. /\ x \in others /\ key <= x.firstKey /\ next = {x}
        /\ \A h \in others : key <= h.firstKey => x.firstKey <= h.firstKey
    BY <2>1, <1>4, FirstFromFacts
  <2>3. The(next) = x
    BY <2>2 DEF The
  <2>4. IsGap(x, n) /\ x \in S
    BY <2>2, <1>0, <1>9
  <2>5. left = {k \in keys : k >= x.lastKey}
    BY <1>2, <1>8, <2>3
  <2> DEFINE upTo == {k \in keys : k <= x.lastKey}
  <2>17. key <= x.lastKey
    BY <1>00, <2>2, <2>4 DEF IsGap
  <2>6. key \in upTo /\ upTo \in SUBSET (1..n)
    BY <2>17
  <2>7. Max(upTo) \in upTo /\ \A k \in upTo : k <= Max(upTo)
    BY <2>6, LastOfKeys
  <2>8. Max(upTo) >= x.firstKey <=> \E k \in keys : Holds(x, k)
    <3>1. ASSUME Max(upTo) >= x.firstKey
          PROVE  \E k \in keys : Holds(x, k)
      BY <2>7, <3>1 DEF Holds
    <3>2. ASSUME NEW k \in keys, Holds(x, k)
          PROVE  Max(upTo) >= x.firstKey
      <4>1. k <= Max(upTo) /\ x.firstKey <= k
        <5>1. k \in upTo /\ x.firstKey <= k
          BY <3>2 DEF Holds
        <5> HIDE DEF upTo
        <5>2. QED
          BY <5>1, <2>7
      <4>4. Max(upTo) \in keys
        BY <2>7
      <4> HIDE DEF upTo
      <4>5. x.firstKey \in Int
        BY <2>4 DEF IsGap
      <4>2. k \in Int /\ Max(upTo) \in Int /\ x.firstKey \in Int
        BY <1>00, <4>4, <4>5
      <4>3. QED
        BY <4>1, <4>2
    <3>3. QED
      BY <3>1, <3>2
  <2>9. \A g \in S : g \in rest <=> g \notin closest /\ ~(g = x /\ \E k \in keys : Holds(x, k))
    <3>1. {g \in next : Max({k \in keys : k <= g.lastKey}) >= g.firstKey}
              = {g \in {x} : Max({k \in keys : k <= g.lastKey}) >= g.firstKey}
      BY <2>2
    <3>2. \A g : g \in {h \in {x} : Max({k \in keys : k <= h.lastKey}) >= h.firstKey}
                   <=> g = x /\ Max(upTo) >= x.firstKey
      OBVIOUS
    <3>3. QED
      BY <3>1, <3>2, <2>8, <1>3
  <2>10. rest \subseteq S
    BY <1>3
  <2>11. ASSUME NEW g \in S, g \notin closest, g # x, key <= g.firstKey
         PROVE  x.lastKey <= g.firstKey /\ x.firstKey < g.firstKey
    BY <1>9, <2>2, <2>4, <2>11, GapsFollow
  <2> HIDE DEF closest, next, upTo
  <2>12. ASSUME NEW k \in keys, NEW g \in S, Holds(g, k), key <= k, g \in rest
         PROVE  x.lastKey <= k
    <3>1. g \notin closest /\ g # x
      BY <2>9, <2>12
    <3>2. ~(g.firstKey < key)
      BY <1>5, <2>12, <3>1
    <3>3. key <= g.firstKey
      BY <3>2, <1>0 DEF IsGap
    <3>4. x.lastKey <= g.firstKey
      BY <3>1, <3>3, <2>11
    <3>5. QED
      BY <3>4, <2>12, <2>4, <1>0 DEF Holds, IsGap
  <2>13. ASSUME NEW g \in S, \A k \in from : ~Holds(g, k)
         PROVE  g \in rest
    <3>1. g \notin closest
      BY <1>6, <2>13
    <3>2. ASSUME g = x, NEW k \in keys, Holds(x, k)
          PROVE  FALSE
      <4>1. key <= k
        BY <2>2, <2>4, <3>2 DEF Holds, IsGap
      <4>2. QED
        BY <4>1, <3>2, <2>13
    <3>3. QED
      BY <3>1, <3>2, <2>9
  <2>14. CASE left = {}
    <3>1. ASSUME NEW g \in rest, NEW k \in from
          PROVE  ~Holds(g, k)
      <4>1. SUFFICES ASSUME Holds(g, k) PROVE FALSE
        OBVIOUS
      <4>2. x.lastKey <= k
        BY <4>1, <2>10, <2>12
      <4>3. k \in left
        BY <4>2, <2>4, <2>5 DEF IsGap
      <4>4. QED
        BY <4>3, <2>14
    <3>2. rest = Spared(S, from)
      BY <3>1, <2>10, <2>13 DEF Spared
    <3>3. QED
      BY <3>2, <2>14
  <2>15. CASE left # {}
    <3>1. left \in SUBSET (1..n) /\ left \subseteq keys
      BY <2>5
    <3>2. PICK m : m = Min(left)
      OBVIOUS
    <3>3. m \in left /\ \A k \in left : m <= k
      BY <3>1, <3>2, <2>15, FirstOfKeys
    <3>4. m \in Int /\ x.lastKey <= m /\ key <= m
      BY <3>1, <3>3, <2>2, <2>4, <2>5 DEF IsGap
    <3>5. \A k \in keys : m <= k <=> x.lastKey <= k
      BY <3>3, <3>4, <2>4, <2>5 DEF IsGap
    <3>6. Spared(rest, {k \in keys : m <= k}) = Spared(S, from)
      <4>1. ASSUME NEW g \in rest, \A k \in {j \in keys : m <= j} : ~Holds(g, k), NEW k \in from
            PROVE  ~Holds(g, k)
        BY <4>1, <3>5, <2>10, <2>12
      <4>2. ASSUME NEW g \in S, \A k \in from : ~Holds(g, k)
            PROVE  g \in rest /\ \A k \in {j \in keys : m <= j} : ~Holds(g, k)
        <5>1. g \in rest
          BY <4>2, <2>13
        <5>2. \A k \in keys : m <= k => key <= k
          BY <3>4
        <5>3. QED
          BY <5>1, <5>2, <4>2
      <4>3. QED
        BY <4>1, <4>2, <2>10 DEF Spared
    <3>7. CASE key < m
      BY <3>1, <3>2, <3>6, <3>7, <2>15
    <3>8. CASE ~(key < m)
      <4>1. key = m /\ x.firstKey = key /\ x.lastKey = key
        BY <3>4, <3>8, <2>2, <2>4 DEF IsGap
      <4>2. Holds(x, key)
        BY <4>1, <2>4 DEF Holds, IsGap
      <4>3. \A g \in rest : g.firstKey # key
        BY <4>1, <4>2, <2>4, <2>9, <2>10 DEF IsGapSetOf, Distinct
      <4>4. QED
        BY <4>1, <4>3, <3>1, <3>2, <3>6, <2>4, <2>15
    <3>9. QED
      BY <3>7, <3>8
  <2>16. QED
    BY <2>5, <2>14, <2>15
<1>10. QED
  BY <1>7, <1>8

\* What the loop returns is defined by recursion; the function that spares the right gaps
\* satisfies its equation, and no other function does: a first key at which another one
\* would differ leads to a later one.
LEMMA RemovalSpares ==
    ASSUME NEW n \in Nat, NEW S, IsGapSetOf(S, n), NEW keys \in SUBSET (1..n)
    PROVE  RemoveOverlapping(S, keys) = Spared(S, keys)
<1> DEFINE D == (SUBSET keys) \X (SUBSET S)
           After(left, gs) == <<KeysLeft(gs, keys, Min(left)), gs \ RemovedAround(gs, keys, Min(left))>>
           Loop(f) == [at \in D |-> IF at[1] = {} THEN at[2] ELSE f[After(at[1], at[2])]]
           From(left) == {k \in keys : Min(left) <= k}
           spares == [at \in D |-> IF at[1] = {} THEN at[2] ELSE Spared(at[2], From(at[1]))]
           removing == CHOOSE f : f = Loop(f)
<1>1. RemoveOverlapping(S, keys) = removing[<<keys, S>>]
  BY Zenon DEF RemoveOverlapping
<1>2. ASSUME NEW left \in SUBSET keys, left # {}, NEW gs \in SUBSET S
      PROVE  LET l == After(left, gs)[1]
                 r == After(left, gs)[2]
             IN  /\ Min(left) \in left /\ Min(left) \in 1..n
                 /\ l \in SUBSET keys /\ r \in SUBSET gs
                 /\ l = {} => r = Spared(gs, From(left))
                 /\ l # {} => /\ Spared(r, From(l)) = Spared(gs, From(left))
                              /\ \/ Min(left) < Min(l)
                                 \/ /\ Min(left) = Min(l)
                                    /\ \E g \in gs : g.firstKey = Min(left) /\ g.lastKey = Min(left)
                                    /\ \A g \in r : g.firstKey # Min(left)
  <2>1. PICK key : key = Min(left)
    OBVIOUS
  <2>2. key \in left /\ key \in keys /\ key \in 1..n
    BY <2>1, <1>2, FirstOfKeys
  <2>3. IsGapSetOf(gs, n)
    BY DEF IsGapSetOf, Chained, Distinct
  <2>4. PICK l : l = KeysLeft(gs, keys, key)
    OBVIOUS
  <2>5. PICK r : r = gs \ RemovedAround(gs, keys, key)
    OBVIOUS
  <2>6. /\ l \in SUBSET keys
        /\ l = {} => r = Spared(gs, {k \in keys : key <= k})
        /\ l # {} =>
             /\ Spared(r, {k \in keys : Min(l) <= k}) = Spared(gs, {k \in keys : key <= k})
             /\ \/ key < Min(l)
                \/ /\ key = Min(l)
                   /\ \E g \in gs : g.firstKey = key /\ g.lastKey = key
                   /\ \A g \in r : g.firstKey # key
    <3>1. Iterated(gs, keys, key, l, r)
      BY <2>2, <2>3, <2>4, <2>5, OneIteration
    <3>2. QED
      BY <3>1 DEF Iterated
  <2>7. After(left, gs)[1] = l /\ After(left, gs)[2] = r /\ r \in SUBSET gs
    BY <2>1, <2>4, <2>5
  <2> HIDE DEF After
  <2>8. QED
    BY <2>1, <2>2, <2>6, <2>7
<1>3. ASSUME NEW left \in SUBSET keys, left # {}, NEW gs \in SUBSET S
      PROVE  /\ After(left, gs) \in D
             /\ spares[<<left, gs>>] = spares[After(left, gs)]
  <2> DEFINE l == After(left, gs)[1]
             r == After(left, gs)[2]
  <2>1. /\ l \in SUBSET keys /\ r \in SUBSET S
        /\ l = {} => r = Spared(gs, From(left))
        /\ l # {} => Spared(r, From(l)) = Spared(gs, From(left))
    <3> HIDE DEF After, From, D, Loop, spares, removing
    <3>1. QED
      BY <1>2, <1>3
  <2>2. After(left, gs) = <<l, r>>
    <3> DEFINE x == KeysLeft(gs, keys, Min(left))
               y == gs \ RemovedAround(gs, keys, Min(left))
    <3>1. After(left, gs) = <<x, y>>
      OBVIOUS
    <3> HIDE DEF After, x, y
    <3>2. After(left, gs)[1] = x /\ After(left, gs)[2] = y
      BY <3>1
    <3>3. QED
      BY <3>1, <3>2
  <2> HIDE DEF l, r
  <2>3. <<l, r>> \in D /\ <<left, gs>> \in D
    BY <2>1
  <2>4. spares[<<left, gs>>] = Spared(gs, From(left))
    BY <2>3, <1>3
  <2>5. spares[<<l, r>>] = IF l = {} THEN r ELSE Spared(r, From(l))
    BY <2>3
  <2> HIDE DEF spares, D, After, From
  <2>6. CASE l = {}
    BY <2>1, <2>2, <2>3, <2>4, <2>5, <2>6
  <2>7. CASE l # {}
    BY <2>1, <2>2, <2>3, <2>4, <2>5, <2>7
  <2>8. QED
    BY <2>6, <2>7
<1>4. spares = Loop(spares)
  <2>1. ASSUME NEW at \in D
        PROVE  spares[at] = IF at[1] = {} THEN at[2] ELSE spares[After(at[1], at[2])]
    <3>1. at[1] \in SUBSET keys /\ at[2] \in SUBSET S /\ at = <<at[1], at[2]>>
      OBVIOUS
    <3>2. CASE at[1] = {}
      BY <3>2
    <3>3. CASE at[1] # {}
      <4>1. spares[<<at[1], at[2]>>] = spares[After(at[1], at[2])]
        BY <3>1, <3>3, <1>3
      <4> HIDE DEF spares, After
      <4>2. QED
        BY <3>1, <3>3, <4>1
    <3>4. QED
      BY <3>2, <3>3
  <2>2. spares = [at \in D |-> spares[at]]
    OBVIOUS
  <2> HIDE DEF spares, After, D
  <2>3. QED
    BY <2>1, <2>2
<1>5. removing = Loop(removing)
  <2>1. \E f : f = Loop(f)
    BY <1>4
  <2> HIDE DEF Loop
  <2>2. QED
    BY <2>1
<1>6. ASSUME NEW left \in SUBSET keys, left # {}, NEW gs \in SUBSET S
      PROVE  removing[<<left, gs>>] = removing[After(left, gs)]
  <2>1. <<left, gs>> \in D
    OBVIOUS
  <2> HIDE DEF removing, After, D
  <2>2. removing[<<left, gs>>] = Loop(removing)[<<left, gs>>]
    BY <1>5
  <2>3. QED
    BY <2>1, <2>2, <1>6
<1>7. ASSUME NEW gs \in SUBSET S
      PROVE  removing[<<{}, gs>>] = gs /\ spares[<<{}, gs>>] = gs
  <2>1. <<{}, gs>> \in D
    OBVIOUS
  <2>2. spares[<<{}, gs>>] = gs
    BY <2>1
  <2> HIDE DEF removing, spares, After, D
  <2>3. removing[<<{}, gs>>] = Loop(removing)[<<{}, gs>>]
    BY <1>5
  <2>4. QED
    BY <2>1, <2>2, <2>3
<1> HIDE DEF removing, spares, Loop
<1> DEFINE Differ(left, gs) == /\ left \in SUBSET keys /\ left # {} /\ gs \in SUBSET S
                               /\ removing[<<left, gs>>] # spares[<<left, gs>>]
           K == {m \in 1..n : \E left, gs : Differ(left, gs) /\ m = Min(left)}
\* Where they differ, they differ after the iteration too.
<1>8. ASSUME NEW left, NEW gs, Differ(left, gs)
      PROVE  \E l, r : /\ Differ(l, r) /\ Min(l) \in K /\ Min(left) \in K
                       /\ \/ Min(left) < Min(l)
                          \/ /\ Min(left) = Min(l)
                             /\ \E g \in gs : g.firstKey = Min(left) /\ g.lastKey = Min(left)
                             /\ \A g \in r : g.firstKey # Min(left)
  <2>1. PICK l, r : l = After(left, gs)[1] /\ r = After(left, gs)[2]
    OBVIOUS
  <2>2. /\ Min(left) \in left /\ Min(left) \in 1..n
        /\ l \in SUBSET keys /\ r \in SUBSET gs
        /\ l # {} => \/ Min(left) < Min(l)
                     \/ /\ Min(left) = Min(l)
                        /\ \E g \in gs : g.firstKey = Min(left) /\ g.lastKey = Min(left)
                        /\ \A g \in r : g.firstKey # Min(left)
    BY <2>1, <1>2, <1>8
  <2>3. After(left, gs) = <<l, r>>
    BY <2>1
  <2> HIDE DEF After
  <2>4. removing[<<l, r>>] # spares[<<l, r>>]
    BY <2>3, <1>3, <1>6, <1>8
  <2>5. r \in SUBSET S
    BY <2>2, <1>8
  <2>6. l # {}
    BY <2>4, <2>5, <1>7
  <2>7. Differ(l, r)
    BY <2>2, <2>4, <2>5, <2>6
  <2>8. Min(l) \in 1..n
    BY <2>2, <2>6, FirstOfKeys
  <2>9. Min(l) \in K /\ Min(left) \in K
    BY <2>2, <2>7, <2>8, <1>8
  <2> HIDE DEF Differ, K
  <2>10. QED
    BY <2>2, <2>6, <2>7, <2>9
<1>9. ASSUME NEW left, NEW gs, Differ(left, gs)
      PROVE  FALSE
  <2>1. K # {} /\ K \in SUBSET (1..n)
    BY <1>8, <1>9
  <2>2. PICK m : m = Max(K)
    OBVIOUS
  <2>3. m \in K /\ \A k \in K : k <= m
    BY <2>1, <2>2, LastOfKeys
  <2>4. \A k \in K : k \in Int
    OBVIOUS
  <2>5. PICK a, s : Differ(a, s) /\ m = Min(a)
    BY <2>3
  <2> HIDE DEF Differ, K
  <2>6. PICK b, t : /\ Differ(b, t) /\ Min(b) \in K
                    /\ Min(a) < Min(b) \/ (Min(a) = Min(b) /\ \A g \in t : g.firstKey # Min(a))
    BY <2>5, <1>8
  <2>7. Min(b) = m /\ \A g \in t : g.firstKey # m
    BY <2>3, <2>4, <2>5, <2>6
  <2>8. PICK c, u : /\ Differ(c, u) /\ Min(c) \in K
                    /\ Min(b) < Min(c) \/ \E g \in t : g.firstKey = Min(b)
    BY <2>6, <1>8
  <2>9. QED
    BY <2>3, <2>4, <2>7, <2>8
<1>10. CASE keys = {}
  <2>1. removing[<<keys, S>>] = S
    BY <1>7, <1>10
  <2>2. QED
    BY <2>1, <1>1, <1>10 DEF Spared
<1>11. CASE keys # {}
  <2>1. removing[<<keys, S>>] = spares[<<keys, S>>]
    BY <1>9, <1>11
  <2>2. <<keys, S>> \in D /\ From(keys) = keys
    BY <1>11, FirstOfKeys
  <2>3. spares[<<keys, S>>] = Spared(S, keys)
    BY <2>2, <1>11 DEF spares
  <2>4. QED
    BY <2>1, <2>3, <1>1
<1>12. QED
  BY <1>10, <1>11

-----------------------------------------------------------------------------
(* The gap cache.                                                          *)

\* The live keys that a gap must not cover: their writers have called
\* removeOverlappingGaps().
Settled == live \ uninvalidated

\* The keys that the next two rotations remove from the new gaps.
Updated == staging.updatedKeys \cup frozen.updatedKeys

\* The variables are what they are declared to be.
CacheShape ==
    /\ GcTypeOK
    /\ staging = [newGaps |-> staging.newGaps, updatedKeys |-> staging.updatedKeys]
    /\ frozen = [newGaps |-> frozen.newGaps, updatedKeys |-> frozen.updatedKeys]
    /\ lookup = [l \in Lookups |-> [gap |-> lookup[l].gap, done |-> lookup[l].done]]
    /\ liveSince = [l \in Lookups |-> liveSince[l]]

\* The gaps of each set follow each other.
GapsFollowEachOther ==
    /\ IsGapSetOf(staging.newGaps, MaxKey)
    /\ IsGapSetOf(frozen.newGaps, MaxKey)
    /\ IsGapSetOf(exposed, MaxKey)

\* A new gap may cover a settled key, but the rotation that is to expose it knows the key.
NewGapsAreInvalidated ==
    \A g \in staging.newGaps \cup frozen.newGaps : \A key \in Settled :
        Covers(g, key) => key \in Updated

\* A settled key that a listing has not seen is known as long as the listing may call
\* setGap(): to one of the next two rotations, and to the second if the listing began
\* after the last one.
ListingsAreInvalidated ==
    \A b \in Listings : \A key \in Settled \ building[b].seen :
        building[b].age < exposureDelayMs =>
            /\ key \in Updated
            /\ building[b].age < rotationAge => key \in staging.updatedKeys

\* What a lookup must not pass is settled.
LookupsSeeSettled == \A l \in Lookups : liveSince[l] \subseteq Settled

\* The inductive invariant.
GapCacheInv ==
    /\ CacheShape
    /\ GapsFollowEachOther
    /\ ExposedGapsAreSkippable
    /\ NewGapsAreInvalidated
    /\ ListingsAreInvalidated
    /\ LookupsSeeSettled
    /\ LookupsAreFresh
----------------------------------------------------------------------------
(* The operators of the cache.                                             *)

\* The longest delay is one of the delays.
LEMMA LongestDelayFacts ==
    /\ LongestDelay \in Nat \ {0} /\ LongestDelay \in Delays
    /\ \A delay \in Delays : delay \in Nat \ {0} /\ delay <= LongestDelay
<1>1. \A delay \in Delays : delay \in Nat \ {0}
  BY GapCacheAssumption
<1>2. \E longest \in Delays : \A delay \in Delays : longest >= delay
  BY <1>1, GapCacheAssumption
<1>3. LongestDelay \in Delays /\ \A delay \in Delays : LongestDelay >= delay
  BY <1>2 DEF LongestDelay, Max
<1>4. QED
  BY <1>1, <1>3

\* A part of a set of gaps is one.
LEMMA PartIsGapSet ==
    ASSUME NEW n \in Nat, NEW S, IsGapSetOf(S, n), NEW T, T \subseteq S
    PROVE  IsGapSetOf(T, n)
  BY DEF IsGapSetOf, Chained, Distinct

\* What the removal of keys leaves.
LEMMA RemovalLeaves ==
    ASSUME NEW S, IsGapSetOf(S, MaxKey), NEW keys \in SUBSET CacheKeys,
           NEW T, T = RemoveOverlapping(S, keys)
    PROVE  /\ T \subseteq S /\ IsGapSetOf(T, MaxKey)
           /\ \A g \in T : \A key \in keys : ~Covers(g, key)
<1>1. MaxKey \in Nat /\ keys \in SUBSET (1..MaxKey)
  BY GapCacheAssumption DEF CacheKeys
<1>2. T = Spared(S, keys)
  BY <1>1, RemovalSpares
<1>3. T \subseteq S /\ \A g \in T : \A key \in keys : ~Covers(g, key)
  BY <1>2 DEF Spared, Holds, Covers
<1>4. QED
  BY <1>1, <1>3, PartIsGapSet

\* What the exposure makes, at a key, of the set so far.
StepAt(fresh, key, into) ==
    LET here == {g \in fresh : g.firstKey = key}
    IN  IF here # {} /\ Cardinality(into) < maxGaps
        THEN SetGap(into, key, The(here).lastKey, The(here).weight, MaxGapWeight)
        ELSE into

\* The exposure of gaps is a sequence of such steps, one for each key. The function that
\* the recursion defines exists: there is no first key up to which none exists.
LEMMA ExposedBySteps ==
    ASSUME NEW fresh
    PROVE  \E upTo : /\ upTo[0] = exposed
                     /\ \A key \in 1..MaxKey : upTo[key] = StepAt(fresh, key, upTo[key - 1])
                     /\ Exposed(fresh) = upTo[MaxKey]
<1> DEFINE Of(m, f) == [key \in 0..m |-> IF key = 0 THEN exposed
                                         ELSE StepAt(fresh, key, f[key - 1])]
           T == {m \in 0..MaxKey : ~ \E f : f = Of(m, f)}
           upTo == CHOOSE f : f = Of(MaxKey, f)
<1>0. MaxKey \in Nat
  BY GapCacheAssumption
<1>1. Exposed(fresh) = upTo[MaxKey]
  BY Zenon DEF Exposed, StepAt
<1>2. T = {}
  <2>1. SUFFICES ASSUME T # {} PROVE FALSE
    OBVIOUS
  <2>2. PICK m \in T : \A i \in T : m <= i
    <3>1. T \in SUBSET Nat
      BY <1>0
    <3> HIDE DEF T
    <3>2. QED
      BY <2>1, <3>1, LeastNumber
  <2>3. m \in Nat /\ m <= MaxKey
    BY <1>0
  <2>4. \A f : f # Of(m, f)
    OBVIOUS
  <2>5. CASE m = 0
    <3> DEFINE f == [key \in 0..0 |-> exposed]
    <3>1. f = Of(m, f)
      BY <2>5
    <3>2. QED
      BY <2>4, <3>1
  <2>6. CASE m # 0
    <3>1. m - 1 \in 0..MaxKey /\ ~ (m <= m - 1)
      BY <1>0, <2>3, <2>6
    <3>2. PICK f : f = Of(m - 1, f)
      BY <2>2, <3>1
    <3> DEFINE h == [key \in 0..m |-> IF key = m THEN StepAt(fresh, m, f[m - 1]) ELSE f[key]]
    <3>3. \A key \in 0..(m - 1) : f[key] = IF key = 0 THEN exposed
                                           ELSE StepAt(fresh, key, f[key - 1])
      BY <3>2
    <3>4. \A key \in 0..m : h[key] = IF key = 0 THEN exposed ELSE StepAt(fresh, key, h[key - 1])
      <4>1. ASSUME NEW key \in 0..m
            PROVE  h[key] = IF key = 0 THEN exposed ELSE StepAt(fresh, key, h[key - 1])
        <5>1. CASE key = m
          <6>1. h[key] = StepAt(fresh, m, f[m - 1])
            BY <5>1
          <6>2. h[key - 1] = f[m - 1]
            BY <2>3, <2>6, <5>1
          <6> HIDE DEF h
          <6>3. QED
            BY <5>1, <6>1, <6>2, <2>6
        <5>2. CASE key # m
          <6>1. key \in 0..(m - 1)
            BY <2>3, <5>2
          <6>2. h[key] = f[key]
            BY <5>2
          <6>3. key # 0 => h[key - 1] = f[key - 1]
            BY <2>3, <6>1
          <6> HIDE DEF h
          <6>4. QED
            BY <6>1, <6>2, <6>3, <3>3
        <5>3. QED
          BY <5>1, <5>2
      <4>2. QED
        BY <4>1
    <3>5. h = [key \in 0..m |-> h[key]]
      OBVIOUS
    <3> HIDE DEF h
    <3>6. h = Of(m, h)
      BY <3>4, <3>5
    <3>7. QED
      BY <2>4, <3>6
  <2>7. QED
    BY <2>5, <2>6
<1>3. \E f : f = Of(MaxKey, f)
  <2> HIDE DEF Of
  <2>1. QED
    BY <1>0, <1>2
<1>4. upTo = Of(MaxKey, upTo)
  <2> HIDE DEF Of
  <2>1. QED
    BY <1>3
<1> HIDE DEF upTo
<1>5. PICK f : f = upTo
  OBVIOUS
<1>6. f[0] = exposed
  BY <1>0, <1>4, <1>5
<1>7. \A key \in 1..MaxKey : f[key] = StepAt(fresh, key, f[key - 1])
  BY <1>0, <1>4, <1>5
<1>8. QED
  BY <1>1, <1>5, <1>6, <1>7

\* The exposure of gaps covers no key that neither they nor the exposed gaps cover.
LEMMA ExposureInventsNothing ==
    ASSUME NEW fresh, IsGapSetOf(fresh, MaxKey), IsGapSetOf(exposed, MaxKey),
           NEW T, T = Exposed(fresh)
    PROVE  /\ IsGapSetOf(T, MaxKey)
           /\ \A g \in T : \A key \in Int : Holds(g, key) =>
                \E h \in exposed \cup fresh : Holds(h, key)
<1> DEFINE Fits(S) == /\ IsGapSetOf(S, MaxKey)
                      /\ \A g \in S : \A key \in Int : Holds(g, key) =>
                           \E h \in exposed \cup fresh : Holds(h, key)
<1>0. MaxKey \in Nat
  BY GapCacheAssumption
<1>1. PICK upTo : /\ upTo[0] = exposed
                  /\ \A key \in 1..MaxKey : upTo[key] = StepAt(fresh, key, upTo[key - 1])
                  /\ Exposed(fresh) = upTo[MaxKey]
  BY ExposedBySteps
<1>2. Fits(upTo[0])
  BY <1>1
<1>3. ASSUME NEW key \in 1..MaxKey, NEW into, Fits(into)
      PROVE  Fits(StepAt(fresh, key, into))
  <2> DEFINE here == {g \in fresh : g.firstKey = key}
  <2>1. CASE here # {} /\ Cardinality(into) < maxGaps
    <3>1. PICK x : x = The(here)
      OBVIOUS
    <3>2. x \in here
      BY <2>1, <3>1, TheIsIn
    <3>3. IsGap(x, MaxKey) /\ x \in fresh /\ x.firstKey = key
      BY <3>2 DEF IsGapSetOf
    <3>4. x.lastKey \in 1..MaxKey /\ key <= x.lastKey
      BY <3>3 DEF IsGap
    <3>5. PICK last, weight, U : /\ last = x.lastKey /\ weight = x.weight
                                 /\ U = SetGap(into, key, last, weight, MaxGapWeight)
      OBVIOUS
    <3>6. StepAt(fresh, key, into) = U
      BY <2>1, <3>1, <3>5 DEF StepAt
    <3>7. IsGapSetOf(U, MaxKey)
      BY <1>0, <1>3, <3>4, <3>5, SetGapKeepsSet
    <3>8. ASSUME NEW g \in U, NEW k \in Int, Holds(g, k)
          PROVE  \E h \in exposed \cup fresh : Holds(h, k)
      <4>1. (key <= k /\ k <= last) \/ \E h \in into : Holds(h, k)
        BY <1>0, <1>3, <3>4, <3>5, <3>8, SetGapInventsNothing
      <4>2. CASE key <= k /\ k <= last
        BY <3>3, <3>5, <4>2 DEF Holds
      <4>3. CASE \E h \in into : Holds(h, k)
        BY <1>3, <4>3
      <4>4. QED
        BY <4>1, <4>2, <4>3
    <3>9. QED
      BY <3>6, <3>7, <3>8
  <2>2. CASE ~(here # {} /\ Cardinality(into) < maxGaps)
    <3>1. StepAt(fresh, key, into) = into
      BY <2>2 DEF StepAt
    <3>2. QED
      BY <1>3, <3>1
  <2>3. QED
    BY <2>1, <2>2
<1> HIDE DEF Fits
<1>4. \A m \in 0..MaxKey : Fits(upTo[m])
  <2> DEFINE Bad == {m \in 0..MaxKey : ~Fits(upTo[m])}
  <2>1. SUFFICES ASSUME Bad # {} PROVE FALSE
    OBVIOUS
  <2>2. Bad \in SUBSET Nat
    BY <1>0
  <2>3. PICK m \in Bad : \A i \in Bad : m <= i
    BY <2>1, <2>2, LeastNumber
  <2>4. m \in 1..MaxKey
    BY <1>0, <1>2
  <2>5. Fits(upTo[m - 1])
    BY <1>0, <2>3, <2>4
  <2>6. upTo[m] = StepAt(fresh, m, upTo[m - 1])
    BY <1>1, <2>4
  <2>7. QED
    BY <1>3, <2>4, <2>5, <2>6
<1>5. Fits(T)
  BY <1>0, <1>1, <1>4
<1>6. QED
  BY <1>5 DEF Fits
----------------------------------------------------------------------------
(* The steps.                                                              *)

\* Initially the sets are empty, and no listing may call setGap().
LEMMA CacheInitially == GcInit => GapCacheInv
<1> SUFFICES ASSUME GcInit PROVE GapCacheInv
  OBVIOUS
<1>1. /\ staging = NoUpdates /\ frozen = NoUpdates /\ exposed = {}
      /\ exposureDelayMs \in Delays /\ maxGaps \in GapLimits
      /\ rotationAge = 0
      /\ live = LiveAtFirst /\ uninvalidated = {}
      /\ building = [b \in Listings |-> NoListing]
      /\ lookup = [l \in Lookups |-> NoLookup]
      /\ liveSince = [l \in Lookups |-> {}]
  BY DEF GcInit
<1>2. /\ staging = [newGaps |-> staging.newGaps, updatedKeys |-> staging.updatedKeys]
      /\ frozen = [newGaps |-> frozen.newGaps, updatedKeys |-> frozen.updatedKeys]
      /\ staging.newGaps = {} /\ frozen.newGaps = {}
      /\ staging.updatedKeys = {} /\ frozen.updatedKeys = {}
  BY <1>1 DEF NoUpdates
<1>3. GcTypeOK
  <2>1. rotationAge \in 0..LongestDelay /\ LongestDelay \in 0..LongestDelay
    BY <1>1, LongestDelayFacts
  <2>2. building \in [Listings -> [seen : SUBSET CacheKeys, age : 0..LongestDelay]]
    BY <1>1, <2>1 DEF NoListing
  <2>3. live \subseteq CacheKeys /\ uninvalidated \subseteq CacheKeys
    BY <1>1, GapCacheAssumption DEF CacheKeys
  <2>4. QED
    BY <1>1, <1>2, <2>1, <2>2, <2>3 DEF GcTypeOK, IsGapSet
<1>4. CacheShape
  <2>1. /\ lookup = [l \in Lookups |-> [gap |-> lookup[l].gap, done |-> lookup[l].done]]
        /\ liveSince = [l \in Lookups |-> liveSince[l]]
    BY <1>1 DEF NoLookup
  <2>2. QED
    BY <1>2, <1>3, <2>1 DEF CacheShape
<1>5. GapsFollowEachOther
  BY <1>1, <1>2 DEF GapsFollowEachOther, IsGapSetOf, Chained, Distinct
<1>6. ExposedGapsAreSkippable /\ NewGapsAreInvalidated
  BY <1>1, <1>2 DEF ExposedGapsAreSkippable, NewGapsAreInvalidated
<1>7. ListingsAreInvalidated
  <2>1. ~ (LongestDelay < exposureDelayMs)
    BY <1>1, LongestDelayFacts
  <2>2. \A b \in Listings : building[b].age = LongestDelay
    BY <1>1 DEF NoListing
  <2>3. QED
    BY <2>1, <2>2 DEF ListingsAreInvalidated
<1>8. LookupsSeeSettled /\ LookupsAreFresh
  BY <1>1 DEF LookupsSeeSettled, LookupsAreFresh
<1>9. QED
  BY <1>4, <1>5, <1>6, <1>7, <1>8 DEF GapCacheInv

\* A set of gaps that follow each other is one of the gaps of the type invariant.
LEMMA GapSetIsTyped == \A S : IsGapSetOf(S, MaxKey) => IsGapSet(S)
  BY DEF IsGapSetOf, IsGap, IsGapSet, CacheKeys

\* A listing that starts has seen what is settled.
LEMMA StartListingStep ==
    ASSUME GapCacheInv, NEW b \in Listings, StartListing(b)
    PROVE  GapCacheInv'
<1>1. /\ building' = [building EXCEPT ![b] = [seen |-> live, age |-> 0]]
      /\ UNCHANGED <<cacheSets, exposureDelayMs, maxGaps, rotationAge, live, uninvalidated, lookups>>
  BY DEF StartListing
<1>2. /\ UNCHANGED <<staging, frozen, exposed, exposureDelayMs, maxGaps, rotationAge>>
      /\ UNCHANGED <<live, uninvalidated, lookup, liveSince>>
      /\ Settled' = Settled /\ Updated' = Updated
  BY <1>1 DEF cacheSets, lookups, Settled, Updated
<1>3. CacheShape'
  <2>1. live \in SUBSET CacheKeys /\ 0 \in 0..LongestDelay
    BY LongestDelayFacts DEF GapCacheInv, CacheShape, GcTypeOK
  <2>2. building' \in [Listings -> [seen : SUBSET CacheKeys, age : 0..LongestDelay]]
    BY <1>1, <2>1 DEF GapCacheInv, CacheShape, GcTypeOK
  <2>3. QED
    BY <1>2, <2>2 DEF GapCacheInv, CacheShape, GcTypeOK, IsGapSet
<1>4. GapsFollowEachOther' /\ ExposedGapsAreSkippable' /\ NewGapsAreInvalidated'
  BY <1>2 DEF GapCacheInv, GapsFollowEachOther, ExposedGapsAreSkippable, NewGapsAreInvalidated
<1>5. ListingsAreInvalidated'
  <2>1. \A c \in Listings : c # b => building'[c] = building[c]
    BY <1>1 DEF GapCacheInv, CacheShape, GcTypeOK
  <2>2. building'[b].seen = live
    BY <1>1 DEF GapCacheInv, CacheShape, GcTypeOK
  <2>3. Settled' \ building'[b].seen = {}
    BY <1>2, <2>2 DEF Settled
  <2>4. QED
    BY <1>2, <2>1, <2>3 DEF GapCacheInv, ListingsAreInvalidated
<1>6. LookupsSeeSettled' /\ LookupsAreFresh'
  BY <1>2 DEF GapCacheInv, LookupsSeeSettled, LookupsAreFresh
<1>7. QED
  BY <1>3, <1>4, <1>5, <1>6 DEF GapCacheInv

\* What a listing has not seen in the range of its gap is known to the next rotations.
LEMMA SaveGapStep ==
    ASSUME GapCacheInv, NEW b \in Listings, NEW firstKey \in CacheKeys, NEW lastKey \in CacheKeys,
           NEW weight, SaveGap(b, firstKey, lastKey, weight)
    PROVE  GapCacheInv'
<1>0. MaxKey \in Nat
  BY GapCacheAssumption
<1>1. /\ building[b].age < exposureDelayMs
      /\ firstKey <= lastKey
      /\ (firstKey .. lastKey) \cap building[b].seen = {}
      /\ staging' = SaveInto(staging, firstKey, lastKey, weight)
      /\ UNCHANGED <<frozen, exposed, exposureDelayMs, maxGaps, rotationAge>>
      /\ UNCHANGED <<live, uninvalidated, building, lookup, liveSince>>
  BY DEF SaveGap, outside, lookups
<1>2. PICK S : S = SetGap(staging.newGaps, firstKey, lastKey, weight, MaxGapWeight)
  OBVIOUS
<1>3. staging' = [newGaps |-> S, updatedKeys |-> staging.updatedKeys]
  <2>1. staging' = [staging EXCEPT !.newGaps = S]
    BY <1>1, <1>2 DEF SaveInto
  <2>2. QED
    BY <2>1 DEF GapCacheInv, CacheShape
<1>4. staging'.newGaps = S /\ staging'.updatedKeys = staging.updatedKeys
  BY <1>3
<1>5. Settled' = Settled /\ Updated' = Updated
  BY <1>1, <1>4 DEF Settled, Updated
<1>6. firstKey \in 1..MaxKey /\ lastKey \in 1..MaxKey /\ IsGapSetOf(staging.newGaps, MaxKey)
  BY DEF CacheKeys, GapCacheInv, GapsFollowEachOther
<1>7. IsGapSetOf(S, MaxKey)
  BY <1>0, <1>1, <1>2, <1>6, SetGapKeepsSet
<1>8. CacheShape'
  BY <1>1, <1>3, <1>4, <1>7, GapSetIsTyped DEF GapCacheInv, CacheShape, GcTypeOK, IsGapSet
<1>9. GapsFollowEachOther' /\ ExposedGapsAreSkippable' /\ ListingsAreInvalidated'
  BY <1>1, <1>4, <1>5, <1>7
     DEF GapCacheInv, GapsFollowEachOther, ExposedGapsAreSkippable, ListingsAreInvalidated
<1>10. NewGapsAreInvalidated'
  <2>1. SUFFICES ASSUME NEW g \in S, NEW key \in Settled, Covers(g, key)
                 PROVE  key \in Updated
    BY <1>1, <1>4, <1>5 DEF NewGapsAreInvalidated, GapCacheInv
  <2>2. key \in Int /\ Holds(g, key)
    BY <2>1 DEF Settled, GapCacheInv, CacheShape, GcTypeOK, CacheKeys, Covers, Holds
  <2>3. (firstKey <= key /\ key <= lastKey) \/ \E h \in staging.newGaps : Holds(h, key)
    BY <1>0, <1>1, <1>2, <1>6, <2>2, SetGapInventsNothing
  <2>4. CASE firstKey <= key /\ key <= lastKey
    <3>1. key \in firstKey .. lastKey
      BY <1>6, <2>2, <2>4
    <3>2. key \in Settled \ building[b].seen
      BY <1>1, <3>1
    <3>3. QED
      BY <1>1, <3>2 DEF GapCacheInv, ListingsAreInvalidated
  <2>5. CASE \E h \in staging.newGaps : Holds(h, key)
    BY <2>5 DEF GapCacheInv, NewGapsAreInvalidated, Holds, Covers
  <2>6. QED
    BY <2>3, <2>4, <2>5
<1>11. LookupsSeeSettled' /\ LookupsAreFresh'
  BY <1>1, <1>5 DEF GapCacheInv, LookupsSeeSettled, LookupsAreFresh
<1>12. QED
  BY <1>8, <1>9, <1>10, <1>11 DEF GapCacheInv
\* A key that becomes live is not settled.
LEMMA WriteStep ==
    ASSUME GapCacheInv, NEW key \in WrittenKeys, Write(key)
    PROVE  GapCacheInv'
<1>1. /\ key \notin live /\ live' = live \cup {key} /\ uninvalidated' = uninvalidated \cup {key}
      /\ UNCHANGED <<staging, frozen, exposed, exposureDelayMs, maxGaps, rotationAge>>
      /\ UNCHANGED <<building, lookup, liveSince>>
  BY DEF Write, cacheSets, lookups
<1>2. key \in CacheKeys
  BY GapCacheAssumption DEF CacheKeys
<1>3. Settled' = Settled /\ Updated' = Updated
  BY <1>1 DEF Settled, Updated
<1>4. CacheShape'
  BY <1>1, <1>2 DEF GapCacheInv, CacheShape, GcTypeOK, IsGapSet
<1>5. GapsFollowEachOther' /\ NewGapsAreInvalidated' /\ ListingsAreInvalidated'
  BY <1>1, <1>3 DEF GapCacheInv, GapsFollowEachOther, NewGapsAreInvalidated, ListingsAreInvalidated
<1>6. ExposedGapsAreSkippable'
  BY <1>1, <1>3 DEF GapCacheInv, ExposedGapsAreSkippable, Settled
<1>7. LookupsSeeSettled' /\ LookupsAreFresh'
  BY <1>1, <1>3 DEF GapCacheInv, LookupsSeeSettled, LookupsAreFresh
<1>8. QED
  BY <1>4, <1>5, <1>6, <1>7 DEF GapCacheInv

\* A key that is deleted is not settled any more, nor live since a lookup began.
LEMMA DeleteStep ==
    ASSUME GapCacheInv, NEW key \in WrittenKeys, Delete(key)
    PROVE  GapCacheInv'
<1>1. /\ live' = live \ {key} /\ uninvalidated' = uninvalidated \cup {key}
      /\ liveSince' = [l \in Lookups |-> liveSince[l] \ {key}]
      /\ UNCHANGED <<staging, frozen, exposed, exposureDelayMs, maxGaps, rotationAge>>
      /\ UNCHANGED <<building, lookup>>
  BY DEF Delete, cacheSets
<1>2. key \in CacheKeys
  BY GapCacheAssumption DEF CacheKeys
<1>3. Settled' = Settled \ {key} /\ Updated' = Updated
  BY <1>1 DEF Settled, Updated
<1>4. CacheShape'
  <2>1. liveSince' = [l \in Lookups |-> liveSince'[l]]
    BY <1>1
  <2>2. QED
    BY <1>1, <1>2, <2>1 DEF GapCacheInv, CacheShape, GcTypeOK, IsGapSet
<1>5. GapsFollowEachOther' /\ NewGapsAreInvalidated' /\ ListingsAreInvalidated'
  BY <1>1, <1>3 DEF GapCacheInv, GapsFollowEachOther, NewGapsAreInvalidated, ListingsAreInvalidated
<1>6. ExposedGapsAreSkippable'
  BY <1>1, <1>3 DEF GapCacheInv, ExposedGapsAreSkippable, Settled
<1>7. LookupsSeeSettled' /\ LookupsAreFresh'
  BY <1>1, <1>3 DEF GapCacheInv, LookupsSeeSettled, LookupsAreFresh
<1>8. QED
  BY <1>4, <1>5, <1>6, <1>7 DEF GapCacheInv

\* The invalidation removes the exposed gaps that hold the key, and lets the next two
\* rotations know of it.
LEMMA RemoveStep ==
    ASSUME GapCacheInv, NEW key \in WrittenKeys, RemoveOverlappingGaps(key)
    PROVE  GapCacheInv'
<1>1. /\ uninvalidated' = uninvalidated \ {key}
      /\ staging' = [staging EXCEPT !.updatedKeys = @ \cup {key}]
      /\ exposed' = RemoveOverlapping(exposed, {key})
      /\ UNCHANGED <<frozen, exposureDelayMs, maxGaps, rotationAge>>
      /\ UNCHANGED <<live, building, lookup>>
      /\ liveSince' = [l \in Lookups |-> liveSince[l] \cup (live \cap NotReached(l, key))]
  BY DEF RemoveOverlappingGaps
<1>2. key \in CacheKeys
  BY GapCacheAssumption DEF CacheKeys
<1>3. staging' = [newGaps |-> staging.newGaps, updatedKeys |-> staging.updatedKeys \cup {key}]
  BY <1>1 DEF GapCacheInv, CacheShape
<1>4. staging'.newGaps = staging.newGaps /\ staging'.updatedKeys = staging.updatedKeys \cup {key}
  BY <1>3
<1>5. Settled' \subseteq Settled \cup {key} /\ Settled \subseteq Settled'
      /\ Updated' = Updated \cup {key}
  BY <1>1, <1>4 DEF Settled, Updated
<1>6. /\ exposed' \subseteq exposed /\ IsGapSetOf(exposed', MaxKey)
      /\ \A g \in exposed' : ~Covers(g, key)
  <2>1. PICK T, keys : T = RemoveOverlapping(exposed, keys) /\ keys = {key}
    OBVIOUS
  <2>2. IsGapSetOf(exposed, MaxKey) /\ keys \in SUBSET CacheKeys
    BY <1>2, <2>1 DEF GapCacheInv, GapsFollowEachOther
  <2>3. T \subseteq exposed /\ IsGapSetOf(T, MaxKey) /\ \A g \in T : \A k \in keys : ~Covers(g, k)
    BY <2>1, <2>2, RemovalLeaves
  <2>4. QED
    BY <1>1, <2>1, <2>3
<1>7. CacheShape'
  BY <1>1, <1>2, <1>3, <1>4, <1>6, GapSetIsTyped
     DEF GapCacheInv, CacheShape, GcTypeOK, IsGapSet
<1>8. GapsFollowEachOther'
  BY <1>1, <1>4, <1>6 DEF GapCacheInv, GapsFollowEachOther
<1>9. NewGapsAreInvalidated' /\ ListingsAreInvalidated'
  BY <1>1, <1>4, <1>5 DEF GapCacheInv, NewGapsAreInvalidated, ListingsAreInvalidated
<1>10. ExposedGapsAreSkippable'
  <2>1. ASSUME NEW g \in exposed', NEW k \in Settled'
        PROVE  ~Covers(g, k)
    BY <1>5, <1>6, <2>1 DEF GapCacheInv, ExposedGapsAreSkippable, Settled
  <2>2. QED
    BY <2>1 DEF ExposedGapsAreSkippable, Settled
<1>11. LookupsSeeSettled' /\ LookupsAreFresh'
  <2>1. ASSUME NEW l \in Lookups, NEW k \in liveSince'[l]
        PROVE  k \in Settled' /\ ~Covers(lookup'[l].gap, k)
    <3>1. k \in liveSince[l] \/ k \in live \cap NotReached(l, key)
      BY <1>1, <2>1
    <3>2. CASE k \in liveSince[l]
      BY <1>1, <1>5, <3>2 DEF GapCacheInv, LookupsSeeSettled, LookupsAreFresh
    <3>3. CASE k \in live \cap NotReached(l, key)
      <4>1. k = key /\ k \in live /\ ~(lookup[l].gap.lastKey >= k)
        BY <3>3 DEF NotReached
      <4>2. k \in Settled'
        BY <1>1, <4>1 DEF Settled
      <4>3. ~Covers(lookup'[l].gap, k)
        BY <1>1, <4>1 DEF Covers
      <4>4. QED
        BY <4>2, <4>3
    <3>4. QED
      BY <3>1, <3>2, <3>3
  <2>2. QED
    BY <2>1 DEF LookupsSeeSettled, LookupsAreFresh
<1>12. QED
  BY <1>7, <1>8, <1>9, <1>10, <1>11 DEF GapCacheInv

\* What the invalidation of a rotation leaves holds no settled key.
LEMMA InvalidatedGaps ==
    ASSUME GapCacheInv, NEW S \in {staging.newGaps, frozen.newGaps},
           NEW T, T = Invalidated(S)
    PROVE  /\ T \subseteq S /\ IsGapSetOf(T, MaxKey)
           /\ \A g \in T : \A key \in Settled : ~Covers(g, key)
<1>1. IsGapSetOf(S, MaxKey)
  BY DEF GapCacheInv, GapsFollowEachOther
<1>2. /\ staging.updatedKeys \in SUBSET CacheKeys
      /\ frozen.updatedKeys \in SUBSET CacheKeys
  BY GapCacheAssumption DEF GapCacheInv, CacheShape, GcTypeOK, CacheKeys
<1>3. PICK K, L, U : /\ K = staging.updatedKeys /\ L = frozen.updatedKeys
                     /\ U = RemoveOverlapping(S, K)
  OBVIOUS
<1>4. T = RemoveOverlapping(U, L)
  BY <1>3 DEF Invalidated
<1>5. U \subseteq S /\ IsGapSetOf(U, MaxKey) /\ \A g \in U : \A key \in K : ~Covers(g, key)
  BY <1>1, <1>2, <1>3, RemovalLeaves
<1>6. T \subseteq U /\ IsGapSetOf(T, MaxKey) /\ \A g \in T : \A key \in L : ~Covers(g, key)
  BY <1>2, <1>3, <1>4, <1>5, RemovalLeaves
<1>7. ASSUME NEW g \in T, NEW key \in Settled, Covers(g, key)
      PROVE  FALSE
  <2>1. key \in Updated
    BY <1>5, <1>6, <1>7 DEF GapCacheInv, NewGapsAreInvalidated
  <2>2. QED
    BY <1>3, <1>5, <1>6, <1>7, <2>1 DEF Updated
<1>8. QED
  BY <1>5, <1>6, <1>7
\* A rotation exposes gaps that hold no settled key, and what it forgets is known to no
\* listing that may still call setGap().
LEMMA ExposeStep ==
    ASSUME GapCacheInv, ExposeFrozen
    PROVE  GapCacheInv'
<1>1. /\ rotationAge >= exposureDelayMs /\ rotationAge' = 0
      /\ exposed' = Exposed(Invalidated(frozen.newGaps))
      /\ frozen' = [staging EXCEPT !.newGaps = Invalidated(@)]
      /\ staging' = NoUpdates
      /\ UNCHANGED <<exposureDelayMs, maxGaps, live, uninvalidated, building, lookup, liveSince>>
  BY DEF ExposeFrozen, outside, lookups
<1>2. PICK S, T : S = Invalidated(staging.newGaps) /\ T = Invalidated(frozen.newGaps)
  OBVIOUS
<1>3. IsGapSetOf(S, MaxKey) /\ \A g \in S : \A key \in Settled : ~Covers(g, key)
  BY <1>2, InvalidatedGaps
<1>4. IsGapSetOf(T, MaxKey) /\ \A g \in T : \A key \in Settled : ~Covers(g, key)
  BY <1>2, InvalidatedGaps
<1>5. frozen' = [newGaps |-> S, updatedKeys |-> staging.updatedKeys]
  <2>1. frozen' = [staging EXCEPT !.newGaps = S]
    BY <1>1, <1>2
  <2>2. QED
    BY <2>1 DEF GapCacheInv, CacheShape
<1>6. /\ frozen'.newGaps = S /\ frozen'.updatedKeys = staging.updatedKeys
      /\ staging'.newGaps = {} /\ staging'.updatedKeys = {}
      /\ staging' = [newGaps |-> staging'.newGaps, updatedKeys |-> staging'.updatedKeys]
  BY <1>1, <1>5 DEF NoUpdates
<1>7. Settled' = Settled /\ Updated' = staging.updatedKeys
  BY <1>1, <1>6 DEF Settled, Updated
<1>8. /\ IsGapSetOf(exposed', MaxKey)
      /\ \A g \in exposed' : \A key \in Int : Holds(g, key) =>
           \E h \in exposed \cup T : Holds(h, key)
  <2>1. IsGapSetOf(exposed, MaxKey)
    BY DEF GapCacheInv, GapsFollowEachOther
  <2>2. PICK U : U = Exposed(T)
    OBVIOUS
  <2>3. /\ IsGapSetOf(U, MaxKey)
        /\ \A g \in U : \A key \in Int : Holds(g, key) =>
             \E h \in exposed \cup T : Holds(h, key)
    BY <1>4, <2>1, <2>2, ExposureInventsNothing
  <2>4. QED
    BY <1>1, <1>2, <2>2, <2>3
<1>9. CacheShape'
  <2>1. 0 \in 0..LongestDelay
    BY LongestDelayFacts
  <2>2. IsGapSet(exposed') /\ IsGapSet(S) /\ IsGapSet({})
    BY <1>3, <1>8, GapSetIsTyped DEF IsGapSet
  <2>3. GcTypeOK'
    BY <1>1, <1>6, <2>1, <2>2 DEF GapCacheInv, CacheShape, GcTypeOK, IsGapSet
  <2>4. QED
    BY <1>1, <1>5, <1>6, <2>3 DEF GapCacheInv, CacheShape
<1>10. GapsFollowEachOther'
  BY <1>3, <1>6, <1>8 DEF GapsFollowEachOther, IsGapSetOf, Chained, Distinct
<1>11. ExposedGapsAreSkippable'
  <2>1. ASSUME NEW g \in exposed', NEW key \in Settled, Covers(g, key)
        PROVE  FALSE
    <3>1. key \in Int /\ Holds(g, key)
      BY <2>1 DEF Settled, GapCacheInv, CacheShape, GcTypeOK, CacheKeys, Covers, Holds
    <3>2. PICK h \in exposed \cup T : Holds(h, key)
      BY <1>8, <3>1
    <3>3. Covers(h, key)
      BY <3>2 DEF Holds, Covers
    <3>4. QED
      BY <1>4, <3>2, <3>3, <2>1 DEF GapCacheInv, ExposedGapsAreSkippable, Settled
  <2>2. QED
    BY <1>7, <2>1 DEF ExposedGapsAreSkippable, Settled
<1>12. NewGapsAreInvalidated'
  BY <1>3, <1>6, <1>7 DEF NewGapsAreInvalidated
<1>13. ListingsAreInvalidated'
  <2>1. SUFFICES ASSUME NEW b \in Listings, NEW key \in Settled \ building[b].seen,
                        building[b].age < exposureDelayMs
                 PROVE  /\ key \in staging.updatedKeys
                        /\ ~(building[b].age < 0)
    BY <1>1, <1>7 DEF ListingsAreInvalidated
  <2>2. building[b].age \in Nat /\ exposureDelayMs \in Nat /\ rotationAge \in Nat
    BY LongestDelayFacts DEF GapCacheInv, CacheShape, GcTypeOK
  <2>3. building[b].age < rotationAge
    BY <1>1, <2>1, <2>2
  <2>4. QED
    BY <2>1, <2>2, <2>3 DEF GapCacheInv, ListingsAreInvalidated
<1>14. LookupsSeeSettled' /\ LookupsAreFresh'
  BY <1>1, <1>7 DEF GapCacheInv, LookupsSeeSettled, LookupsAreFresh
<1>15. QED
  BY <1>9, <1>10, <1>11, <1>12, <1>13, <1>14 DEF GapCacheInv

\* The setter forgets the updated keys: no listing may be building gaps.
LEMMA SetDelayStep ==
    ASSUME ~DelayChangesInListing, GapCacheInv, NEW delay \in Delays, SetExposureDelay(delay)
    PROVE  GapCacheInv'
<1>1. /\ \A b \in Listings : building[b].age = LongestDelay
      /\ exposureDelayMs' = delay
      /\ staging' = NoUpdates /\ frozen' = NoUpdates /\ rotationAge' = 0
      /\ UNCHANGED <<exposed, maxGaps, live, uninvalidated, building, lookup, liveSince>>
  BY DEF SetExposureDelay, outside, lookups
<1>2. /\ staging'.newGaps = {} /\ staging'.updatedKeys = {}
      /\ frozen'.newGaps = {} /\ frozen'.updatedKeys = {}
      /\ staging' = [newGaps |-> staging'.newGaps, updatedKeys |-> staging'.updatedKeys]
      /\ frozen' = [newGaps |-> frozen'.newGaps, updatedKeys |-> frozen'.updatedKeys]
  BY <1>1 DEF NoUpdates
<1>3. Settled' = Settled
  BY <1>1 DEF Settled
<1>4. CacheShape'
  <2>1. 0 \in 0..LongestDelay
    BY LongestDelayFacts
  <2>2. GcTypeOK'
    BY <1>1, <1>2, <2>1 DEF GapCacheInv, CacheShape, GcTypeOK, IsGapSet
  <2>3. QED
    BY <1>1, <1>2, <2>2 DEF GapCacheInv, CacheShape
<1>5. GapsFollowEachOther'
  BY <1>1, <1>2 DEF GapCacheInv, GapsFollowEachOther, IsGapSetOf, Chained, Distinct
<1>6. ExposedGapsAreSkippable' /\ NewGapsAreInvalidated'
  BY <1>1, <1>2, <1>3
     DEF GapCacheInv, ExposedGapsAreSkippable, NewGapsAreInvalidated, Settled
<1>7. ListingsAreInvalidated'
  <2>1. ~ (LongestDelay < delay)
    BY LongestDelayFacts
  <2>2. QED
    BY <1>1, <2>1 DEF ListingsAreInvalidated
<1>8. LookupsSeeSettled' /\ LookupsAreFresh'
  BY <1>1, <1>3 DEF GapCacheInv, LookupsSeeSettled, LookupsAreFresh
<1>9. QED
  BY <1>4, <1>5, <1>6, <1>7, <1>8 DEF GapCacheInv

\* The cache is cleared of its gaps, and keeps the updated keys.
LEMMA ClearStep ==
    ASSUME GapCacheInv, Clear
    PROVE  GapCacheInv'
<1>1. /\ staging' = [staging EXCEPT !.newGaps = {}]
      /\ frozen' = [frozen EXCEPT !.newGaps = {}]
      /\ exposed' = {}
      /\ UNCHANGED <<exposureDelayMs, maxGaps, rotationAge>>
      /\ UNCHANGED <<live, uninvalidated, building, lookup, liveSince>>
  BY DEF Clear, outside, lookups
<1>2. /\ staging' = [newGaps |-> {}, updatedKeys |-> staging.updatedKeys]
      /\ frozen' = [newGaps |-> {}, updatedKeys |-> frozen.updatedKeys]
  BY <1>1 DEF GapCacheInv, CacheShape
<1>3. /\ staging'.newGaps = {} /\ staging'.updatedKeys = staging.updatedKeys
      /\ frozen'.newGaps = {} /\ frozen'.updatedKeys = frozen.updatedKeys
  BY <1>2
<1>4. Settled' = Settled /\ Updated' = Updated
  BY <1>1, <1>3 DEF Settled, Updated
<1>5. CacheShape'
  BY <1>1, <1>2, <1>3 DEF GapCacheInv, CacheShape, GcTypeOK, IsGapSet
<1>6. GapsFollowEachOther' /\ ExposedGapsAreSkippable' /\ NewGapsAreInvalidated'
  BY <1>1, <1>3, <1>4 DEF GapsFollowEachOther, IsGapSetOf, Chained, Distinct,
                          ExposedGapsAreSkippable, NewGapsAreInvalidated
<1>7. ListingsAreInvalidated' /\ LookupsSeeSettled' /\ LookupsAreFresh'
  BY <1>1, <1>3, <1>4
     DEF GapCacheInv, ListingsAreInvalidated, LookupsSeeSettled, LookupsAreFresh
<1>8. QED
  BY <1>5, <1>6, <1>7 DEF GapCacheInv

\* As time passes, a listing that began after the last rotation remains one that did,
\* as long as it may call setGap().
LEMMA TickStep ==
    ASSUME GapCacheInv, Tick
    PROVE  GapCacheInv'
<1>1. /\ rotationAge' = Older(rotationAge)
      /\ building' = [b \in Listings |-> [building[b] EXCEPT !.age = Older(@)]]
      /\ UNCHANGED <<staging, frozen, exposed, exposureDelayMs, maxGaps>>
      /\ UNCHANGED <<live, uninvalidated, lookup, liveSince>>
  BY DEF Tick, cacheSets, lookups
<1>2. Settled' = Settled /\ Updated' = Updated
  BY <1>1 DEF Settled, Updated
<1>3. LongestDelay \in Nat /\ exposureDelayMs \in Nat /\ exposureDelayMs <= LongestDelay
  BY LongestDelayFacts DEF GapCacheInv, CacheShape, GcTypeOK
<1>4. rotationAge \in 0..LongestDelay /\ \A b \in Listings : building[b].age \in 0..LongestDelay
  BY DEF GapCacheInv, CacheShape, GcTypeOK
<1>5. \A b \in Listings : building'[b].seen = building[b].seen
                          /\ building'[b].age = Older(building[b].age)
  BY <1>1 DEF GapCacheInv, CacheShape, GcTypeOK
<1>6. \A age \in 0..LongestDelay : Older(age) \in 0..LongestDelay
  BY <1>3 DEF Older
<1>7. CacheShape'
  <2>1. \A b \in Listings : [building[b] EXCEPT !.age = Older(@)]
                              \in [seen : SUBSET CacheKeys, age : 0..LongestDelay]
    BY <1>4, <1>6 DEF GapCacheInv, CacheShape, GcTypeOK
  <2>2. building' \in [Listings -> [seen : SUBSET CacheKeys, age : 0..LongestDelay]]
    BY <1>1, <2>1
  <2>3. GcTypeOK'
    BY <1>1, <1>4, <1>6, <2>2 DEF GapCacheInv, CacheShape, GcTypeOK, IsGapSet
  <2>4. QED
    BY <1>1, <2>3 DEF GapCacheInv, CacheShape
<1>8. GapsFollowEachOther' /\ ExposedGapsAreSkippable' /\ NewGapsAreInvalidated'
  BY <1>1, <1>2 DEF GapCacheInv, GapsFollowEachOther, ExposedGapsAreSkippable, NewGapsAreInvalidated
<1>9. ListingsAreInvalidated'
  <2>1. SUFFICES ASSUME NEW b \in Listings, NEW key \in Settled \ building[b].seen,
                        Older(building[b].age) < exposureDelayMs
                 PROVE  /\ key \in Updated
                        /\ Older(building[b].age) < Older(rotationAge) => key \in staging.updatedKeys
    BY <1>1, <1>2, <1>5 DEF ListingsAreInvalidated
  <2>2. PICK age : age = building[b].age
    OBVIOUS
  <2>3. age < exposureDelayMs /\ (Older(age) < Older(rotationAge) => age < rotationAge)
    BY <1>3, <1>4, <2>1, <2>2 DEF Older
  <2>4. QED
    BY <2>1, <2>2, <2>3 DEF GapCacheInv, ListingsAreInvalidated
<1>10. LookupsSeeSettled' /\ LookupsAreFresh'
  BY <1>1, <1>2 DEF GapCacheInv, LookupsSeeSettled, LookupsAreFresh
<1>11. QED
  BY <1>7, <1>8, <1>9, <1>10 DEF GapCacheInv
\* The gap that a lookup is given is one of the exposed gaps.
LEMMA LookedUpIsExposed ==
    ASSUME NEW S, NEW minKey, NEW maxKey
    PROVE  FirstLookedUp(S, minKey, maxKey) \subseteq S
  BY DEF FirstLookedUp, LastFrom, LastGap, FirstAfter, FirstGap

\* A coalesced gap covers nothing but what its two gaps cover.
LEMMA ChainCoversBoth ==
    ASSUME NEW gap, NEW next \in ChainedTo(exposed, gap), NEW key \in CacheKeys,
           IsGapSetOf(exposed, MaxKey), Covers(Coalesced(gap, next), key)
    PROVE  Covers(gap, key) \/ Covers(next, key)
<1>1. next \in exposed /\ next.firstKey = gap.lastKey
  BY DEF ChainedTo
<1>2. next.firstKey \in Int /\ key \in Int
  BY <1>1 DEF IsGapSetOf, IsGap, CacheKeys
<1>3. gap.firstKey <= key /\ key <= next.lastKey
  BY DEF Covers, Coalesced, GapEntry
<1>4. QED
  BY <1>1, <1>2, <1>3 DEF Covers

\* A lookup begins with an exposed gap, which holds no settled key.
LEMMA LookupGapStep ==
    ASSUME GapCacheInv, NEW l \in Lookups, NEW minKey \in CacheKeys, LookupGap(l, minKey, MaxKey)
    PROVE  GapCacheInv'
<1>1. PICK gap \in FirstLookedUp(exposed, minKey, MaxKey) :
        lookup' = [lookup EXCEPT ![l] = [gap |-> gap, done |-> FALSE]]
  BY DEF LookupGap
<1>2. /\ liveSince' = [liveSince EXCEPT ![l] = Settled]
      /\ UNCHANGED <<staging, frozen, exposed, exposureDelayMs, maxGaps, rotationAge>>
      /\ UNCHANGED <<live, uninvalidated, building>>
  BY DEF LookupGap, cacheSets, outside, Settled
<1>3. Settled' = Settled /\ Updated' = Updated
  BY <1>2 DEF Settled, Updated
<1>4. gap \in exposed
  BY <1>1, LookedUpIsExposed
<1>5. CacheShape'
  <2>1. lookup' = [m \in Lookups |-> [gap |-> lookup'[m].gap, done |-> lookup'[m].done]]
    <3>1. \A m \in Lookups : lookup[m] = [gap |-> lookup[m].gap, done |-> lookup[m].done]
      BY DEF GapCacheInv, CacheShape
    <3>2. DOMAIN lookup = Lookups
      BY DEF GapCacheInv, CacheShape
    <3>3. \A m \in Lookups : lookup'[m] = IF m = l THEN [gap |-> gap, done |-> FALSE] ELSE lookup[m]
      BY <1>1, <3>2
    <3>4. \A m \in Lookups : lookup'[m] = [gap |-> lookup'[m].gap, done |-> lookup'[m].done]
      BY <3>1, <3>3
    <3>5. lookup' = [m \in Lookups |-> lookup'[m]]
      BY <1>1, <3>2
    <3>6. QED
      BY <3>4, <3>5
  <2>2. liveSince' = [m \in Lookups |-> liveSince'[m]]
    BY <1>2 DEF GapCacheInv, CacheShape
  <2>3. QED
    BY <1>2, <2>1, <2>2 DEF GapCacheInv, CacheShape, GcTypeOK, IsGapSet
<1>6. GapsFollowEachOther' /\ ExposedGapsAreSkippable' /\ NewGapsAreInvalidated'
      /\ ListingsAreInvalidated'
  BY <1>2, <1>3 DEF GapCacheInv, GapsFollowEachOther, ExposedGapsAreSkippable,
                    NewGapsAreInvalidated, ListingsAreInvalidated
<1>7. LookupsSeeSettled'
  BY <1>2, <1>3 DEF GapCacheInv, CacheShape, LookupsSeeSettled
<1>8. LookupsAreFresh'
  <2>1. lookup'[l].gap = gap /\ \A m \in Lookups : m # l => lookup'[m] = lookup[m]
    BY <1>1 DEF GapCacheInv, CacheShape
  <2>2. liveSince'[l] = Settled /\ \A m \in Lookups : m # l => liveSince'[m] = liveSince[m]
    BY <1>2 DEF GapCacheInv, CacheShape
  <2>3. \A key \in Settled : ~Covers(gap, key)
    BY <1>4 DEF GapCacheInv, ExposedGapsAreSkippable, Settled
  <2>4. QED
    BY <2>1, <2>2, <2>3 DEF GapCacheInv, LookupsAreFresh
<1>9. QED
  BY <1>5, <1>6, <1>7, <1>8 DEF GapCacheInv

\* A lookup goes on with a gap that is exposed then, although what it has got so far may
\* not be exposed any more.
LEMMA CoalesceStep ==
    ASSUME GapCacheInv, NEW l \in Lookups, CoalesceGapChain(l)
    PROVE  GapCacheInv'
<1>1. PICK gap, next : gap = lookup[l].gap /\ next = ChainedTo(exposed, gap)
  OBVIOUS
<1>2. /\ lookup' = [lookup EXCEPT ![l] =
                      IF next = {} THEN [gap |-> gap, done |-> TRUE]
                      ELSE [gap |-> Coalesced(gap, The(next)), done |-> FALSE]]
      /\ UNCHANGED <<staging, frozen, exposed, exposureDelayMs, maxGaps, rotationAge>>
      /\ UNCHANGED <<live, uninvalidated, building, liveSince>>
  BY <1>1 DEF CoalesceGapChain, cacheSets, outside
<1>3. Settled' = Settled /\ Updated' = Updated
  BY <1>2 DEF Settled, Updated
<1>4. PICK to : to = IF next = {} THEN [gap |-> gap, done |-> TRUE]
                     ELSE [gap |-> Coalesced(gap, The(next)), done |-> FALSE]
  OBVIOUS
<1>5. lookup' = [lookup EXCEPT ![l] = to]
  BY <1>2, <1>4
<1>6. to = [gap |-> to.gap, done |-> to.done]
  BY <1>4
<1>7. DOMAIN lookup = Lookups
      /\ \A m \in Lookups : lookup[m] = [gap |-> lookup[m].gap, done |-> lookup[m].done]
  BY DEF GapCacheInv, CacheShape
<1>8. lookup'[l] = to /\ \A m \in Lookups : m # l => lookup'[m] = lookup[m]
  BY <1>5, <1>7
<1>9. CacheShape'
  <2>1. lookup' = [m \in Lookups |-> lookup'[m]]
    BY <1>5, <1>7
  <2>2. \A m \in Lookups : lookup'[m] = [gap |-> lookup'[m].gap, done |-> lookup'[m].done]
    BY <1>6, <1>7, <1>8
  <2>3. lookup' = [m \in Lookups |-> [gap |-> lookup'[m].gap, done |-> lookup'[m].done]]
    BY <2>1, <2>2
  <2>4. QED
    BY <1>2, <2>3 DEF GapCacheInv, CacheShape, GcTypeOK, IsGapSet
<1>10. GapsFollowEachOther' /\ ExposedGapsAreSkippable' /\ NewGapsAreInvalidated'
       /\ ListingsAreInvalidated' /\ LookupsSeeSettled'
  BY <1>2, <1>3 DEF GapCacheInv, GapsFollowEachOther, ExposedGapsAreSkippable,
                    NewGapsAreInvalidated, ListingsAreInvalidated, LookupsSeeSettled
<1>11. LookupsAreFresh'
  <2>1. ASSUME NEW key \in liveSince[l], Covers(to.gap, key)
        PROVE  FALSE
    <3>1. key \in Settled /\ key \in CacheKeys /\ ~Covers(gap, key)
      BY <1>1, <2>1 DEF GapCacheInv, LookupsSeeSettled, LookupsAreFresh, Settled,
                        CacheShape, GcTypeOK
    <3>2. CASE next = {}
      BY <1>4, <2>1, <3>1, <3>2
    <3>3. CASE next # {}
      <4>1. PICK h : h = The(next)
        OBVIOUS
      <4>2. h \in ChainedTo(exposed, gap) /\ h \in exposed
        BY <1>1, <3>3, <4>1, TheIsIn DEF ChainedTo
      <4>3. Covers(Coalesced(gap, h), key)
        BY <1>4, <2>1, <3>3, <4>1
      <4>4. IsGapSetOf(exposed, MaxKey)
        BY DEF GapCacheInv, GapsFollowEachOther
      <4>5. Covers(h, key)
        BY <3>1, <4>2, <4>3, <4>4, ChainCoversBoth
      <4>6. QED
        BY <3>1, <4>2, <4>5 DEF GapCacheInv, ExposedGapsAreSkippable, Settled
    <3>4. QED
      BY <3>2, <3>3
  <2>2. QED
    BY <1>2, <1>8, <2>1 DEF GapCacheInv, LookupsAreFresh
<1>12. QED
  BY <1>9, <1>10, <1>11 DEF GapCacheInv

\* A step that changes nothing.
LEMMA CacheStutters == GapCacheInv /\ UNCHANGED gcVars => GapCacheInv'
<1> SUFFICES ASSUME GapCacheInv, UNCHANGED gcVars
             PROVE  GapCacheInv'
  OBVIOUS
<1>1. /\ UNCHANGED <<staging, frozen, exposed, exposureDelayMs, maxGaps, rotationAge>>
      /\ UNCHANGED <<live, uninvalidated, building, lookup, liveSince>>
  BY DEF gcVars, cacheSets, outside, lookups
<1>2. Settled' = Settled /\ Updated' = Updated
  BY <1>1 DEF Settled, Updated
<1>3. CacheShape' /\ GapsFollowEachOther' /\ ExposedGapsAreSkippable'
  BY <1>1 DEF GapCacheInv, CacheShape, GcTypeOK, IsGapSet, GapsFollowEachOther,
              ExposedGapsAreSkippable
<1>4. NewGapsAreInvalidated' /\ ListingsAreInvalidated' /\ LookupsSeeSettled' /\ LookupsAreFresh'
  BY <1>1, <1>2 DEF GapCacheInv, NewGapsAreInvalidated, ListingsAreInvalidated,
                    LookupsSeeSettled, LookupsAreFresh
<1>5. QED
  BY <1>3, <1>4 DEF GapCacheInv

----------------------------------------------------------------------------
(* The theorems.                                                           *)

\* Whatever listings, writers, rotations and lookups do, in whatever order, what a later
\* rotation needs to know is known when it comes.
THEOREM GapCacheInvariant ==
    ASSUME ~DelayChangesInListing
    PROVE  GcSpec => []GapCacheInv
<1>1. GapCacheInv /\ [GcNext]_gcVars => GapCacheInv'
  <2> SUFFICES ASSUME GapCacheInv, GcNext
               PROVE  GapCacheInv'
    BY CacheStutters
  <2>1. ASSUME NEW b \in Listings, StartListing(b)
        PROVE  GapCacheInv'
    BY <2>1, StartListingStep
  <2>2. ASSUME NEW b \in Listings, NEW firstKey \in CacheKeys, NEW lastKey \in CacheKeys,
               NEW first \in FirstKeyWeights,
               SaveGap(b, firstKey, lastKey, (lastKey - firstKey) + first)
        PROVE  GapCacheInv'
    BY <2>2, SaveGapStep
  <2>3. ASSUME NEW key \in WrittenKeys, Write(key) \/ Delete(key) \/ RemoveOverlappingGaps(key)
        PROVE  GapCacheInv'
    BY <2>3, WriteStep, DeleteStep, RemoveStep
  <2>4. CASE ExposeFrozen
    BY <2>4, ExposeStep
  <2>5. ASSUME NEW delay \in Delays, SetExposureDelay(delay)
        PROVE  GapCacheInv'
    BY <2>5, SetDelayStep
  <2>6. CASE Clear
    BY <2>6, ClearStep
  <2>7. CASE Tick
    BY <2>7, TickStep
  <2>8. ASSUME NEW l \in Lookups, NEW minKey \in CacheKeys, LookupGap(l, minKey, MaxKey)
        PROVE  GapCacheInv'
    BY <2>8, LookupGapStep
  <2>9. ASSUME NEW l \in Lookups, CoalesceGapChain(l)
        PROVE  GapCacheInv'
    BY <2>9, CoalesceStep
  <2>10. QED
    BY <2>1, <2>2, <2>3, <2>4, <2>5, <2>6, <2>7, <2>8, <2>9 DEF GcNext
<1>2. QED
  BY <1>1, CacheInitially, PTL DEF GcSpec

\* An exposed gap never covers a live key whose writer has invalidated it.
THEOREM ExposedGapsStaySkippable ==
    ASSUME ~DelayChangesInListing
    PROVE  GcSpec => []ExposedGapsAreSkippable
<1>1. GapCacheInv => ExposedGapsAreSkippable
  BY DEF GapCacheInv
<1>2. QED
  BY <1>1, GapCacheInvariant, PTL

\* A lookup that yields in the middle of a chain never returns a key that has been live
\* since it began.
THEOREM LookupsStayFresh ==
    ASSUME ~DelayChangesInListing
    PROVE  GcSpec => []LookupsAreFresh
<1>1. GapCacheInv => LookupsAreFresh
  BY DEF GapCacheInv
<1>2. QED
  BY <1>1, GapCacheInvariant, PTL

-----------------------------------------------------------------------------
(* The gap set.                                                            *)

\* The inductive invariant.
GapSetInv ==
    /\ IsGapSetOf(gaps, MaxSetKey)
    /\ ~SingleKeyGaps => NoSingleKeys(gaps)

\* Initially the set is empty.
LEMMA GapSetInitially == GsInit => GapSetInv
  BY DEF GsInit, GapSetInv, IsGapSetOf, Chained, Distinct, NoSingleKeys

\* What removeOverlappingGaps() leaves is a part of the set.
LEMMA SparedIsGapSet ==
    ASSUME NEW n \in Nat, NEW S, IsGapSetOf(S, n), NEW keys
    PROVE  /\ Spared(S, keys) \subseteq S
           /\ IsGapSetOf(Spared(S, keys), n)
<1>1. Spared(S, keys) \subseteq S
  BY DEF Spared
<1> HIDE DEF Spared
<1>2. QED
  BY <1>1 DEF IsGapSetOf, Chained, Distinct

\* Every call preserves the invariant.
LEMMA GapSetStep == GapSetInv /\ [GsNext]_gaps => GapSetInv'
<1> SUFFICES ASSUME GapSetInv, [GsNext]_gaps
             PROVE  GapSetInv'
  OBVIOUS
<1>0. MaxSetKey \in Nat /\ IsGapSetOf(gaps, MaxSetKey)
  BY GapSetAssumption DEF GapSetInv
<1>1. ASSUME NEW firstKey \in GapKeys, NEW lastKey \in GapKeys, NEW weight \in Weights,
             setGap(firstKey, lastKey, weight)
      PROVE  GapSetInv'
  <2>1. PICK T : T = SetGap(gaps, firstKey, lastKey, weight, MaxWeight)
    OBVIOUS
  <2>2. /\ firstKey \in 1..MaxSetKey /\ lastKey \in 1..MaxSetKey /\ firstKey <= lastKey
        /\ gaps' = T
    BY <1>1, <2>1 DEF setGap, GapKeys
  <2>3. IsGapSetOf(T, MaxSetKey)
    BY <1>0, <2>1, <2>2, SetGapKeepsSet
  <2>4. ASSUME ~SingleKeyGaps
        PROVE  NoSingleKeys(T)
    <3>1. firstKey < lastKey /\ NoSingleKeys(gaps)
      BY <1>1, <2>4 DEF setGap, GapSetInv
    <3>2. QED
      BY <1>0, <2>1, <2>2, <3>1, SetGapCoversExactly
  <2>5. QED
    BY <2>2, <2>3, <2>4 DEF GapSetInv
<1>2. ASSUME NEW keys \in SUBSET GapKeys, removeOverlappingGaps(keys)
      PROVE  GapSetInv'
  <2>1. keys \in SUBSET (1..MaxSetKey)
    BY DEF GapKeys
  <2>2. gaps' = Spared(gaps, keys)
    BY <1>0, <1>2, <2>1, RemovalSpares DEF removeOverlappingGaps
  <2>3. gaps' \subseteq gaps /\ IsGapSetOf(gaps', MaxSetKey)
    BY <1>0, <2>2, SparedIsGapSet
  <2>4. QED
    BY <2>3 DEF GapSetInv, NoSingleKeys
<1>3. CASE UNCHANGED gaps
  BY <1>3 DEF GapSetInv
<1>4. QED
  BY <1>1, <1>2, <1>3 DEF GsNext

\* Whatever the callers do, the gaps of the set follow each other.
THEOREM GapSetInvariant == GsSpec => []GapSetInv
  BY GapSetInitially, GapSetStep, PTL DEF GsSpec

\* Whatever sequence of calls has built the set, gaps of single keys included,
\* removeOverlappingGaps() removes the gaps that hold one of the keys and no other.
THEOREM RemovalsAreExact == GsSpec => []RemovalIsExact
<1>1. GapSetInv => RemovalIsExact
  <2> SUFFICES ASSUME GapSetInv, NEW keys \in SUBSET GapKeys
               PROVE  RemoveOverlapping(gaps, keys)
                        = {g \in gaps : \A k \in keys : ~(g.firstKey <= k /\ k <= g.lastKey)}
    BY DEF RemovalIsExact
  <2>1. /\ MaxSetKey \in Nat /\ IsGapSetOf(gaps, MaxSetKey)
        /\ keys \in SUBSET (1..MaxSetKey)
    BY GapSetAssumption DEF GapSetInv, GapKeys
  <2>2. RemoveOverlapping(gaps, keys) = Spared(gaps, keys)
    BY <2>1, RemovalSpares
  <2>3. QED
    BY <2>2 DEF Spared, Holds
<1>2. QED
  BY <1>1, GapSetInvariant, PTL

\* When callers give gaps of several keys, setGap() covers what was covered and the
\* new gap and nothing else, whatever it merges, chains, extends or splits.
THEOREM CoverageStaysExact ==
    ASSUME ~SingleKeyGaps
    PROVE  GsSpec => []CoverageIsExact
<1>1. GapSetInv => CoverageIsExact
  <2> SUFFICES ASSUME GapSetInv
               PROVE  CoverageIsExact
    OBVIOUS
  <2>1. MaxSetKey \in Nat /\ IsGapSetOf(gaps, MaxSetKey) /\ NoSingleKeys(gaps)
    BY GapSetAssumption DEF GapSetInv
  <2>2. ASSUME NEW firstKey \in GapKeys, NEW lastKey \in GapKeys, NEW weight \in Weights,
               firstKey < lastKey
        PROVE  Stretches(SetGap(gaps, firstKey, lastKey, weight, MaxWeight))
                   = Stretches(gaps) \cup (firstKey .. (lastKey - 1))
    <3>1. PICK T : T = SetGap(gaps, firstKey, lastKey, weight, MaxWeight)
      OBVIOUS
    <3>2. firstKey \in 1..MaxSetKey /\ lastKey \in 1..MaxSetKey
      BY DEF GapKeys
    <3>3. \A k \in Int : (\E g \in T : Steps(g, k))
                         <=> \/ \E h \in gaps : Steps(h, k)
                             \/ firstKey <= k /\ k < lastKey
      BY <2>1, <2>2, <3>1, <3>2, SetGapCoversExactly
    <3>4. \A k \in GapKeys : k \in Int
      BY DEF GapKeys
    <3>5. \A S : Stretches(S) = {k \in GapKeys : \E g \in S : Steps(g, k)}
      BY DEF Stretches, Steps
    <3>6. firstKey .. (lastKey - 1) = {k \in GapKeys : firstKey <= k /\ k < lastKey}
      BY <2>1, <2>2, <3>2 DEF GapKeys
    <3>7. Stretches(T) = Stretches(gaps) \cup (firstKey .. (lastKey - 1))
      BY <3>3, <3>4, <3>5, <3>6
    <3>8. QED
      BY <3>1, <3>7
  <2>3. GapsAreChained
    BY <2>1 DEF GapsAreChained, IsGapSetOf, Chained
  <2>4. QED
    BY <2>2, <2>3 DEF CoverageIsExact
<1>2. QED
  BY <1>1, GapSetInvariant, PTL

-----------------------------------------------------------------------------
(* The LRU cache.                                                          *)

\* The entry at a place of a list, null before and after it.
EntryAt(s, i) == IF i \in 1..Len(s) THEN s[i] ELSE NoEntry

OnceEach(s) == \A i, j \in 1..Len(s) : s[i] = s[j] => i = j

Keys(s) == {s[i] : i \in 1..Len(s)}

\* The links are those of a list. Those of other entries may be any.
Linked(l, s) ==
    /\ l = [head |-> l.head, tail |-> l.tail, next |-> l.next, prev |-> l.prev]
    /\ l.next \in [LruKeys -> LruKeys \cup {NoEntry}]
    /\ l.prev \in [LruKeys -> LruKeys \cup {NoEntry}]
    /\ l.head = EntryAt(s, 1) /\ l.tail = EntryAt(s, Len(s))
    /\ \A i \in 1..Len(s) : l.next[s[i]] = EntryAt(s, i + 1) /\ l.prev[s[i]] = EntryAt(s, i - 1)

\* The list holds the keys of the entries, as many as are counted, and no more than fit.
Lists(s, l, n, entries) ==
    /\ s \in Seq(LruKeys) /\ OnceEach(s) /\ Linked(l, s)
    /\ n = Len(s) /\ n <= MaxEntries
    /\ DOMAIN entries = Keys(s)

\* The inductive invariant.
LruInv == Lists(Listed, links, entryCount, entryMap)
----------------------------------------------------------------------------
(* Lists without one of their elements, and with one more.                 *)

\* The list t is s without the element at the place p.
WithoutPlace(t, s, p) ==
    /\ t \in Seq(LruKeys) /\ Len(t) = Len(s) - 1
    /\ \A j \in 1..(Len(s) - 1) : t[j] = IF j < p THEN s[j] ELSE s[j + 1]

\* What is left when an element is removed.
LEMMA Omitted ==
    ASSUME NEW s \in Seq(LruKeys), NEW p \in 1..Len(s), NEW t, t = RemoveAt(s, p)
    PROVE  WithoutPlace(t, s, p)
<1> DEFINE n == Len(s)
           a == SubSeq(s, 1, p - 1)
           b == SubSeq(s, p + 1, n)
<1>1. n \in Nat /\ p \in 1..n /\ \A i \in 1..n : s[i] \in LruKeys
  BY ElementOfSeq, LenProperties
<1> HIDE DEF n
<1>2. /\ a \in Seq(LruKeys) /\ Len(a) = p - 1
      /\ \A i \in 1..(p - 1) : a[i] = s[i]
  <2>1. \A i \in 1..(p - 1) : s[i] \in LruKeys
    BY <1>1
  <2>2. 1 \in Int /\ p - 1 \in Int
    BY <1>1
  <2>3. /\ a \in Seq(LruKeys) /\ Len(a) = IF 1 <= p - 1 THEN p - 1 - 1 + 1 ELSE 0
        /\ \A i \in 1..(p - 1 - 1 + 1) : a[i] = s[1 + i - 1]
    BY <2>1, <2>2, SubSeqProperties
  <2> HIDE DEF a
  <2> QED BY <1>1, <2>3
<1>3. /\ b \in Seq(LruKeys) /\ Len(b) = n - p
      /\ \A i \in 1..(n - p) : b[i] = s[p + i]
  <2>1. \A i \in (p + 1)..n : s[i] \in LruKeys
    BY <1>1
  <2>2. p + 1 \in Int /\ n \in Int
    BY <1>1
  <2>3. /\ b \in Seq(LruKeys) /\ Len(b) = IF p + 1 <= n THEN n - (p + 1) + 1 ELSE 0
        /\ \A i \in 1..(n - (p + 1) + 1) : b[i] = s[(p + 1) + i - 1]
    BY <2>1, <2>2, SubSeqProperties
  <2> HIDE DEF b
  <2>4. n - (p + 1) + 1 = n - p /\ \A i \in 1..(n - p) : (p + 1) + i - 1 = p + i
    BY <1>1
  <2> QED BY <1>1, <2>3, <2>4
<1>4. t = a \o b
  BY DEF RemoveAt, n
<1> HIDE DEF a, b
<1>5. /\ t \in Seq(LruKeys) /\ Len(t) = Len(a) + Len(b)
      /\ \A j \in 1..(Len(a) + Len(b)) : t[j] = IF j <= Len(a) THEN a[j] ELSE b[j - Len(a)]
  BY <1>2, <1>3, <1>4, ConcatProperties
<1>6. ASSUME NEW j \in 1..(n - 1) PROVE t[j] = IF j < p THEN s[j] ELSE s[j + 1]
  <2>1. j \in 1..(Len(a) + Len(b)) /\ j \in Int /\ p \in Int /\ n \in Int
    BY <1>1, <1>2, <1>3
  <2>2. t[j] = IF j <= p - 1 THEN a[j] ELSE b[j - (p - 1)]
    BY <1>2, <1>5, <2>1
  <2>3. CASE j < p
    <3>1. j <= p - 1 /\ j \in 1..(p - 1)
      BY <2>1, <2>3
    <3> QED BY <1>2, <2>2, <2>3, <3>1
  <2>4. CASE ~(j < p)
    <3>1. ~(j <= p - 1) /\ j - (p - 1) \in 1..(n - p) /\ p + (j - (p - 1)) = j + 1
      BY <2>1, <2>4
    <3> QED BY <1>3, <2>2, <2>4, <3>1
  <2> QED BY <2>3, <2>4
<1>7. Len(t) = n - 1
  BY <1>1, <1>2, <1>3, <1>5
<1> QED BY <1>5, <1>6, <1>7 DEF WithoutPlace, n

\* The front of a list is what is left without its last element.
LEMMA FrontOmitsLast ==
    ASSUME NEW S, NEW s \in Seq(S), s # <<>>
    PROVE  Front(s) = RemoveAt(s, Len(s))
<1> DEFINE n == Len(s)
           a == SubSeq(s, 1, n - 1)
<1>1. n \in Nat \ {0} /\ \A i \in 1..n : s[i] \in S
  BY ElementOfSeq, EmptySeq
<1> HIDE DEF n
<1>2. a \in Seq(S)
  <2>1. \A i \in 1..(n - 1) : s[i] \in S
    BY <1>1
  <2>2. n - 1 \in Int
    BY <1>1
  <2> QED BY <2>1, <2>2, SubSeqProperties
<1>3. SubSeq(s, n + 1, n) = <<>>
  BY <1>1, SubSeqEmpty
<1> HIDE DEF a
<1> QED BY <1>2, <1>3, ConcatEmptySeq DEF Front, RemoveAt, a, n

\* The keys of a list without one of its elements.
LEMMA OmittedKeys ==
    ASSUME NEW s \in Seq(LruKeys), OnceEach(s), NEW p \in 1..Len(s), NEW t, WithoutPlace(t, s, p)
    PROVE  OnceEach(t) /\ Keys(t) = Keys(s) \ {s[p]}
<1> DEFINE n == Len(s)
           from(j) == IF j < p THEN j ELSE j + 1
<1>1. n \in Nat /\ p \in 1..n
  BY LenProperties
<1>2. /\ Len(t) = n - 1
      /\ \A j \in 1..(n - 1) : t[j] = IF j < p THEN s[j] ELSE s[j + 1]
  BY DEF WithoutPlace
<1> HIDE DEF n
<1>3. \A j \in 1..(n - 1) : t[j] = s[from(j)] /\ from(j) \in 1..n /\ from(j) # p
  BY <1>1, <1>2
<1>4. \A i, j \in 1..(n - 1) : from(i) = from(j) => i = j
  BY <1>1
<1>5. \A i \in 1..n : i # p => \E j \in 1..(n - 1) : from(j) = i
  <2> SUFFICES ASSUME NEW i \in 1..n, i # p PROVE \E j \in 1..(n - 1) : from(j) = i
    OBVIOUS
  <2>1. CASE i < p
    <3>1. i \in 1..(n - 1) /\ from(i) = i
      BY <1>1, <2>1
    <3> QED BY <3>1
  <2>2. CASE i > p
    <3>1. i - 1 \in 1..(n - 1) /\ from(i - 1) = i
      BY <1>1, <2>2
    <3> QED BY <3>1
  <2> QED BY <1>1, <2>1, <2>2
<1> HIDE DEF from
<1>6. \A i, j \in 1..n : s[i] = s[j] => i = j
  BY DEF OnceEach, n
<1>7. OnceEach(t)
  BY <1>2, <1>3, <1>4, <1>6 DEF OnceEach
<1>8. Keys(t) \subseteq Keys(s) \ {s[p]}
  BY <1>1, <1>2, <1>3, <1>6 DEF Keys, n
<1>9. Keys(s) \ {s[p]} \subseteq Keys(t)
  <2> SUFFICES ASSUME NEW i \in 1..n, s[i] # s[p] PROVE s[i] \in Keys(t)
    BY DEF Keys, n
  <2>1. PICK j \in 1..(n - 1) : from(j) = i
    BY <1>5
  <2> QED BY <1>2, <1>3, <2>1 DEF Keys
<1> QED BY <1>7, <1>8, <1>9

\* The list t is s with one more element at its head.
WithHead(t, key, s) ==
    /\ t \in Seq(LruKeys) /\ Len(t) = Len(s) + 1
    /\ t[1] = key /\ \A i \in 1..Len(s) : t[i + 1] = s[i]

\* A list with one more element at its head.
LEMMA Pushed ==
    ASSUME NEW s \in Seq(LruKeys), NEW key \in LruKeys, NEW t, t = <<key>> \o s
    PROVE  WithHead(t, key, s)
<1>1. <<key>> \in Seq(LruKeys) /\ Len(<<key>>) = 1 /\ <<key>>[1] = key /\ Len(s) \in Nat
  BY LenProperties
<1>2. /\ t \in Seq(LruKeys) /\ Len(t) = 1 + Len(s)
      /\ \A i \in 1..(1 + Len(s)) : t[i] = IF i <= 1 THEN <<key>>[i] ELSE s[i - 1]
  BY <1>1, ConcatProperties
<1>3. t[1] = key
  BY <1>1, <1>2
<1>4. ASSUME NEW i \in 1..Len(s) PROVE t[i + 1] = s[i]
  <2>1. i + 1 \in 1..(1 + Len(s)) /\ ~(i + 1 <= 1) /\ i + 1 - 1 = i
    BY <1>1
  <2> QED BY <1>2, <2>1
<1> QED BY <1>1, <1>2, <1>3, <1>4 DEF WithHead

\* The keys of a list with one more element, which it did not have.
LEMMA PushedKeys ==
    ASSUME NEW s \in Seq(LruKeys), OnceEach(s), NEW key \in LruKeys \ Keys(s),
           NEW t, WithHead(t, key, s)
    PROVE  OnceEach(t) /\ Keys(t) = Keys(s) \cup {key}
<1> DEFINE n == Len(s)
<1>1. n \in Nat
  BY LenProperties
<1>2. Len(t) = n + 1 /\ t[1] = key /\ \A i \in 1..n : t[i + 1] = s[i]
  BY DEF WithHead
<1> HIDE DEF n
<1>3. \A i \in 1..(n + 1) : i = 1 \/ (i - 1 \in 1..n /\ t[i] = s[i - 1])
  <2> SUFFICES ASSUME NEW i \in 1..(n + 1), i # 1 PROVE i - 1 \in 1..n /\ t[i] = s[i - 1]
    OBVIOUS
  <2>1. i - 1 \in 1..n /\ (i - 1) + 1 = i
    BY <1>1
  <2> QED BY <1>2, <2>1
<1>4. \A i \in 1..n : s[i] # key
  BY DEF Keys, n
<1>5. OnceEach(t)
  <2> SUFFICES ASSUME NEW i \in 1..(n + 1), NEW j \in 1..(n + 1), t[i] = t[j] PROVE i = j
    BY <1>2 DEF OnceEach
  <2>1. CASE i = 1 \/ j = 1
    BY <1>2, <1>3, <1>4, <2>1
  <2>2. CASE i # 1 /\ j # 1
    <3>1. i - 1 \in 1..n /\ j - 1 \in 1..n /\ s[i - 1] = s[j - 1]
      BY <1>3, <2>2
    <3>2. i - 1 = j - 1
      BY <3>1 DEF OnceEach, n
    <3> QED BY <1>1, <3>2
  <2> QED BY <2>1, <2>2
<1>6. Keys(t) = {t[i] : i \in 1..(n + 1)} /\ Keys(s) = {s[i] : i \in 1..n}
  BY <1>2 DEF Keys, n
<1>7. Keys(t) \subseteq Keys(s) \cup {key}
  BY <1>2, <1>3, <1>6
<1>8. 1 \in 1..(n + 1) /\ \A i \in 1..n : i + 1 \in 1..(n + 1)
  BY <1>1
<1>9. Keys(s) \cup {key} \subseteq Keys(t)
  BY <1>2, <1>6, <1>8
<1> QED BY <1>5, <1>7, <1>9

----------------------------------------------------------------------------
(* The links.                                                              *)

\* The places of a list without one of its elements.
LEMMA OmittedEntries ==
    ASSUME NEW s \in Seq(LruKeys), NEW p \in 1..Len(s), NEW t, WithoutPlace(t, s, p)
    PROVE  \A j \in Int : EntryAt(t, j) = IF j < p THEN EntryAt(s, j) ELSE EntryAt(s, j + 1)
<1> DEFINE n == Len(s)
<1>1. n \in Nat /\ p \in 1..n
  BY LenProperties
<1>2. /\ Len(t) = n - 1
      /\ \A j \in 1..(n - 1) : t[j] = IF j < p THEN s[j] ELSE s[j + 1]
  BY DEF WithoutPlace
<1>3. /\ \A j : EntryAt(s, j) = IF j \in 1..n THEN s[j] ELSE NoEntry
      /\ \A j : EntryAt(t, j) = IF j \in 1..(n - 1) THEN t[j] ELSE NoEntry
  BY <1>2 DEF EntryAt
<1> HIDE DEF n
<1> SUFFICES ASSUME NEW j \in Int
             PROVE  EntryAt(t, j) = IF j < p THEN EntryAt(s, j) ELSE EntryAt(s, j + 1)
  OBVIOUS
<1>4. CASE j < p
  <2>1. j \in 1..(n - 1) <=> j \in 1..n
    BY <1>1, <1>4
  <2> QED BY <1>2, <1>3, <1>4, <2>1
<1>5. CASE ~(j < p)
  <2>1. j \in 1..(n - 1) <=> j + 1 \in 1..n
    BY <1>1, <1>5
  <2> QED BY <1>2, <1>3, <1>5, <2>1
<1> QED BY <1>4, <1>5

\* What the links of a list say of its places.
ListChained(l, s) ==
    /\ Len(s) \in Nat
    /\ \A i \in 1..Len(s) :
         /\ s[i] \in LruKeys /\ s[i] # NoEntry /\ EntryAt(s, i) = s[i]
         /\ l.next[s[i]] = EntryAt(s, i + 1) /\ l.prev[s[i]] = EntryAt(s, i - 1)
    /\ \A i : i \notin 1..Len(s) => EntryAt(s, i) = NoEntry
    /\ \A i : EntryAt(s, i) \in LruKeys \cup {NoEntry}
    /\ \A i, j \in 1..Len(s) : s[i] = s[j] => i = j

\* Each entry of a list is linked to those beside it.
LEMMA LinkedEntries ==
    ASSUME NEW l, NEW s \in Seq(LruKeys), OnceEach(s), Linked(l, s)
    PROVE  ListChained(l, s)
<1>1. Len(s) \in Nat /\ \A i \in 1..Len(s) : s[i] \in LruKeys
  BY LenProperties, ElementOfSeq
<1>2. \A i \in 1..Len(s) : s[i] # NoEntry
  BY <1>1, LruAssumption
<1>3. \A i \in 1..Len(s) : l.next[s[i]] = EntryAt(s, i + 1) /\ l.prev[s[i]] = EntryAt(s, i - 1)
  BY DEF Linked
<1> QED BY <1>1, <1>2, <1>3 DEF EntryAt, OnceEach, ListChained

\* _lruRemoveEntry() leaves the list without the entry.
LEMMA RemoveLinked ==
    ASSUME NEW l, NEW s \in Seq(LruKeys), OnceEach(s), Linked(l, s), NEW p \in 1..Len(s),
           NEW t, WithoutPlace(t, s, p), NEW m, m = lruRemoveEntry(l, s[p])
    PROVE  Linked(m, t)
<1> DEFINE n == Len(s)
           next == EntryAt(s, p + 1)
           prev == EntryAt(s, p - 1)
<1>1. /\ n \in Nat /\ p \in 1..n
      /\ \A i \in 1..n :
           /\ s[i] \in LruKeys /\ s[i] # NoEntry /\ EntryAt(s, i) = s[i]
           /\ l.next[s[i]] = EntryAt(s, i + 1) /\ l.prev[s[i]] = EntryAt(s, i - 1)
      /\ \A i : i \notin 1..n => EntryAt(s, i) = NoEntry
      /\ \A i : EntryAt(s, i) \in LruKeys \cup {NoEntry}
      /\ \A i, j \in 1..n : s[i] = s[j] => i = j
  <2>1. ListChained(l, s)
    BY LinkedEntries
  <2> QED BY <2>1 DEF ListChained
<1>2. /\ Len(t) = n - 1
      /\ \A j \in 1..(n - 1) : t[j] = IF j < p THEN s[j] ELSE s[j + 1]
  BY DEF WithoutPlace
<1>3. \A j \in Int : EntryAt(t, j) = IF j < p THEN EntryAt(s, j) ELSE EntryAt(s, j + 1)
  BY OmittedEntries
<1>4. /\ l.next \in [LruKeys -> LruKeys \cup {NoEntry}]
      /\ l.prev \in [LruKeys -> LruKeys \cup {NoEntry}]
      /\ l.head = EntryAt(s, 1) /\ l.tail = EntryAt(s, n)
  BY DEF Linked
<1>5. l.next[s[p]] = next /\ l.prev[s[p]] = prev
  BY <1>1
<1>6. m = [head |-> IF prev = NoEntry THEN next ELSE l.head,
           tail |-> IF next = NoEntry THEN prev ELSE l.tail,
           next |-> Link(l.next, prev, next), prev |-> Link(l.prev, next, prev)]
  BY <1>5 DEF lruRemoveEntry
<1> HIDE DEF n
<1>7. (prev = NoEntry <=> p = 1) /\ (p # 1 => p - 1 \in 1..n /\ prev = s[p - 1])
  <2>1. p = 1 => p - 1 \notin 1..n
    OBVIOUS
  <2>2. p # 1 => p - 1 \in 1..n
    BY <1>1
  <2>3. p \in 1..n /\ p - 1 \in Int
    BY <1>1
  <2> QED BY <1>1, <2>1, <2>2, <2>3
<1>8. (next = NoEntry <=> p = n) /\ (p # n => p + 1 \in 1..n /\ next = s[p + 1])
  BY <1>1
<1>9. /\ p \in Int /\ n \in Int /\ 1 <= p /\ p <= n
  BY <1>1
<1>10. next \in LruKeys \cup {NoEntry} /\ prev \in LruKeys \cup {NoEntry}
  BY <1>1
<1> DEFINE mn == Link(l.next, prev, next)
           mp == Link(l.prev, next, prev)
<1>11. /\ mn \in [LruKeys -> LruKeys \cup {NoEntry}]
       /\ \A key \in LruKeys : mn[key] = IF key = prev THEN next ELSE l.next[key]
  BY <1>4, <1>10, LruAssumption DEF Link
<1>12. /\ mp \in [LruKeys -> LruKeys \cup {NoEntry}]
       /\ \A key \in LruKeys : mp[key] = IF key = next THEN prev ELSE l.prev[key]
  BY <1>4, <1>10, LruAssumption DEF Link
<1>13. /\ m = [head |-> m.head, tail |-> m.tail, next |-> m.next, prev |-> m.prev]
       /\ m.next = mn /\ m.prev = mp
  BY <1>6
<1>14. m.head = EntryAt(t, 1)
  <2>1. CASE p = 1
    <3>1. m.head = EntryAt(s, 2)
      BY <1>6, <1>7, <2>1
    <3> QED BY <1>3, <2>1, <3>1
  <2>2. CASE p # 1
    <3>1. m.head = EntryAt(s, 1) /\ 1 < p
      BY <1>4, <1>6, <1>7, <1>9, <2>2
    <3> QED BY <1>3, <3>1
  <2> QED BY <2>1, <2>2
<1>15. m.tail = EntryAt(t, n - 1)
  <2>1. CASE p = n
    <3>1. m.tail = EntryAt(s, n - 1) /\ n - 1 < p /\ n - 1 \in Int
      BY <1>6, <1>8, <1>9, <2>1
    <3> QED BY <1>3, <3>1
  <2>2. CASE p # n
    <3>1. m.tail = EntryAt(s, n) /\ ~(n - 1 < p) /\ n - 1 \in Int /\ n - 1 + 1 = n
      BY <1>4, <1>6, <1>8, <1>9, <2>2
    <3> QED BY <1>3, <3>1
  <2> QED BY <2>1, <2>2
<1>16. ASSUME NEW i \in 1..n
       PROVE  /\ m.next[s[i]] = IF s[i] = prev THEN next ELSE EntryAt(s, i + 1)
              /\ m.prev[s[i]] = IF s[i] = next THEN prev ELSE EntryAt(s, i - 1)
  <2>1. s[i] \in LruKeys /\ l.next[s[i]] = EntryAt(s, i + 1) /\ l.prev[s[i]] = EntryAt(s, i - 1)
    BY <1>1
  <2> HIDE DEF next, prev, mn, mp
  <2> QED BY <1>11, <1>12, <1>13, <2>1
<1> HIDE DEF next, prev, mn, mp
<1>17. ASSUME NEW i \in 1..(n - 1) PROVE m.next[t[i]] = EntryAt(t, i + 1)
  <2>1. i \in Int /\ i + 1 \in Int /\ i \in 1..n /\ i + 1 \in 1..n
    BY <1>9
  <2>2. CASE i < p
    <3>1. t[i] = s[i] /\ m.next[t[i]] = IF s[i] = prev THEN next ELSE EntryAt(s, i + 1)
      BY <1>2, <1>16, <2>1, <2>2
    <3>2. CASE i = p - 1
      <4>1. s[i] = prev /\ i + 1 = p
        BY <1>7, <1>9, <2>1, <3>2
      <4>2. EntryAt(t, i + 1) = EntryAt(s, p + 1)
        BY <1>3, <1>9, <4>1
      <4> QED BY <3>1, <4>1, <4>2 DEF next
    <3>3. CASE i # p - 1
      <4>1. s[i] # prev
        BY <1>1, <1>7, <2>1, <3>3
      <4>2. i + 1 < p
        BY <1>9, <2>1, <2>2, <3>3
      <4> QED BY <1>3, <2>1, <3>1, <4>1, <4>2
    <3> QED BY <3>2, <3>3
  <2>3. CASE ~(i < p)
    <3>1. t[i] = s[i + 1] /\ i + 1 # p - 1 /\ ~(i + 1 < p)
      BY <1>2, <1>9, <2>1, <2>3
    <3>2. s[i + 1] # prev
      BY <1>1, <1>7, <2>1, <3>1
    <3>3. m.next[t[i]] = EntryAt(s, i + 1 + 1)
      BY <1>16, <2>1, <3>1, <3>2
    <3> QED BY <1>3, <2>1, <3>1, <3>3
  <2> QED BY <2>2, <2>3
<1>18. ASSUME NEW i \in 1..(n - 1) PROVE m.prev[t[i]] = EntryAt(t, i - 1)
  <2>1. i \in Int /\ i - 1 \in Int /\ i \in 1..n /\ i + 1 \in 1..n /\ i + 1 - 1 = i
    BY <1>9
  <2>2. CASE i < p
    <3>1. t[i] = s[i] /\ i # p + 1 /\ i - 1 < p
      BY <1>2, <1>9, <2>1, <2>2
    <3>2. s[i] # next
      BY <1>1, <1>8, <2>1, <3>1
    <3>3. m.prev[t[i]] = EntryAt(s, i - 1)
      BY <1>16, <2>1, <3>1, <3>2
    <3> QED BY <1>3, <2>1, <3>1, <3>3
  <2>3. CASE ~(i < p)
    <3>1. t[i] = s[i + 1] /\ m.prev[t[i]] = IF s[i + 1] = next THEN prev ELSE EntryAt(s, i)
      BY <1>2, <1>16, <2>1, <2>3
    <3>2. CASE i = p
      <4>1. s[i + 1] = next /\ p - 1 < p /\ p - 1 \in Int
        BY <1>8, <1>9, <2>1, <3>2
      <4>2. EntryAt(t, i - 1) = EntryAt(s, p - 1)
        BY <1>3, <3>2, <4>1
      <4> QED BY <3>1, <4>1, <4>2 DEF prev
    <3>3. CASE i # p
      <4>1. i + 1 # p + 1
        BY <1>9, <2>1, <3>3
      <4>2. s[i + 1] # next
        BY <1>1, <1>8, <2>1, <4>1
      <4>3. ~(i - 1 < p) /\ i - 1 + 1 = i
        BY <1>9, <2>1, <2>3, <3>3
      <4> QED BY <1>3, <2>1, <3>1, <4>2, <4>3
    <3> QED BY <3>2, <3>3
  <2> QED BY <2>2, <2>3
<1> QED BY <1>2, <1>11, <1>12, <1>13, <1>14, <1>15, <1>17, <1>18 DEF Linked

\* _removeEntry() leaves it so too, and the key without links.
LEMMA UnlinkedLinked ==
    ASSUME NEW l, NEW s \in Seq(LruKeys), OnceEach(s), Linked(l, s), NEW p \in 1..Len(s),
           NEW t, WithoutPlace(t, s, p), NEW m, m = Unlinked(l, s[p])
    PROVE  Linked(m, t)
<1> DEFINE n == Len(s)
           r == lruRemoveEntry(l, s[p])
<1>1. s[p] \in LruKeys
  <2>1. ListChained(l, s)
    BY LinkedEntries
  <2> QED BY <2>1 DEF ListChained
<1>2. Linked(r, t)
  BY RemoveLinked
<1>3. t \in Seq(LruKeys) /\ OnceEach(t) /\ Keys(t) = Keys(s) \ {s[p]}
  BY OmittedKeys DEF WithoutPlace
<1>4. \A i \in 1..Len(t) :
        /\ t[i] \in LruKeys
        /\ r.next[t[i]] = EntryAt(t, i + 1) /\ r.prev[t[i]] = EntryAt(t, i - 1)
  BY <1>2, <1>3, LinkedEntries DEF ListChained
<1>5. \A i \in 1..Len(t) : t[i] # s[p]
  BY <1>3 DEF Keys
<1>6. m = [r EXCEPT !.next[s[p]] = NoEntry, !.prev[s[p]] = NoEntry]
  BY DEF Unlinked
<1>7. /\ r = [head |-> r.head, tail |-> r.tail, next |-> r.next, prev |-> r.prev]
      /\ r.next \in [LruKeys -> LruKeys \cup {NoEntry}]
      /\ r.prev \in [LruKeys -> LruKeys \cup {NoEntry}]
      /\ r.head = EntryAt(t, 1) /\ r.tail = EntryAt(t, Len(t))
  BY <1>2 DEF Linked
<1> HIDE DEF r
<1>8. m = [head |-> r.head, tail |-> r.tail,
           next |-> [r.next EXCEPT ![s[p]] = NoEntry],
           prev |-> [r.prev EXCEPT ![s[p]] = NoEntry]]
  BY <1>6, <1>7
<1>9. /\ m = [head |-> m.head, tail |-> m.tail, next |-> m.next, prev |-> m.prev]
      /\ m.head = r.head /\ m.tail = r.tail
      /\ m.next = [r.next EXCEPT ![s[p]] = NoEntry]
      /\ m.prev = [r.prev EXCEPT ![s[p]] = NoEntry]
  BY <1>8
<1>10. /\ m.next \in [LruKeys -> LruKeys \cup {NoEntry}]
       /\ m.prev \in [LruKeys -> LruKeys \cup {NoEntry}]
       /\ \A key \in LruKeys : key # s[p] => m.next[key] = r.next[key] /\ m.prev[key] = r.prev[key]
  BY <1>1, <1>7, <1>9
<1>11. \A i \in 1..Len(t) : m.next[t[i]] = EntryAt(t, i + 1) /\ m.prev[t[i]] = EntryAt(t, i - 1)
  BY <1>4, <1>5, <1>10
<1> QED BY <1>7, <1>9, <1>10, <1>11 DEF Linked

\* The places of a list with one more element.
LEMMA PushedEntries ==
    ASSUME NEW s \in Seq(LruKeys), NEW key, NEW t, WithHead(t, key, s), NEW j \in Int
    PROVE  (j = 1 => EntryAt(t, j) = key) /\ (j # 1 => EntryAt(t, j) = EntryAt(s, j - 1))
<1> DEFINE n == Len(s)
<1>1. n \in Nat
  BY LenProperties
<1>2. Len(t) = n + 1 /\ t[1] = key /\ \A i \in 1..n : t[i + 1] = s[i]
  BY DEF WithHead
<1>3. /\ \A i : EntryAt(s, i) = IF i \in 1..n THEN s[i] ELSE NoEntry
      /\ \A i : EntryAt(t, i) = IF i \in 1..(n + 1) THEN t[i] ELSE NoEntry
  BY <1>2 DEF EntryAt
<1> HIDE DEF n
<1>4. CASE j = 1
  BY <1>1, <1>2, <1>3, <1>4
<1>5. CASE j # 1 /\ j \in 1..(n + 1)
  <2>1. j - 1 \in 1..n /\ j - 1 + 1 = j
    BY <1>1, <1>5
  <2>2. t[j] = s[j - 1]
    BY <1>2, <2>1
  <2> QED BY <1>3, <1>5, <2>1, <2>2
<1>6. CASE j # 1 /\ j \notin 1..(n + 1)
  <2>1. j - 1 \notin 1..n
    BY <1>1, <1>6
  <2> QED BY <1>3, <1>6, <2>1
<1> QED BY <1>4, <1>5, <1>6

\* _lruPushEntry() puts an entry that is not in the list at its head.
LEMMA PushLinked ==
    ASSUME NEW l, NEW s \in Seq(LruKeys), OnceEach(s), Linked(l, s),
           NEW key \in LruKeys, key \notin Keys(s),
           NEW t, WithHead(t, key, s), NEW m, m = lruPushEntry(l, key)
    PROVE  Linked(m, t)
<1> DEFINE n == Len(s)
           mn == [l.next EXCEPT ![key] = l.head]
           mp == Link([l.prev EXCEPT ![key] = NoEntry], l.head, key)
<1>1. /\ n \in Nat
      /\ \A i \in 1..n :
           /\ s[i] \in LruKeys /\ s[i] # NoEntry /\ EntryAt(s, i) = s[i]
           /\ l.next[s[i]] = EntryAt(s, i + 1) /\ l.prev[s[i]] = EntryAt(s, i - 1)
      /\ \A i : i \notin 1..n => EntryAt(s, i) = NoEntry
      /\ \A i : EntryAt(s, i) \in LruKeys \cup {NoEntry}
      /\ \A i, j \in 1..n : s[i] = s[j] => i = j
  <2>1. ListChained(l, s)
    BY LinkedEntries
  <2> QED BY <2>1 DEF ListChained
<1>2. Len(t) = n + 1 /\ t[1] = key /\ \A i \in 1..n : t[i + 1] = s[i]
  BY DEF WithHead
<1>3. \A j \in Int :
        (j = 1 => EntryAt(t, j) = key) /\ (j # 1 => EntryAt(t, j) = EntryAt(s, j - 1))
  BY PushedEntries
<1>4. /\ l.next \in [LruKeys -> LruKeys \cup {NoEntry}]
      /\ l.prev \in [LruKeys -> LruKeys \cup {NoEntry}]
      /\ l.head = EntryAt(s, 1) /\ l.tail = EntryAt(s, n)
  BY DEF Linked
<1>5. \A i \in 1..n : s[i] # key
  BY DEF Keys
<1>6. key # NoEntry
  BY LruAssumption
<1>7. m = [head |-> key, tail |-> IF l.tail = NoEntry THEN key ELSE l.tail,
           next |-> mn, prev |-> mp]
  BY DEF lruPushEntry
<1> HIDE DEF n
<1>8. l.head \in LruKeys \cup {NoEntry}
  BY <1>1, <1>4
<1>9. /\ mn \in [LruKeys -> LruKeys \cup {NoEntry}]
      /\ \A k \in LruKeys : mn[k] = IF k = key THEN l.head ELSE l.next[k]
  BY <1>4, <1>8
<1>10. /\ mp \in [LruKeys -> LruKeys \cup {NoEntry}]
       /\ \A k \in LruKeys :
            mp[k] = IF k = l.head THEN key ELSE IF k = key THEN NoEntry ELSE l.prev[k]
  BY <1>4, <1>8, LruAssumption DEF Link
<1>11. /\ m = [head |-> m.head, tail |-> m.tail, next |-> m.next, prev |-> m.prev]
       /\ m.next = mn /\ m.prev = mp /\ m.head = key
       /\ m.tail = IF l.tail = NoEntry THEN key ELSE l.tail
  BY <1>7
<1> HIDE DEF mn, mp
<1>12. m.head = EntryAt(t, 1)
  BY <1>3, <1>11
<1>13. m.tail = EntryAt(t, n + 1)
  <2>1. n + 1 \in Int /\ n + 1 - 1 = n /\ (n + 1 = 1 <=> n = 0)
    BY <1>1
  <2>2. /\ n = 0 => EntryAt(t, n + 1) = key
        /\ n # 0 => EntryAt(t, n + 1) = EntryAt(s, n)
    BY <1>1, <1>3, <2>1
  <2>3. CASE n = 0
    <3>1. n \notin 1..n
      BY <2>3
    <3> QED BY <1>1, <1>4, <1>11, <2>2, <2>3, <3>1
  <2>4. CASE n # 0
    <3>1. n \in 1..n
      BY <1>1, <2>4
    <3>2. EntryAt(s, n) # NoEntry
      BY <1>1, <3>1
    <3> QED BY <1>4, <1>11, <2>2, <2>4, <3>2
  <2> QED BY <2>3, <2>4
<1>14. l.head # key
  BY <1>1, <1>4, <1>5, <1>6 DEF EntryAt, n
<1>15. m.next[t[1]] = EntryAt(t, 1 + 1) /\ m.prev[t[1]] = EntryAt(t, 1 - 1)
  <2>1. EntryAt(t, 1 + 1) = EntryAt(s, 1) /\ EntryAt(t, 1 - 1) = EntryAt(s, -1)
    BY <1>3
  <2>2. EntryAt(s, -1) = NoEntry
    BY <1>1
  <2> QED BY <1>2, <1>4, <1>9, <1>10, <1>11, <1>14, <2>1, <2>2
<1>16. ASSUME NEW i \in 1..n
       PROVE  m.next[t[i + 1]] = EntryAt(t, i + 1 + 1) /\ m.prev[t[i + 1]] = EntryAt(t, i + 1 - 1)
  <2>1. /\ i \in Int /\ i + 1 \in Int /\ i + 1 + 1 \in Int /\ i + 1 - 1 = i /\ i + 1 + 1 # 1
        /\ i + 1 + 1 - 1 = i + 1
    BY <1>1
  <2>2. t[i + 1] = s[i] /\ s[i] \in LruKeys /\ s[i] # key
    BY <1>1, <1>2, <1>5
  <2>3. m.next[t[i + 1]] = EntryAt(s, i + 1)
    <3>1. l.next[s[i]] = EntryAt(s, i + 1)
      BY <1>1
    <3> QED BY <1>9, <1>11, <2>2, <3>1
  <2>4. EntryAt(t, i + 1 + 1) = EntryAt(s, i + 1)
    BY <1>3, <2>1
  <2>5. m.prev[t[i + 1]] = IF s[i] = l.head THEN key ELSE EntryAt(s, i - 1)
    <3>1. l.prev[s[i]] = EntryAt(s, i - 1)
      BY <1>1
    <3> QED BY <1>10, <1>11, <2>2, <3>1
  <2>6. s[i] = l.head <=> i = 1
    <3>1. 1 \in 1..n /\ l.head = s[1]
      BY <1>1, <1>4
    <3> QED BY <1>1, <3>1
  <2>7. EntryAt(t, i) = IF i = 1 THEN key ELSE EntryAt(s, i - 1)
    BY <1>3, <2>1
  <2> QED BY <2>1, <2>3, <2>4, <2>5, <2>6, <2>7
<1>17. ASSUME NEW i \in 1..Len(t)
       PROVE  m.next[t[i]] = EntryAt(t, i + 1) /\ m.prev[t[i]] = EntryAt(t, i - 1)
  <2>1. CASE i = 1
    BY <1>15, <2>1
  <2>2. CASE i # 1
    <3>1. i - 1 \in 1..n /\ i - 1 + 1 = i
      BY <1>1, <1>2, <2>2
    <3>2. /\ m.next[t[i - 1 + 1]] = EntryAt(t, i - 1 + 1 + 1)
          /\ m.prev[t[i - 1 + 1]] = EntryAt(t, i - 1 + 1 - 1)
      BY <1>16, <3>1
    <3> QED BY <3>1, <3>2
  <2> QED BY <2>1, <2>2
<1> QED BY <1>2, <1>9, <1>10, <1>11, <1>12, <1>13, <1>17 DEF Linked

\* The first of some places.
LEMMA FirstPlace ==
    ASSUME NEW T \in SUBSET Nat, T # {}
    PROVE  \E i \in T : \A j \in T : i <= j
<1>1. IsWellFoundedOn(OpToRel(<, Nat), Nat)
  BY NatLessThanWellFounded
<1>2. PICK i \in T : \A j \in T : ~ (<<j, i>> \in OpToRel(<, Nat))
  BY <1>1, WFMin
<1>3. ASSUME NEW j \in T PROVE i <= j
  <2>1. ~(j < i)
    BY <1>2 DEF OpToRel
  <2> QED BY <2>1
<1> QED BY <1>3

\* What the links list is what they are linked as.
LEMMA ListedIs ==
    ASSUME NEW l, NEW s \in Seq(LruKeys), OnceEach(s), Linked(l, s)
    PROVE  ListedFrom(l, Len(s)) = s
<1> DEFINE n == Len(s)
           Next(g) == [i \in 1..n |->
                         IF i = 1 THEN l.head
                         ELSE IF g[i - 1] = NoEntry THEN NoEntry ELSE l.next[g[i - 1]]]
           at == CHOOSE g : g = Next(g)
           f == [i \in 1..n |-> s[i]]
<1>1. ListedFrom(l, n) = [i \in 1..n |-> at[i]]
  BY Zenon DEF ListedFrom
<1>2. /\ n \in Nat
      /\ \A i \in 1..n :
           s[i] # NoEntry /\ EntryAt(s, i) = s[i] /\ l.next[s[i]] = EntryAt(s, i + 1)
  BY LinkedEntries DEF ListChained
<1>3. s = f
  BY LenProperties
<1>4. l.head = EntryAt(s, 1)
  BY DEF Linked
<1> HIDE DEF n
<1>5. \A i \in 1..n : i # 1 => i - 1 \in 1..n /\ i - 1 + 1 = i
  BY <1>2
<1>6. \A i \in 1..n :
        s[i] = IF i = 1 THEN l.head ELSE IF s[i - 1] = NoEntry THEN NoEntry ELSE l.next[s[i - 1]]
  BY <1>2, <1>4, <1>5
<1>7. f = Next(f)
  <2>1. \A i \in 1..n : i # 1 => f[i - 1] = s[i - 1]
    BY <1>5
  <2> QED BY <1>6, <2>1
<1>8. at = Next(at)
  <2> HIDE DEF Next, f
  <2> QED BY <1>7
<1> HIDE DEF at
<1>9. \A i \in 1..n :
        at[i] = IF i = 1 THEN l.head ELSE IF at[i - 1] = NoEntry THEN NoEntry ELSE l.next[at[i - 1]]
  BY <1>8
<1>10. \A i \in 1..n : at[i] = s[i]
  <2> DEFINE T == {i \in 1..n : at[i] # s[i]}
  <2>1. SUFFICES ASSUME T # {} PROVE FALSE
    OBVIOUS
  <2>2. PICK i \in T : \A j \in T : i <= j
    <3>1. T \in SUBSET Nat
      BY <1>2
    <3> HIDE DEF T
    <3> QED BY <2>1, <3>1, FirstPlace
  <2>3. i \in 1..n /\ at[i] # s[i]
    BY <2>2
  <2>4. CASE i = 1
    BY <1>6, <1>9, <2>3, <2>4
  <2>5. CASE i # 1
    <3>1. i - 1 \in 1..n /\ ~(i <= i - 1)
      BY <1>2, <1>5, <2>3, <2>5
    <3>2. at[i - 1] = s[i - 1]
      BY <2>2, <3>1
    <3> QED BY <1>6, <1>9, <2>3, <2>5, <3>2
  <2> QED BY <2>4, <2>5
<1> QED BY <1>1, <1>3, <1>10 DEF n

----------------------------------------------------------------------------
(* What the calls do to the list, the counter and the entries.             *)

\* An entry is moved to the head: add() of its key, and get().
LEMMA Touched ==
    ASSUME NEW s, NEW l, NEW n, NEW entries, Lists(s, l, n, entries), NEW p \in 1..Len(s),
           NEW f, DOMAIN f = DOMAIN entries,
           NEW key, key = s[p], NEW r, WithoutPlace(r, s, p), NEW t, WithHead(t, key, r)
    PROVE  Lists(t, lruPushEntry(lruRemoveEntry(l, key), key), n, f)
<1>1. /\ s \in Seq(LruKeys) /\ OnceEach(s) /\ Linked(l, s)
      /\ n = Len(s) /\ n <= MaxEntries /\ DOMAIN entries = Keys(s)
  BY DEF Lists
<1>2. key \in LruKeys /\ n \in Nat /\ key \in Keys(s)
  BY <1>1, LinkedEntries DEF Keys, ListChained
<1>3. r \in Seq(LruKeys) /\ Len(r) = n - 1 /\ OnceEach(r) /\ Keys(r) = Keys(s) \ {key}
  BY <1>1, OmittedKeys DEF WithoutPlace
<1>4. Linked(lruRemoveEntry(l, key), r)
  BY <1>1, RemoveLinked
<1>5. OnceEach(t) /\ Keys(t) = Keys(r) \cup {key}
  BY <1>2, <1>3, PushedKeys
<1>6. Linked(lruPushEntry(lruRemoveEntry(l, key), key), t)
  BY <1>2, <1>3, <1>4, PushLinked
<1>7. t \in Seq(LruKeys) /\ Len(t) = n /\ Keys(t) = Keys(s)
  BY <1>2, <1>3, <1>5 DEF WithHead
<1> QED BY <1>1, <1>5, <1>6, <1>7 DEF Lists

\* An entry is removed.
LEMMA Dismissed ==
    ASSUME NEW s, NEW l, NEW n, NEW entries, Lists(s, l, n, entries), NEW p \in 1..Len(s),
           NEW t, WithoutPlace(t, s, p)
    PROVE  Lists(t, Unlinked(l, s[p]), n - 1, Dropped(entries, s[p]))
<1>1. /\ s \in Seq(LruKeys) /\ OnceEach(s) /\ Linked(l, s)
      /\ n = Len(s) /\ n <= MaxEntries /\ DOMAIN entries = Keys(s)
  BY DEF Lists
<1>2. n \in Nat /\ MaxEntries \in Nat
  BY <1>1, LinkedEntries, LruAssumption DEF ListChained
<1>3. t \in Seq(LruKeys) /\ Len(t) = n - 1 /\ OnceEach(t) /\ Keys(t) = Keys(s) \ {s[p]}
  BY <1>1, OmittedKeys DEF WithoutPlace
<1>4. Linked(Unlinked(l, s[p]), t)
  BY <1>1, UnlinkedLinked
<1>5. DOMAIN Dropped(entries, s[p]) = Keys(t)
  BY <1>1, <1>3 DEF Dropped
<1>6. n - 1 <= MaxEntries
  BY <1>1, <1>2
<1> QED BY <1>3, <1>4, <1>5, <1>6 DEF Lists

\* An entry is added, when there is room.
LEMMA Admitted ==
    ASSUME NEW s, NEW l, NEW n, NEW entries, Lists(s, l, n, entries), n < MaxEntries,
           NEW key \in LruKeys, key \notin DOMAIN entries,
           NEW f, DOMAIN f = DOMAIN entries \cup {key},
           NEW t, WithHead(t, key, s)
    PROVE  Lists(t, lruPushEntry(l, key), n + 1, f)
<1>1. /\ s \in Seq(LruKeys) /\ OnceEach(s) /\ Linked(l, s)
      /\ n = Len(s) /\ DOMAIN entries = Keys(s)
  BY DEF Lists
<1>2. n \in Nat /\ MaxEntries \in Nat /\ key \in LruKeys \ Keys(s)
  BY <1>1, LinkedEntries, LruAssumption DEF ListChained
<1>3. t \in Seq(LruKeys) /\ Len(t) = Len(s) + 1
  BY DEF WithHead
<1>4. OnceEach(t) /\ Keys(t) = Keys(s) \cup {key}
  BY <1>1, <1>2, PushedKeys
<1>5. Linked(lruPushEntry(l, key), t)
  BY <1>1, <1>2, PushLinked
<1>6. n + 1 <= MaxEntries
  BY <1>2
<1> QED BY <1>1, <1>3, <1>4, <1>5, <1>6 DEF Lists

\* The list that is linked is the one that is listed.
LEMMA ListsListed ==
    ASSUME NEW s, NEW l, NEW n, NEW entries, Lists(s, l, n, entries)
    PROVE  ListedFrom(l, n) = s
BY ListedIs DEF Lists

----------------------------------------------------------------------------
(* The calls are those of the cache that is promised.                      *)

\* What the invariant says of the entries.
LEMMA Present ==
    ASSUME LruInv, NEW s, s = Listed, NEW key
    PROVE  /\ Lists(s, links, entryCount, entryMap)
           /\ s \in Seq(LruKeys) /\ OnceEach(s) /\ Len(s) \in Nat /\ entryCount = Len(s)
           /\ DOMAIN entryMap = Keys(s)
           /\ Promised!IsCached(key) <=> key \in DOMAIN entryMap
           /\ key \in DOMAIN entryMap => \E p \in 1..Len(s) : s[p] = key
<1>1. Lists(s, links, entryCount, entryMap)
  BY DEF LruInv
<1>2. /\ s \in Seq(LruKeys) /\ OnceEach(s) /\ entryCount = Len(s) /\ DOMAIN entryMap = Keys(s)
  BY <1>1 DEF Lists
<1>3. Len(s) \in Nat
  BY <1>2, LenProperties
<1>4. Promised!IsCached(key) <=> \E i \in 1..Len(s) : s[i] = key
  BY DEF Promised!IsCached
<1> QED BY <1>1, <1>2, <1>3, <1>4 DEF Keys

\* The list without a key is the list without its place.
LEMMA WithoutKey ==
    ASSUME NEW s, s = Listed, s \in Seq(LruKeys), OnceEach(s), NEW p \in 1..Len(s)
    PROVE  Promised!Without(s[p]) = RemoveAt(s, p)
<1>1. (CHOOSE i \in 1..Len(s) : s[i] = s[p]) = p
  <2>1. \A i \in 1..Len(s) : s[i] = s[p] => i = p
    BY DEF OnceEach
  <2> QED BY <2>1
<1>2. Promised!Without(s[p]) = Promised!RemoveAt(s, CHOOSE i \in 1..Len(s) : s[i] = s[p])
  BY DEF Promised!Without
<1> QED BY <1>1, <1>2 DEF Promised!RemoveAt, RemoveAt

\* The list after a step.
LEMMA ListedNext ==
    ASSUME NEW t, Lists(t, links', entryCount', entryMap')
    PROVE  LruInv' /\ Listed' = t
<1>1. ListedFrom(links', entryCount') = t
  BY ListsListed
<1>2. Listed' = t
  BY <1>1 DEF Listed
<1> QED BY <1>2 DEF LruInv

\* add() of a key that has an entry.
LEMMA UpdateAddsAgain ==
    ASSUME LruInv, NEW key \in LruKeys, NEW value \in LruValues, Update(key, value)
    PROVE  LruInv' /\ Promised!AddAgain(key, value)
<1>1. PICK s : s = Listed
  OBVIOUS
<1>2. key \in DOMAIN entryMap
  BY DEF Update
<1>3. /\ Lists(s, links, entryCount, entryMap)
      /\ s \in Seq(LruKeys) /\ OnceEach(s) /\ Promised!IsCached(key)
      /\ \E p \in 1..Len(s) : s[p] = key
  BY <1>1, <1>2, Present
<1>4. PICK p \in 1..Len(s) : s[p] = key
  BY <1>3
<1>5. PICK r, t : r = RemoveAt(s, p) /\ t = <<key>> \o r
  OBVIOUS
<1>6. WithoutPlace(r, s, p) /\ WithHead(t, key, r)
  <2>1. WithoutPlace(r, s, p)
    BY <1>3, <1>5, Omitted
  <2>2. r \in Seq(LruKeys)
    BY <2>1 DEF WithoutPlace
  <2>3. WithHead(t, key, r)
    BY <1>5, <2>2, Pushed
  <2> QED BY <2>1, <2>3
<1>7. PICK f : f = [entryMap EXCEPT ![key] = value]
  OBVIOUS
<1>8. DOMAIN f = DOMAIN entryMap
  BY <1>7
<1>9. Lists(t, lruPushEntry(lruRemoveEntry(links, key), key), entryCount, f)
  BY <1>3, <1>4, <1>6, <1>8, Touched
<1>10. Lists(t, links', entryCount', entryMap')
  BY <1>7, <1>9 DEF Update
<1>11. LruInv' /\ Listed' = t
  BY <1>10, ListedNext
<1>12. Promised!Without(key) = RemoveAt(s, p)
  BY <1>1, <1>3, <1>4, WithoutKey
<1>13. Listed' = <<key>> \o Promised!Without(key)
  BY <1>4, <1>5, <1>11, <1>12
<1> QED BY <1>3, <1>11, <1>13 DEF Promised!AddAgain, Update

\* add() of another key: the one at the tail, which makes room for it, is the last one used.
LEMMA InsertAddsNew ==
    ASSUME LruInv, NEW key \in LruKeys, NEW value \in LruValues, Insert(key, value)
    PROVE  LruInv' /\ Promised!AddNew(key, value)
<1> DEFINE full == entryCount = MaxEntries
           kept == IF full THEN Dropped(entryMap, links.tail) ELSE entryMap
           left == IF full THEN Unlinked(links, links.tail) ELSE links
           many == IF full THEN entryCount - 1 ELSE entryCount
<1>1. PICK s : s = Listed
  OBVIOUS
<1>2. key \notin DOMAIN entryMap
  BY DEF Insert
<1>3. /\ Lists(s, links, entryCount, entryMap)
      /\ s \in Seq(LruKeys) /\ OnceEach(s) /\ Len(s) \in Nat /\ entryCount = Len(s)
      /\ DOMAIN entryMap = Keys(s) /\ ~Promised!IsCached(key)
  BY <1>1, <1>2, Present
<1>4. /\ Linked(links, s) /\ entryCount <= MaxEntries /\ MaxEntries \in Nat \ {0}
  BY <1>3, LruAssumption DEF Lists
<1>5. PICK r : r = IF full THEN RemoveAt(s, Len(s)) ELSE s
  OBVIOUS
<1>6. Lists(r, left, many, kept) /\ many < MaxEntries /\ key \notin DOMAIN kept
  <2>1. CASE full
    <3>1. Len(s) \in 1..Len(s) /\ s # <<>>
      <4>1. Len(s) # 0
        BY <1>3, <1>4, <2>1
      <4> QED BY <1>3, <4>1, EmptySeq
    <3>2. links.tail = s[Len(s)]
      BY <1>4, <3>1 DEF Linked, EntryAt
    <3>3. WithoutPlace(r, s, Len(s))
      BY <1>3, <1>5, <2>1, <3>1, Omitted
    <3>4. Lists(r, Unlinked(links, s[Len(s)]), entryCount - 1, Dropped(entryMap, s[Len(s)]))
      BY <1>3, <3>1, <3>3, Dismissed
    <3>5. entryCount - 1 < MaxEntries
      BY <1>3, <1>4
    <3>6. key \notin DOMAIN Dropped(entryMap, s[Len(s)])
      BY <1>2 DEF Dropped
    <3> QED BY <2>1, <3>2, <3>4, <3>5, <3>6
  <2>2. CASE ~full
    <3>1. entryCount < MaxEntries
      BY <1>3, <1>4, <2>2
    <3> QED BY <1>2, <1>3, <1>5, <2>2, <3>1
  <2> QED BY <2>1, <2>2
<1>7. r = IF Len(s) = MaxEntries THEN Promised!Front(s) ELSE s
  <2>1. CASE full
    <3>1. s # <<>>
      BY <1>3, <1>4, <2>1, EmptySeq
    <3>2. Front(s) = RemoveAt(s, Len(s))
      BY <1>3, <3>1, FrontOmitsLast
    <3>3. Promised!Front(s) = Front(s)
      BY DEF Promised!Front, Front
    <3> QED BY <1>3, <1>5, <2>1, <3>2, <3>3
  <2>2. CASE ~full
    BY <1>3, <1>5, <2>2
  <2> QED BY <2>1, <2>2
<1>8. /\ entryMap' = [k \in DOMAIN kept \cup {key} |-> IF k = key THEN value ELSE kept[k]]
      /\ entryCount' = many + 1 /\ links' = lruPushEntry(left, key)
      /\ lruAnswer' = <<"add", FALSE>>
  BY DEF Insert
<1>9. \A k \in DOMAIN kept : kept[k] = entryMap[k]
  BY DEF Dropped
<1> HIDE DEF kept, left, many
<1>10. PICK t : t = <<key>> \o r
  OBVIOUS
<1>11. PICK f : f = [k \in DOMAIN kept \cup {key} |-> IF k = key THEN value ELSE kept[k]]
  OBVIOUS
<1>12. DOMAIN f = DOMAIN kept \cup {key}
  BY <1>11
<1>13. Lists(t, lruPushEntry(left, key), many + 1, f)
  <2>1. r \in Seq(LruKeys)
    BY <1>6 DEF Lists
  <2>2. WithHead(t, key, r)
    BY <1>10, <2>1, Pushed
  <2> QED BY <1>6, <1>12, <2>2, Admitted
<1>14. Lists(t, links', entryCount', entryMap')
  BY <1>8, <1>11, <1>13
<1>15. LruInv' /\ Listed' = t
  BY <1>14, ListedNext
<1>16. DOMAIN kept = {r[i] : i \in 1..Len(r)}
  BY <1>6 DEF Lists, Keys
<1>17. entryMap' = [k \in {r[i] : i \in 1..Len(r)} \cup {key} |->
                      IF k = key THEN value ELSE entryMap[k]]
  BY <1>8, <1>9, <1>16
<1>18. r = IF Len(Listed) = MaxEntries THEN Promised!Front(Listed) ELSE Listed
  BY <1>1, <1>7
<1> DEFINE recent == IF Len(Listed) = MaxEntries THEN Promised!Front(Listed) ELSE Listed
<1>19. /\ Listed' = <<key>> \o recent
       /\ entryMap' = [k \in {recent[i] : i \in 1..Len(recent)} \cup {key} |->
                         IF k = key THEN value ELSE entryMap[k]]
  <2> HIDE DEF recent
  <2>1. r = recent
    BY <1>18 DEF recent
  <2> QED BY <1>10, <1>15, <1>17, <2>1
<1> QED BY <1>3, <1>8, <1>15, <1>19, Zenon DEF Promised!AddNew

\* A key that is moved to the head: the list after it.
LEMMA GetMoves ==
    ASSUME LruInv, NEW key \in LruKeys, key \in DOMAIN entryMap,
           links' = lruPushEntry(lruRemoveEntry(links, key), key),
           UNCHANGED <<entryMap, entryCount>>
    PROVE  /\ LruInv' /\ Promised!IsCached(key)
           /\ Listed' = <<key>> \o Promised!Without(key)
<1>1. PICK s : s = Listed
  OBVIOUS
<1>2. /\ Lists(s, links, entryCount, entryMap)
      /\ s \in Seq(LruKeys) /\ OnceEach(s) /\ Promised!IsCached(key)
      /\ \E p \in 1..Len(s) : s[p] = key
  BY <1>1, Present
<1>3. PICK p \in 1..Len(s) : s[p] = key
  BY <1>2
<1>4. PICK r, t : r = RemoveAt(s, p) /\ t = <<key>> \o r
  OBVIOUS
<1>5. WithoutPlace(r, s, p) /\ WithHead(t, key, r)
  <2>1. WithoutPlace(r, s, p)
    BY <1>2, <1>4, Omitted
  <2>2. r \in Seq(LruKeys)
    BY <2>1 DEF WithoutPlace
  <2>3. WithHead(t, key, r)
    BY <1>4, <2>2, Pushed
  <2> QED BY <2>1, <2>3
<1>6. Lists(t, lruPushEntry(lruRemoveEntry(links, key), key), entryCount, entryMap)
  BY <1>2, <1>3, <1>5, Touched
<1>7. Lists(t, links', entryCount', entryMap')
  BY <1>6
<1>8. LruInv' /\ Listed' = t
  BY <1>7, ListedNext
<1>9. Promised!Without(key) = RemoveAt(s, p)
  BY <1>1, <1>2, <1>3, WithoutKey
<1> QED BY <1>2, <1>4, <1>8, <1>9

\* A call that leaves the map, the counter and the links alone leaves the list alone.
LEMMA ListedUnchanged ==
    ASSUME LruInv, UNCHANGED <<entryMap, entryCount, links>>
    PROVE  LruInv' /\ Listed' = Listed
<1>1. Listed' = Listed
  BY DEF Listed
<1> QED BY <1>1 DEF LruInv

\* get().
LEMMA GetUses ==
    ASSUME LruInv, NEW key \in LruKeys, get(key)
    PROVE  LruInv' /\ Promised!Use(key)
<1>1. CASE key \in DOMAIN entryMap
  <2>1. /\ links' = lruPushEntry(lruRemoveEntry(links, key), key)
        /\ lruAnswer' = <<"get", entryMap[key]>>
        /\ UNCHANGED <<entryMap, entryCount>>
    BY <1>1 DEF get
  <2>2. LruInv' /\ Promised!IsCached(key) /\ Listed' = <<key>> \o Promised!Without(key)
    BY <1>1, <2>1, GetMoves
  <2> QED BY <2>1, <2>2 DEF Promised!Use
<1>2. CASE key \notin DOMAIN entryMap
  <2>1. lruAnswer' = <<"get", NoEntry>> /\ UNCHANGED <<entryMap, entryCount, links>>
    BY <1>2 DEF get
  <2>2. LruInv' /\ Listed' = Listed
    BY <2>1, ListedUnchanged
  <2>3. PICK s : s = Listed
    OBVIOUS
  <2>4. ~Promised!IsCached(key)
    BY <1>2, <2>3, Present
  <2> QED BY <2>1, <2>2, <2>4 DEF Promised!Use
<1> QED BY <1>1, <1>2

\* remove().
LEMMA RemoveForgets ==
    ASSUME LruInv, NEW key \in LruKeys, remove(key)
    PROVE  LruInv' /\ Promised!Forget(key)
<1>1. PICK s : s = Listed
  OBVIOUS
<1>2. CASE key \in DOMAIN entryMap
  <2>1. /\ links' = Unlinked(links, key) /\ entryMap' = Dropped(entryMap, key)
        /\ entryCount' = entryCount - 1 /\ lruAnswer' = <<"remove", TRUE>>
    BY <1>2 DEF remove
  <2>2. /\ Lists(s, links, entryCount, entryMap)
        /\ s \in Seq(LruKeys) /\ OnceEach(s) /\ Promised!IsCached(key)
        /\ \E p \in 1..Len(s) : s[p] = key
    BY <1>1, <1>2, Present
  <2>3. PICK p \in 1..Len(s) : s[p] = key
    BY <2>2
  <2>4. PICK t : t = RemoveAt(s, p)
    OBVIOUS
  <2>5. Lists(t, Unlinked(links, s[p]), entryCount - 1, Dropped(entryMap, s[p]))
    <3>1. WithoutPlace(t, s, p)
      BY <2>2, <2>4, Omitted
    <3> QED BY <2>2, <3>1, Dismissed
  <2>6. Lists(t, links', entryCount', entryMap')
    BY <2>1, <2>3, <2>5
  <2>7. LruInv' /\ Listed' = t
    BY <2>6, ListedNext
  <2>8. Promised!Without(key) = RemoveAt(s, p)
    BY <1>1, <2>2, <2>3, WithoutKey
  <2>9. Listed' = Promised!Without(key)
    BY <2>4, <2>7, <2>8
  <2> QED BY <2>1, <2>2, <2>7, <2>9 DEF Promised!Forget, Dropped
<1>3. CASE key \notin DOMAIN entryMap
  <2>1. lruAnswer' = <<"remove", FALSE>> /\ UNCHANGED <<entryMap, entryCount, links>>
    BY <1>3 DEF remove
  <2>2. LruInv' /\ Listed' = Listed
    BY <2>1, ListedUnchanged
  <2>3. ~Promised!IsCached(key)
    BY <1>1, <1>3, Present
  <2> QED BY <2>1, <2>2, <2>3 DEF Promised!Forget
<1> QED BY <1>2, <1>3

\* An empty cache, as clear() leaves it.
LEMMA EmptyLists ==
    ASSUME NEW entries, entries = [key \in {} |-> NoEntry]
    PROVE  Lists(<<>>, NoLinks, 0, entries)
<1>1. <<>> \in Seq(LruKeys) /\ Len(<<>>) = 0
  OBVIOUS
<1>2. OnceEach(<<>>) /\ Keys(<<>>) = {} /\ DOMAIN entries = {}
  BY <1>1 DEF OnceEach, Keys
<1>3. Linked(NoLinks, <<>>)
  BY <1>1 DEF Linked, NoLinks, EntryAt
<1> QED BY <1>1, <1>2, <1>3, LruAssumption DEF Lists

\* clear().
LEMMA ClearClears ==
    ASSUME LruInv, clear
    PROVE  LruInv' /\ Promised!Clear
<1>1. PICK entries : entries = [key \in {} |-> NoEntry]
  OBVIOUS
<1>2. Lists(<<>>, NoLinks, 0, entries)
  BY <1>1, EmptyLists
<1>3. Lists(<<>>, links', entryCount', entryMap')
  BY <1>1, <1>2 DEF clear
<1>4. LruInv' /\ Listed' = <<>>
  BY <1>3, ListedNext
<1> QED BY <1>4 DEF clear, Promised!Clear

\* count().
LEMMA CountCounts ==
    ASSUME LruInv, count
    PROVE  LruInv' /\ Promised!Count
<1>1. lruAnswer' = <<"count", entryCount>> /\ UNCHANGED <<entryMap, entryCount, links>>
  BY DEF count
<1>2. LruInv' /\ Listed' = Listed
  BY <1>1, ListedUnchanged
<1>3. entryCount = Len(Listed)
  BY DEF LruInv, Lists
<1> QED BY <1>1, <1>2, <1>3 DEF Promised!Count

\* Every step of the cache is one of the cache that is promised, and keeps the invariant.
LEMMA StepsOfThePromised ==
    ASSUME LruInv, [LruNext]_lruVars
    PROVE  LruInv' /\ [Promised!RuNext]_(Promised!ruVars)
<1>1. ASSUME NEW key \in LruKeys, NEW value \in LruValues, Update(key, value) \/ Insert(key, value)
      PROVE  LruInv' /\ Promised!RuNext
  <2>1. CASE Update(key, value)
    BY <2>1, UpdateAddsAgain DEF Promised!RuNext
  <2>2. CASE Insert(key, value)
    BY <2>2, InsertAddsNew DEF Promised!RuNext
  <2> QED BY <1>1, <2>1, <2>2
<1>2. ASSUME NEW key \in LruKeys, get(key) \/ remove(key)
      PROVE  LruInv' /\ Promised!RuNext
  <2>1. CASE get(key)
    BY <2>1, GetUses DEF Promised!RuNext
  <2>2. CASE remove(key)
    BY <2>2, RemoveForgets DEF Promised!RuNext
  <2> QED BY <1>2, <2>1, <2>2
<1>3. CASE count
  BY <1>3, CountCounts DEF Promised!RuNext
<1>4. CASE clear
  BY <1>4, ClearClears DEF Promised!RuNext
<1>5. CASE UNCHANGED lruVars
  <2>1. UNCHANGED <<entryMap, entryCount, links>> /\ lruAnswer' = lruAnswer
    BY <1>5 DEF lruVars
  <2>2. LruInv' /\ Listed' = Listed
    BY <2>1, ListedUnchanged
  <2> QED BY <2>1, <2>2 DEF Promised!ruVars
<1> QED BY <1>1, <1>2, <1>3, <1>4, <1>5 DEF LruNext

\* The cache begins empty, as the one that is promised.
LEMMA BeginsAsPromised ==
    ASSUME LruInit
    PROVE  LruInv /\ Promised!RuInit
<1>1. PICK entries : entries = [key \in {} |-> NoEntry]
  OBVIOUS
<1>2. Lists(<<>>, NoLinks, 0, entries)
  BY <1>1, EmptyLists
<1>3. Lists(<<>>, links, entryCount, entryMap)
  BY <1>1, <1>2 DEF LruInit
<1>4. Listed = <<>>
  BY <1>3, ListsListed DEF Listed
<1> QED BY <1>3, <1>4 DEF LruInit, LruInv, Promised!RuInit

----------------------------------------------------------------------------
(* The theorems.                                                           *)

\* After any calls the links are a list of the keys of the entries, each of them once,
\* forwards and backwards, and the counter is their number, at most MaxEntries.
THEOREM LruInvariant == LruSpec => []LruInv
<1>1. LruInit => LruInv
  BY BeginsAsPromised
<1>2. LruInv /\ [LruNext]_lruVars => LruInv'
  BY StepsOfThePromised
<1> QED BY <1>1, <1>2, PTL DEF LruSpec

\* The cache keeps the MaxEntries keys used last: each call answers, and changes the list
\* and the values, as RecentlyUsed promises; it is the key used longest ago that goes.
THEOREM ImplementsLru == LruSpec => ImplementsRecentlyUsed
<1>1. LruInit => LruInv /\ Promised!RuInit
  BY BeginsAsPromised
<1>2. LruInv /\ [LruNext]_lruVars => LruInv' /\ [Promised!RuNext]_(Promised!ruVars)
  BY StepsOfThePromised
<1> QED BY <1>1, <1>2, PTL DEF LruSpec, ImplementsRecentlyUsed, Promised!RuSpec
================================================================================
