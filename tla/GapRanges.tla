-------------------------------- MODULE GapRanges ---------------------------------
(***************************************************************************)
(* The algorithms of lib/algos/cache/GapSet.ts, as operators: a gap is a   *)
(* range of keys that a listing may skip, with a weight, and a set of gaps *)
(* is ordered by their first keys. Keys are numbers here, which keep the   *)
(* order of the strings of the code.                                       *)
(*                                                                         *)
(* The ordered set of the code (@js-sdsl/ordered-set) compares first keys  *)
(* only, and its insert() keeps the element it already has when a new one  *)
(* has the same first key.                                                 *)
(***************************************************************************)
EXTENDS Integers, FiniteSetsExt

GapEntry(firstKey, lastKey, weight) ==
    [firstKey |-> firstKey, lastKey |-> lastKey, weight |-> weight]

\* The gap of a set that begins last, or first, as a set of at most one gap.
LastGap(gaps) == {g \in gaps : \A h \in gaps : h.firstKey <= g.firstKey}
FirstGap(gaps) == {g \in gaps : \A h \in gaps : g.firstKey <= h.firstKey}

The(singleton) == CHOOSE g \in singleton : TRUE

\* reverseLowerBound(), reverseUpperBound(), lowerBound() and upperBound().
LastFrom(gaps, key) == LastGap({g \in gaps : g.firstKey <= key})
LastBefore(gaps, key) == LastGap({g \in gaps : g.firstKey < key})
FirstFrom(gaps, key) == FirstGap({g \in gaps : g.firstKey >= key})
FirstAfter(gaps, key) == FirstGap({g \in gaps : g.firstKey > key})

----------------------------------------------------------------------------
(* setGap(), whose four steps are operators. A step passes on the gap that *)
(* it works on, and the other gaps.                                        *)

\* The previous gap does not overlap, or by one key and cannot be extended.
StartsNewGap(prev, firstKey, weight, maxWeight) ==
    \A g \in prev :
        \/ g.lastKey < firstKey
        \/ g.lastKey = firstKey /\ g.weight + weight > maxWeight

\* Step 1: the gap to work on is a new one, the one chained to the previous gap, or
\* the previous gap. A new gap that begins where another one does is not in the set.
Step1(gaps, firstKey, weight, maxWeight) ==
    LET prev    == LastFrom(gaps, firstKey)
        chained == {g \in gaps : g.firstKey = The(prev).lastKey}
    IN  IF StartsNewGap(prev, firstKey, weight, maxWeight)
        THEN [cur |-> GapEntry(firstKey, firstKey, 0), others |-> gaps, weight |-> weight,
              inSet |-> {g \in gaps : g.firstKey = firstKey} = {}]
        ELSE IF The(prev).lastKey > firstKey /\ weight > maxWeight
        THEN LET cur == IF chained # {} THEN The(chained)
                        ELSE GapEntry(The(prev).lastKey, The(prev).lastKey, 0)
             IN  [cur |-> cur, others |-> gaps \ {cur}, weight |-> weight - The(prev).weight,
                  inSet |-> TRUE]
        ELSE [cur |-> The(prev), others |-> gaps \ prev, weight |-> weight, inSet |-> TRUE]

\* Step 2: the next gaps, up to the first one that ends after lastKey.
Merged(cur, others, lastKey) ==
    LET next == {g \in others : g.firstKey > cur.firstKey}
    IN  {g \in next : \A h \in next : h.firstKey <= g.firstKey => h.lastKey <= lastKey}

Step2(cur, others, lastKey) ==
    LET merged == Merged(cur, others, lastKey)
    IN  IF merged = {} THEN cur
        ELSE GapEntry(cur.firstKey, The(LastGap(merged)).lastKey,
                      cur.weight + MapThenSumSet(LAMBDA g : g.weight, merged))

\* Step 3: extend the gap to lastKey.
Step3(cur, firstKey, lastKey, weight) ==
    IF cur.lastKey = firstKey /\ firstKey # lastKey
    THEN GapEntry(cur.firstKey, lastKey, cur.weight + weight)
    ELSE IF cur.lastKey <= lastKey THEN GapEntry(cur.firstKey, lastKey, weight)
    ELSE cur

\* Mutant: step 4 merges the next gap without taking over its last key.
Step4DropsNext(cur, others, inSet, lastKey, minMergedWeight, maxWeight) ==
    (others \ {g \in FirstAfter(others, cur.firstKey) : g.firstKey <= lastKey}) \cup {cur}

\* Step 4: merge the gap that overlaps on the right, or chain it.
Step4(cur, others, inSet, lastKey, minMergedWeight, maxWeight) ==
    LET next == {g \in FirstAfter(others, cur.firstKey) : g.firstKey <= lastKey}
        n    == The(next)
        mergedWeight == IF lastKey = n.firstKey THEN cur.weight + n.weight
                        ELSE Max({cur.weight, minMergedWeight + n.weight})
        kept(gap) == IF inSet THEN {gap} ELSE {}
    IN  IF next = {} THEN others \cup kept(cur)
        ELSE IF mergedWeight <= maxWeight
        THEN (others \ next) \cup kept(GapEntry(cur.firstKey, n.lastKey, mergedWeight))
        ELSE others \cup kept(GapEntry(cur.firstKey, n.firstKey, Max({mergedWeight - n.weight, 0})))

SetGap(gaps, firstKey, lastKey, weight, maxWeight) ==
    IF \E g \in LastFrom(gaps, firstKey) : g.lastKey >= lastKey THEN gaps
    ELSE LET start  == Step1(gaps, firstKey, weight, maxWeight)
             merged == Step2(start.cur, start.others, lastKey)
             rest   == start.others \ Merged(start.cur, start.others, lastKey)
             final  == Step3(merged, firstKey, lastKey, start.weight)
         IN  Step4(final, rest, start.inSet, lastKey, merged.weight, maxWeight)

----------------------------------------------------------------------------
(* removeOverlappingGaps() and lookupGap().                                *)

\* The gaps that an iteration of the loop removes for the current key: the one
\* that begins before it, and the one that begins at it or after it.
RemovedAround(gaps, keys, key) ==
    LET closest == {g \in LastBefore(gaps, key) : key <= g.lastKey}
        next    == FirstFrom(gaps \ closest, key)
    IN  closest \cup {g \in next : Max({k \in keys : k <= g.lastKey}) >= g.firstKey}

\* Mutant: the key at the end of the next gap is passed over, where another begins.
KeysLeftBehind(gaps, keys, key) ==
    LET closest == {g \in LastBefore(gaps, key) : key <= g.lastKey}
        next    == FirstFrom(gaps \ closest, key)
    IN  IF next = {} THEN {} ELSE {k \in keys : k > The(next).lastKey}

\* The key to go on with after an iteration: the first one at or behind the end
\* of the next gap.
KeysLeft(gaps, keys, key) ==
    LET closest == {g \in LastBefore(gaps, key) : key <= g.lastKey}
        next    == FirstFrom(gaps \ closest, key)
    IN  IF next = {} THEN {} ELSE {k \in keys : k >= The(next).lastKey}

\* The loop: from the keys that are left and the gaps of the set, to the gaps that stay.
RemoveOverlapping(gaps, keys) ==
    LET remove[at \in (SUBSET keys) \X (SUBSET gaps)] ==
            LET left == at[1]
                gs   == at[2]
                key  == Min(left)
            IN  IF left = {} THEN gs
                ELSE remove[<<KeysLeft(gs, keys, key), gs \ RemovedAround(gs, keys, key)>>]
    IN  remove[<<keys, gaps>>]

\* The first gap of a lookup: the one at minKey, or the next one up to maxKey.
FirstLookedUp(gaps, minKey, maxKey) ==
    LET at == {g \in LastFrom(gaps, minKey) : g.lastKey >= minKey}
    IN  IF at # {} THEN at
        ELSE {g \in FirstAfter(gaps, minKey) : g.firstKey <= maxKey}

\* The gap that is chained to one, for _coalesceGapChain(): a gap of a single key
\* ends the chain.
ChainedTo(gaps, gap) ==
    {g \in gaps : g.firstKey = gap.lastKey /\ g.firstKey # g.lastKey}

Coalesced(gap, chained) ==
    GapEntry(gap.firstKey, chained.lastKey, gap.weight + chained.weight)
================================================================================
