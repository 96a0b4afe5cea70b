---------------------------------- MODULE GapSet ----------------------------------
(***************************************************************************)
(* A gap set of lib/algos/cache/GapSet.ts under any sequence of calls,     *)
(* against what it stands for: the stretches of keys that are covered.     *)
(***************************************************************************)
EXTENDS GapRanges

CONSTANTS
    MaxSetKey,      \* keys are 1..MaxSetKey
    Weights,        \* the weights a caller gives
    MaxWeight,      \* the threshold of the set (_maxWeight)
    SingleKeyGaps,  \* whether callers give gaps of a single key
    WeightBound     \* bound of the model: the weights of gaps stay below it

ASSUME GapSetAssumption ==
    /\ MaxSetKey \in Nat /\ Weights \subseteq Nat
    /\ MaxWeight \in Nat /\ WeightBound \in Nat /\ SingleKeyGaps \in BOOLEAN

VARIABLE gaps       \* _gaps

GapKeys == 1..MaxSetKey

GsInit == gaps = {}

setGap(firstKey, lastKey, weight) ==
    /\ firstKey < lastKey \/ (SingleKeyGaps /\ firstKey = lastKey)
    /\ gaps' = SetGap(gaps, firstKey, lastKey, weight, MaxWeight)
    /\ \A g \in gaps' : g.weight \in -WeightBound .. WeightBound

removeOverlappingGaps(keys) == gaps' = RemoveOverlapping(gaps, keys)

GsNext ==
    \/ \E firstKey, lastKey \in GapKeys, weight \in Weights : setGap(firstKey, lastKey, weight)
    \/ \E keys \in SUBSET GapKeys : removeOverlappingGaps(keys)

GsSpec == GsInit /\ [][GsNext]_gaps

----------------------------------------------------------------------------
(* Properties.                                                             *)

\* Two gaps have at most one key in common, where one ends and the other begins.
\* The searches of all the operations rely on it.
GapsAreChained ==
    \A g, h \in gaps : g # h => g.lastKey <= h.firstKey \/ h.lastKey <= g.firstKey

\* The steps from a key to the next one that lie inside a gap.
Stretches(S) == {k \in GapKeys : \E g \in S : g.firstKey <= k /\ k < g.lastKey}

\* Whatever setGap() is given next, it covers what was covered and the new gap, and
\* nothing else: a listing never skips a key because the gaps on both sides of it
\* were merged, no merge or split loses a stretch, and the gaps stay chained.
CoverageIsExact ==
    /\ GapsAreChained
    /\ \A firstKey, lastKey \in GapKeys, weight \in Weights :
        firstKey < lastKey =>
            Stretches(SetGap(gaps, firstKey, lastKey, weight, MaxWeight))
                = Stretches(gaps) \cup (firstKey .. (lastKey - 1))

\* Whatever removeOverlappingGaps() is given next, although it skips over ranges of
\* gaps and of keys, it removes the gaps that contain one of the keys and no other.
RemovalIsExact ==
    \A keys \in SUBSET GapKeys :
        RemoveOverlapping(gaps, keys)
            = {g \in gaps : \A k \in keys : ~(g.firstKey <= k /\ k <= g.lastKey)}
================================================================================
