--------------------------------- MODULE GapCache ---------------------------------
(***************************************************************************)
(* The gap cache of lib/algos/cache/GapCache.ts between the listings that  *)
(* build gaps (lib/algos/list/delimiterMaster.ts), the writers that        *)
(* invalidate them and the lookups that follow chains of gaps.             *)
(*                                                                         *)
(* A key is skippable or live. A listing reads the database at one point   *)
(* of time, and calls setGap() for a range in which it has seen no live    *)
(* key as long as less than exposureDelayMs has elapsed. Time is kept as   *)
(* ages: of the listing, and of the last call of _exposeFrozen().          *)
(***************************************************************************)
EXTENDS GapRanges

CONSTANTS
    MaxKey,         \* keys are 1..MaxKey
    MaxGapWeight,
    GapLimits,      \* the values of maxGaps that caches are built with
    Delays,         \* the values exposureDelayMs is given, in ticks
    Listings,       \* the listings in progress
    Lookups,        \* the lookups in progress
    LiveAtFirst,    \* the keys that are live to begin with
    FirstKeyWeights, \* bound of the model: what the first key of a gap adds to its weight
    WrittenKeys,    \* bound of the model: the keys that writers change
    DelayChangesInListing   \* may exposureDelayMs be set while a listing builds gaps?

ASSUME GapCacheAssumption ==
    /\ MaxKey \in Nat /\ MaxGapWeight \in Nat /\ GapLimits \subseteq Nat
    /\ Delays \subseteq Nat \ {0}
    /\ \E longest \in Delays : \A delay \in Delays : delay <= longest
    /\ LiveAtFirst \subseteq 1..MaxKey /\ WrittenKeys \subseteq 1..MaxKey
    /\ FirstKeyWeights \subseteq {0, 1} /\ DelayChangesInListing \in BOOLEAN

VARIABLES
    staging,        \* _stagingUpdates: [newGaps, updatedKeys]
    frozen,         \* _frozenUpdates
    exposed,        \* _exposedGaps
    exposureDelayMs,
    maxGaps,        \* the parameter of the constructor
    rotationAge,    \* how long ago the interval began, capped at the longest delay
    live,           \* external: the keys that a listing must not skip
    uninvalidated,  \* external: the keys changed whose writer has not invalidated yet
    building,       \* external: building[b] is NoListing or [seen, age]
    lookup,         \* lookup[l] is NoLookup or [gap, done]: the gap coalesced so far
    liveSince       \* history: the live keys that l must not pass: invalidated before it
                    \* began, or before it came so far

cacheSets == <<staging, frozen, exposed>>
outside == <<live, uninvalidated, building>>
lookups == <<lookup, liveSince>>
gcVars == <<cacheSets, exposureDelayMs, maxGaps, rotationAge, outside, lookups>>

CacheKeys == 1..MaxKey
LongestDelay == Max(Delays)

NoUpdates == [newGaps |-> {}, updatedKeys |-> {}]
NoListing == [seen |-> {}, age |-> LongestDelay]
NoLookup == [gap |-> GapEntry(0, 0, 0), done |-> TRUE]

GcInit ==
    /\ staging = NoUpdates /\ frozen = NoUpdates /\ exposed = {}
    /\ exposureDelayMs \in Delays /\ maxGaps \in GapLimits
    /\ rotationAge = 0
    /\ live = LiveAtFirst /\ uninvalidated = {}
    /\ building = [b \in Listings |-> NoListing]
    /\ lookup = [l \in Lookups |-> NoLookup]
    /\ liveSince = [l \in Lookups |-> {}]

----------------------------------------------------------------------------
(* The listings.                                                           *)

\* External: a listing is started from the database and refreshGapCache() called.
StartListing(b) ==
    /\ building' = [building EXCEPT ![b] = [seen |-> live, age |-> 0]]
    /\ UNCHANGED <<cacheSets, exposureDelayMs, maxGaps, rotationAge, live, uninvalidated, lookups>>

\* Into the staging set, by setGap().
SaveInto(updates, firstKey, lastKey, weight) ==
    [updates EXCEPT !.newGaps = SetGap(@, firstKey, lastKey, weight, MaxGapWeight)]

\* Mutant: a gap is still saved when exactly exposureDelayMs has elapsed.
SaveGapTooLate(b, firstKey, lastKey, weight) ==
    /\ building[b].age <= exposureDelayMs
    /\ firstKey <= lastKey /\ weight > 0
    /\ (firstKey .. lastKey) \cap building[b].seen = {}
    /\ staging' = SaveInto(staging, firstKey, lastKey, weight)
    /\ UNCHANGED <<frozen, exposed, exposureDelayMs, maxGaps, rotationAge, outside, lookups>>

\* _saveBuildingGap(): a gap that begins with the listing counts its first key, one
\* that is chained to the previous gap does not.
SaveGap(b, firstKey, lastKey, weight) ==
    /\ building[b].age < exposureDelayMs
    /\ firstKey <= lastKey /\ weight > 0
    /\ (firstKey .. lastKey) \cap building[b].seen = {}
    /\ staging' = SaveInto(staging, firstKey, lastKey, weight)
    /\ UNCHANGED <<frozen, exposed, exposureDelayMs, maxGaps, rotationAge, outside, lookups>>

----------------------------------------------------------------------------
(* The writers.                                                            *)

\* External: a key becomes live in the database.
Write(key) ==
    /\ key \notin live
    /\ live' = live \cup {key}
    /\ uninvalidated' = uninvalidated \cup {key}
    /\ UNCHANGED <<cacheSets, exposureDelayMs, maxGaps, rotationAge, building, lookups>>

\* External: the latest version of a key becomes a delete marker.
Delete(key) ==
    /\ key \in live
    /\ live' = live \ {key}
    /\ uninvalidated' = uninvalidated \cup {key}
    /\ liveSince' = [l \in Lookups |-> liveSince[l] \ {key}]
    /\ UNCHANGED <<cacheSets, exposureDelayMs, maxGaps, rotationAge, building, lookup>>

\* The key, if a lookup in progress has not come so far.
NotReached(l, key) == IF lookup[l].done \/ lookup[l].gap.lastKey >= key THEN {} ELSE {key}

\* removeOverlappingGaps(), which the writer of the key calls after it.
RemoveOverlappingGaps(key) ==
    /\ key \in uninvalidated
    /\ uninvalidated' = uninvalidated \ {key}
    /\ staging' = [staging EXCEPT !.updatedKeys = @ \cup {key}]
    /\ exposed' = RemoveOverlapping(exposed, {key})
    /\ liveSince' = [l \in Lookups |-> liveSince[l] \cup (live \cap NotReached(l, key))]
    /\ UNCHANGED <<frozen, exposureDelayMs, maxGaps, rotationAge, live, building, lookup>>

----------------------------------------------------------------------------
(* The rotation.                                                           *)

\* _removeOverlappingGapsBeforeExpose(), on one of the two sets of new gaps.
Invalidated(newGaps) ==
    RemoveOverlapping(RemoveOverlapping(newGaps, staging.updatedKeys), frozen.updatedKeys)

\* The gaps are exposed in the order of their first keys, each one when there is room
\* for it: upTo[key] is the set after those that begin at key or before it.
Exposed(gaps) ==
    LET upTo[key \in 0..MaxKey] ==
            IF key = 0 THEN exposed
            ELSE LET into == upTo[key - 1]
                     here == {g \in gaps : g.firstKey = key}
                 IN  IF here # {} /\ Cardinality(into) < maxGaps
                     THEN SetGap(into, key, The(here).lastKey, The(here).weight, MaxGapWeight)
                     ELSE into
    IN  upTo[MaxKey]

\* _exposeFrozen(), when the interval has elapsed; the timer may be late.
ExposeFrozen ==
    /\ rotationAge >= exposureDelayMs
    /\ rotationAge' = 0
    /\ exposed' = Exposed(Invalidated(frozen.newGaps))
    /\ frozen' = [staging EXCEPT !.newGaps = Invalidated(@)]
    /\ staging' = NoUpdates
    /\ UNCHANGED <<exposureDelayMs, maxGaps, outside, lookups>>

\* The setter of exposureDelayMs: the pending updates are dropped and the timer restarted.
SetExposureDelay(delay) ==
    /\ delay # exposureDelayMs
    /\ DelayChangesInListing \/ \A b \in Listings : building[b].age = LongestDelay
    /\ exposureDelayMs' = delay
    /\ staging' = NoUpdates /\ frozen' = NoUpdates
    /\ rotationAge' = 0
    /\ UNCHANGED <<exposed, maxGaps, outside, lookups>>

\* clear(): the updated keys are retained.
Clear ==
    /\ staging' = [staging EXCEPT !.newGaps = {}]
    /\ frozen' = [frozen EXCEPT !.newGaps = {}]
    /\ exposed' = {}
    /\ UNCHANGED <<exposureDelayMs, maxGaps, rotationAge, outside, lookups>>

Older(age) == IF age < LongestDelay THEN age + 1 ELSE age

Tick ==
    /\ rotationAge' = Older(rotationAge)
    /\ building' = [b \in Listings |-> [building[b] EXCEPT !.age = Older(@)]]
    /\ UNCHANGED <<cacheSets, exposureDelayMs, maxGaps, live, uninvalidated, lookups>>

----------------------------------------------------------------------------
(* The lookups.                                                            *)

\* lookupGap(), until it first yields to the event loop. (The code yields after 100
\* chained gaps; here it may yield after each one.)
LookupGap(l, minKey, maxKey) ==
    /\ lookup[l].done
    /\ \E gap \in FirstLookedUp(exposed, minKey, maxKey) :
         lookup' = [lookup EXCEPT ![l] = [gap |-> gap, done |-> FALSE]]
    /\ liveSince' = [liveSince EXCEPT ![l] = live \ uninvalidated]
    /\ UNCHANGED <<cacheSets, exposureDelayMs, maxGaps, rotationAge, outside>>

\* Mutant: the chain is followed into the gaps that are still to be exposed.
CoalescePendingChain(l) ==
    /\ ~lookup[l].done
    /\ LET gap  == lookup[l].gap
           next == ChainedTo(exposed \cup frozen.newGaps, gap)
       IN  lookup' = [lookup EXCEPT ![l] =
                        IF next = {} THEN [gap |-> gap, done |-> TRUE]
                        ELSE [gap |-> Coalesced(gap, The(next)), done |-> FALSE]]
    /\ UNCHANGED <<cacheSets, exposureDelayMs, maxGaps, rotationAge, outside, liveSince>>

\* An iteration of _coalesceGapChain().
CoalesceGapChain(l) ==
    /\ ~lookup[l].done
    /\ LET gap  == lookup[l].gap
           next == ChainedTo(exposed, gap)
       IN  lookup' = [lookup EXCEPT ![l] =
                        IF next = {} THEN [gap |-> gap, done |-> TRUE]
                        ELSE [gap |-> Coalesced(gap, The(next)), done |-> FALSE]]
    /\ UNCHANGED <<cacheSets, exposureDelayMs, maxGaps, rotationAge, outside, liveSince>>

GcNext ==
    \/ \E b \in Listings : StartListing(b)
    \/ \E b \in Listings, firstKey, lastKey \in CacheKeys, first \in FirstKeyWeights :
          SaveGap(b, firstKey, lastKey, (lastKey - firstKey) + first)
    \/ \E key \in WrittenKeys : Write(key) \/ Delete(key) \/ RemoveOverlappingGaps(key)
    \/ ExposeFrozen
    \/ \E delay \in Delays : SetExposureDelay(delay)
    \/ Clear
    \/ Tick
    \/ \E l \in Lookups, minKey \in CacheKeys : LookupGap(l, minKey, MaxKey)
    \/ \E l \in Lookups : CoalesceGapChain(l)

GcSpec == GcInit /\ [][GcNext]_gcVars

----------------------------------------------------------------------------
(* Properties.                                                             *)

IsGapSet(gaps) ==
    \A g \in gaps : {g.firstKey, g.lastKey} \subseteq CacheKeys /\ g.firstKey <= g.lastKey

\* The three sets hold gaps of the keys, and only updated keys are written ones.
GcTypeOK ==
    /\ IsGapSet(staging.newGaps) /\ IsGapSet(frozen.newGaps) /\ IsGapSet(exposed)
    /\ staging.updatedKeys \cup frozen.updatedKeys \subseteq WrittenKeys
    /\ exposureDelayMs \in Delays /\ maxGaps \in GapLimits
    /\ rotationAge \in 0..LongestDelay
    /\ live \subseteq CacheKeys /\ uninvalidated \subseteq CacheKeys
    /\ building \in [Listings -> [seen : SUBSET CacheKeys, age : 0..LongestDelay]]

Covers(gap, key) == gap.firstKey <= key /\ key <= gap.lastKey

\* "This ensures atomicity between gap creation and invalidation from updates under
\* the condition that a gap is created from first key to last key within the time
\* defined by 'exposureDelayMs'": an exposed gap never covers a live key whose
\* writer has invalidated it, however the listing, the write, the invalidation
\* and the rotations are interleaved.
ExposedGapsAreSkippable ==
    \A g \in exposed : \A key \in live \ uninvalidated : ~Covers(g, key)

\* A lookup that follows a chain and yields between its gaps, while others are removed,
\* exposed, chained and merged, never returns a live key that was invalidated before it
\* began, nor one that was invalidated before it came so far, in the gaps it had still to
\* read; and what it joins into one gap leaves no such key between two gaps.
LookupsAreFresh ==
    \A l \in Lookups : \A key \in liveSince[l] : ~Covers(lookup[l].gap, key)

================================================================================
