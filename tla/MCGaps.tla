------------------------------- MODULE MCGaps --------------------------------
(***************************************************************************)
(* Instances of what lib/algos keeps in memory: of GapCache, with the      *)
(* listings and the lookups in progress; of GapSet, one gap set under any  *)
(* calls; and of the LRU cache, the heap and the sorted set. In other      *)
(* behaviours it is the object of MCVersioning that takes steps: they      *)
(* share nothing but the run.                                              *)
(***************************************************************************)
EXTENDS GapCache, GapSet, LruCache, Collections, MCVersioning

CONSTANTS b1, b2, l1, k1, k2, k3, k4, v1, v2

VARIABLE structure  \* the one that takes steps

structureVars == <<structure, gaps, gcVars, lruVars, heapVars, setVars, vrVars>>

\* Items 2 and 3 compare as equal, as 4 and 5 do.
MCRank(item) == item \div 2

IdleObject == scenario = CHOOSE s \in Scenarios : TRUE

GapsInit ==
    /\ structure \in {"gap cache", "gap set", "LRU cache", "heap", "sorted set", "object"}
    /\ GsInit /\ LruInit /\ HeapInit /\ SetInit
    /\ structure # "heap" => maxSize = Min(HeapSizes) /\ heapOrder = 1
    /\ GcInit
    /\ structure # "gap cache" => maxGaps = Min(GapLimits) /\ exposureDelayMs = Min(Delays)
    /\ VrInit /\ (structure # "object" => IdleObject)

GapsNext ==
    /\ UNCHANGED structure
    /\ \/ structure = "gap cache" /\ GcNext
          /\ UNCHANGED <<gaps, lruVars, heapVars, setVars, vrVars>>
       \/ structure = "gap set" /\ GsNext
          /\ UNCHANGED <<gcVars, lruVars, heapVars, setVars, vrVars>>
       \/ structure = "LRU cache" /\ LruNext
          /\ UNCHANGED <<gcVars, gaps, heapVars, setVars, vrVars>>
       \/ structure = "heap" /\ HeapNext
          /\ UNCHANGED <<gcVars, gaps, lruVars, setVars, vrVars>>
       \/ structure = "sorted set" /\ SetNext
          /\ UNCHANGED <<gcVars, gaps, lruVars, heapVars, vrVars>>
       \/ structure = "object" /\ VrNext
          /\ UNCHANGED <<gcVars, gaps, lruVars, heapVars, setVars>>

GapsSpec == GapsInit /\ [][GapsNext]_structureVars

-----------------------------------------------------------------------------
(* The properties of the heap and of the sorted set. *)

\* The heap and the sorted set hold what was put in them, once, and give it back in order.
CollectionsAreExact ==
    /\ structure = "heap" => HeapIsExact
    /\ structure = "sorted set" => SortedSetIsExact

-----------------------------------------------------------------------------
(* The object beside them: its liveness, under its own fairness.           *)

FairObject == structure = "object" /\ VrFairness

\* A place holder is replaced in the end, unless a failure or a get by listing has cost
\* its repair: the timer of the repair fires and its write goes through.
FairRepairs == FairObject => PlaceHolderIsReplaced

\* Every request is answered in the end, through shared listings, queued reads, batches
\* that are given up and calls to the database that fail; gets see no place holder.
FairRequestsAreAnswered == FairObject => EveryRequestIsAnswered
================================================================================
