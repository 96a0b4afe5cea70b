---------------------------- MODULE MCWriteGathering ----------------------------
(***************************************************************************)
(* Instances of what is below the metadata server's requests, one per      *)
(* behaviour: the gathering of the writes of one database, five requests   *)
(* of two, one and no operations, and the record log, three batches of two *)
(* databases.                                                              *)
(***************************************************************************)
EXTENDS WriteGathering, RecordLog

CONSTANTS r1, r2, r3, r4, r5, c1, c2, c3

VARIABLE part

gtVars == <<part, wgVars, rlVars>>

MCRequests == {r1, r2, r3, r4, r5}
MCSize == [r \in MCRequests |-> IF r = r1 THEN 2 ELSE IF r = r5 THEN 0 ELSE 1]

MCCommits == {c1, c2, c3}
MCDbOf == [c \in MCCommits |-> IF c = c3 THEN "other" ELSE "one"]
MCOpsOf == [c \in MCCommits |-> IF c = c1 THEN 2 ELSE 1]

GtInit == part \in {"gathering", "log"} /\ WgInit /\ RlInit

GtNext ==
    /\ UNCHANGED part
    /\ \/ part = "gathering" /\ WgNext /\ UNCHANGED rlVars
       \/ part = "log" /\ RlNext /\ UNCHANGED wgVars

GtSpec == GtInit /\ [][GtNext]_gtVars

\* Everyone who calls is answered, under the fairness of the part that runs.
FairCallersAreAnswered ==
    /\ part = "gathering" /\ WgFairness => NonEmptyRequestsAnswered
    /\ part = "log" /\ RlFairness => EveryLogCallEnds
================================================================================
