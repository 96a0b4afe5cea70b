---------------------------- MODULE MCClusterRPC ----------------------------
(***************************************************************************)
(* Instances of ClusterRPC: calls to all the workers, to the primary and   *)
(* to a target that does not exist, with and without a handler, made in    *)
(* pairs: twice under the same uids by one worker, under the same uids by  *)
(* two workers, under uids of their own, and again by one worker. In other *)
(* behaviours of the run it is the writes of MCWriteGathering that take    *)
(* steps: the two share nothing.                                           *)
(***************************************************************************)
EXTENDS ClusterRPC, MCWriteGathering

CONSTANTS w1, w2, w3, a1, a2, a3, p1, p2, n1

MCUid    == [c \in Calls |-> IF c \in {a1, a2, p1} THEN "u1" ELSE "u2"]
MCCaller == [c \in Calls |-> IF c \in {a1, a2} THEN w1 ELSE w2]
MCTarget == [c \in Calls |-> IF c \in {a1, a2, a3} THEN "*"
                             ELSE IF c \in {p1, p2} THEN "PRIMARY" ELSE "nowhere"]

AllCallSets == {{a1, a2}, {a1, p1}, {a1, p2}, {a3, n1}}

-----------------------------------------------------------------------------
(* The cluster beside the writes. *)

VARIABLE side

sideVars == <<side, vars, gtVars>>

SideInit ==
    /\ side \in {"cluster", "writes"}
    /\ Init /\ GtInit
    /\ side = "cluster" => part = "log"
    /\ side = "writes" => made = {a3, n1}

SideNext ==
    /\ UNCHANGED side
    /\ \/ side = "cluster" /\ Next /\ UNCHANGED gtVars
       \/ side = "writes" /\ GtNext /\ UNCHANGED vars

SideSpec == SideInit /\ [][SideNext]_sideVars

\* Whatever answers twice, times out, exits or is forked, every command settles at its
\* caller, under the fairness of the cluster.
FairCommandsSettle == side = "cluster" /\ Fairness => EveryCommandSettles
=============================================================================
