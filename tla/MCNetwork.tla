------------------------------- MODULE MCNetwork -------------------------------
(***************************************************************************)
(* Instances of the components on the network, which share nothing: a      *)
(* remote call whose result is a stream, the merge of two streams, a KMIP  *)
(* client, and the supervision of worker processes. In each behaviour one  *)
(* of them runs.                                                           *)
(***************************************************************************)
EXTENDS RpcStreams, MergeStream, KmipClient, Supervision

CONSTANTS k1, k2

VARIABLE component

allVars == <<component, rpVars, mgVars, kmVars, svVars>>

MCKindOf == k1 :> "healthcheck" @@ k2 :> "cipher"

Sorted(n) == {s \in UNION {[1 .. k -> 1 .. 3] : k \in 0 .. n} :
                \A i, j \in DOMAIN s : i < j => s[i] <= s[j]}
MCInputs == Sorted(2) \X Sorted(2)

NwInit ==
    /\ component \in {"stream", "merge", "kmip", "workers"}
    /\ RpInit /\ MgInit /\ KmInit /\ SvInit
    /\ component # "stream" => outcome = "value"
    /\ component # "merge" => inputs = <<<<>>, <<>>>>

NwNext ==
    /\ UNCHANGED component
    /\ \/ component = "stream" /\ RpNext /\ UNCHANGED <<mgVars, kmVars, svVars>>
       \/ component = "merge" /\ MgNext /\ UNCHANGED <<rpVars, kmVars, svVars>>
       \/ component = "kmip" /\ KmNext /\ UNCHANGED <<rpVars, mgVars, svVars>>
       \/ component = "workers" /\ SvNext /\ UNCHANGED <<rpVars, mgVars, kmVars>>

NwSpec == NwInit /\ [][NwNext]_allVars

\* What is sent, merged or asked comes to an end: a stream settles at both ends, the
\* merged stream ends, every KMIP call is answered or fails. Each under the fairness of
\* its own component.
EveryExchangeEnds ==
    /\ component = "stream" /\ RpFairness => StreamSettles
    /\ component = "merge" /\ MgFairness => MergeEnds
    /\ component = "kmip" /\ KmFairness => EveryKmipCallEnds

\* The worker processes are supervised as they should, under the fairness of the system.
FairWorkersAreSupervised == component = "workers" /\ SvFairness => WorkersAreSupervised
=============================================================================
