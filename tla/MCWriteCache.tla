------------------------------ MODULE MCWriteCache ------------------------------
(***************************************************************************)
(* Instances of WriteCache. The prefix of a request is its kind: u update, *)
(* g read, p put, d del.                                                   *)
(***************************************************************************)
EXTENDS WriteCache

CONSTANTS u1, u2, u3, g1, p1, d1

MCSize == [r \in Requests |-> 1]
MCKind == [r \in Requests |->
             CASE r \in {u1, u2, u3} -> "update"
               [] r = g1 -> "read"
               [] r = p1 -> "put"
               [] r = d1 -> "del"]
================================================================================
