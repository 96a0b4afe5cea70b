------------------------------ MODULE CommitQueue ------------------------------
(***************************************************************************)
(* What the write-gathering manager promises to its callers, whatever the  *)
(* timers and batches that it keeps: requests wait in the order of their   *)
(* calls, the database takes them from the front, whole requests at a      *)
(* time, and what it took is answered before it takes more. A failure is   *)
(* that of everything that waits, of which nothing was written.            *)
(***************************************************************************)
EXTENDS Naturals, Sequences

CONSTANTS
    Requests,
    Size            \* Size[r] is the number of operations of r

VARIABLES
    waiting,        \* the operations that wait, [req, index], in order
    written,        \* the requests in the database that are not answered yet
    database,       \* the operations in the database, in order
    called,         \* the requests made so far
    outcome         \* outcome[r] is the sequence of the answers to r

cqVars == <<waiting, written, database, called, outcome>>

Operations(r) == [i \in 1 .. Size[r] |-> [req |-> r, index |-> i]]

RequestsIn(operations) == {operations[i].req : i \in DOMAIN operations}

CqInit ==
    /\ waiting = <<>> /\ database = <<>>
    /\ written = {} /\ called = {}
    /\ outcome = [r \in Requests |-> <<>>]

Submit(r) ==
    /\ r \notin called
    /\ called' = called \cup {r}
    /\ waiting' = waiting \o Operations(r)
    /\ UNCHANGED <<written, database, outcome>>

\* The first n operations, the last of which is the last of its request.
Write(n) ==
    /\ written = {}
    /\ n < Len(waiting) => waiting[n + 1].index = 1
    /\ database' = database \o SubSeq(waiting, 1, n)
    /\ written' = RequestsIn(SubSeq(waiting, 1, n))
    /\ waiting' = SubSeq(waiting, n + 1, Len(waiting))
    /\ UNCHANGED <<called, outcome>>

AnswerAll(requests, reply) ==
    outcome' = [r \in Requests |-> IF r \in requests THEN Append(outcome[r], reply) ELSE outcome[r]]

Succeed ==
    /\ written # {}
    /\ AnswerAll(written, "ok")
    /\ written' = {}
    /\ UNCHANGED <<waiting, database, called>>

Fail ==
    /\ written = {} /\ waiting # <<>>
    /\ AnswerAll(RequestsIn(waiting), "error")
    /\ waiting' = <<>>
    /\ UNCHANGED <<written, database, called>>

CqNext ==
    \/ \E r \in Requests : Submit(r)
    \/ \E n \in 1 .. Len(waiting) : Write(n)
    \/ Succeed
    \/ Fail

CqSpec == CqInit /\ [][CqNext]_cqVars
================================================================================
