------------------------------- MODULE RecordLog -------------------------------
(***************************************************************************)
(* The record log of the metadata server: lib/storage/metadata/file/       *)
(* RecordLog.js and batch() of MetadataFileServer.js, which gives every    *)
(* operation a numbered record and commits both in one batch of the root   *)
(* database. A batch here is one that the write-gathering manager hands    *)
(* over: those of one database follow each other, those of two run at the  *)
(* same time. A consumer (external) reads the log page after page and goes *)
(* on behind the end that the page announces. One log is open; the server  *)
(* may stop at any time and is started again on the same database.         *)
(***************************************************************************)
EXTENDS Integers, Sequences, FiniteSets

CONSTANTS
    Commits,        \* the batches of a behaviour, each made at most once
    DbOf,           \* DbOf[b] is the database (the bucket) of b
    OpsOf,          \* OpsOf[b] is the number of operations of b
    Limits,         \* the limits a consumer may give; a large one stands for none
    MaxLookupErrors, MaxRestarts

ASSUME RecordLogAssumption ==
    /\ OpsOf \in [Commits -> Nat \ {0}]
    /\ "read" \notin Commits
    /\ Limits \subseteq Nat \ {0}
    /\ MaxLookupErrors \in Nat /\ MaxRestarts \in Nat

VARIABLES
    nextSeq,        \* openLog.nextSeq, 0 when undefined
    waiters,        \* findNextSeqWaiters, <<>> when undefined: no lookup in progress
    immediates,     \* the calls that setImmediate will make, in order
    committing,     \* the batches the database works at: [batch, first, applied]
    records,        \* the records in the database: number -> [batch, index]
    stored,         \* the batches whose operations are in the database
    status,         \* history: "new", "called", "ok", "error", "lost" of each batch
    before,         \* history: before[b] are the batches that had succeeded when b was called
    consumer,       \* external: [position, limit (0 when it does not read), seen, unwritten]
    lookupErrors, restarts

rlVars == <<nextSeq, waiters, immediates, committing, records, stored, status, before,
            consumer, lookupErrors, restarts>>

RlInit ==
    /\ nextSeq = 0 /\ waiters = <<>> /\ immediates = <<>>
    /\ committing = {} /\ records = <<>> /\ stored = {}
    /\ status = [b \in Commits |-> "new"]
    /\ before = [b \in Commits |-> {}]
    /\ consumer = [position |-> 1, limit |-> 0, seen |-> {}, unwritten |-> {}]
    /\ lookupErrors = 0 /\ restarts = 0

----------------------------------------------------------------------------
(* One call of the waiters, on the state of its turn: the next number, the *)
(* batches handed over, the consumer.                                      *)

\* Mutant: the operations of a batch share their number with those of the next.
NumberOnce(turn, b) ==
    [turn EXCEPT !.next = @ + 1,
                 !.committing = @ \cup {[batch |-> b, first |-> turn.next, applied |-> FALSE]}]

\* createLogRecordOps() numbers the operations and the server commits them with their records.
Number(turn, b) ==
    [turn EXCEPT !.next = @ + OpsOf[b],
                 !.committing = @ \cup {[batch |-> b, first |-> turn.next, applied |-> FALSE]}]

\* The numbers of the records that createReadStream() gives: formatSeq(0) is no bound at all.
InRange(from, endSeq) == {s \in DOMAIN records : from <= s /\ (endSeq = 0 \/ s <= endSeq)}

\* Mutant: the page is said to end at the number that is given out next.
PageEndTooFar(start, limit, next) ==
    IF start + limit <= next THEN start + limit - 1 ELSE next

\* ListRecordStream announces the end of the page with its first record.
PageEnd(start, limit, next) ==
    IF start + limit <= next - 1 THEN start + limit - 1 ELSE next - 1

\* readRecords(). What the consumer is not given of the numbers it passes is not written.
ReadPage(turn) ==
    LET reader == turn.consumer
        found == InRange(reader.position, turn.next - 1)
        given == {s \in found : Cardinality({t \in found : t < s}) < reader.limit}
        start == CHOOSE s \in found : \A t \in found : s <= t
        end == PageEnd(start, reader.limit, turn.next)
    IN [turn EXCEPT !.consumer =
           IF found = {} THEN [reader EXCEPT !.limit = 0]
           ELSE [reader EXCEPT
                   !.limit = 0,
                   !.position = end + 1,
                   !.seen = @ \cup {records[s] : s \in given},
                   !.unwritten = @ \cup {s \in 1 .. turn.next - 1 : s <= end /\ s \notin DOMAIN records}]]

Call(turn, call) == IF call = "read" THEN ReadPage(turn) ELSE Number(turn, call)

\* The calls of one turn, each of which begins where the one before it ended.
TurnOf(calls, begin) ==
    LET run[i \in 0 .. Len(calls)] == IF i = 0 THEN begin ELSE Call(run[i - 1], calls[i])
    IN  run[Len(calls)]

RunCalls(calls, next) ==
    LET turn == TurnOf(calls, [next |-> next, committing |-> committing, consumer |-> consumer])
    IN /\ nextSeq' = turn.next
       /\ committing' = turn.committing
       /\ consumer' = turn.consumer

----------------------------------------------------------------------------

\* _findNextSeq(): a known number at the next turn, else after the lookup of the last one, which
\* the first of the waiters starts.
FindNextSeq(call) ==
    IF nextSeq # 0
    THEN /\ immediates' = Append(immediates, call)
         /\ UNCHANGED waiters
    ELSE /\ waiters' = Append(waiters, call)
         /\ UNCHANGED immediates

BatchCalled(b) ==
    /\ status[b] = "new"
    /\ \A c \in Commits : DbOf[c] = DbOf[b] => status[c] # "called"
    /\ status' = [status EXCEPT ![b] = "called"]
    /\ before' = [before EXCEPT ![b] = {c \in Commits : status[c] = "ok"}]
    /\ FindNextSeq(b)
    /\ UNCHANGED <<nextSeq, committing, records, stored, consumer, lookupErrors, restarts>>

ReadCalled(limit) ==
    /\ consumer.limit = 0
    /\ consumer' = [consumer EXCEPT !.limit = limit]
    /\ FindNextSeq("read")
    /\ UNCHANGED <<nextSeq, committing, records, stored, status, before, lookupErrors, restarts>>

\* The end of the key stream: the number behind the last one in the log.
SeqAfterLast ==
    IF records = <<>> THEN 1
    ELSE 1 + CHOOSE s \in DOMAIN records : \A t \in DOMAIN records : t <= s

LookupEnds ==
    /\ waiters # <<>>
    /\ RunCalls(waiters, SeqAfterLast)
    /\ waiters' = <<>>
    /\ UNCHANGED <<immediates, records, stored, status, before, lookupErrors, restarts>>

ImmediateFires ==
    /\ immediates # <<>>
    /\ RunCalls(<<Head(immediates)>>, nextSeq)
    /\ immediates' = Tail(immediates)
    /\ UNCHANGED <<waiters, records, stored, status, before, lookupErrors, restarts>>

\* The process ends with all that it holds; a batch in the database's hands was written or not.
ServerStops ==
    /\ nextSeq' = 0 /\ waiters' = <<>> /\ immediates' = <<>> /\ committing' = {}
    /\ status' = [b \in Commits |-> IF status[b] = "called" THEN "lost" ELSE status[b]]
    /\ consumer' = [consumer EXCEPT !.limit = 0]
    /\ UNCHANGED <<records, stored, before>>

\* A lookup that fails: a reader is told so. The server does not look at the error it is given
\* for a batch, and the records it does not have throw in the callback.
LookupFails ==
    /\ waiters # <<>>
    /\ lookupErrors < MaxLookupErrors
    /\ lookupErrors' = lookupErrors + 1
    /\ IF \A i \in DOMAIN waiters : waiters[i] = "read"
       THEN /\ waiters' = <<>>
            /\ consumer' = [consumer EXCEPT !.limit = 0]
            /\ UNCHANGED <<nextSeq, immediates, committing, records, stored, status, before>>
       ELSE ServerStops
    /\ UNCHANGED restarts

\* External: the root database writes operations and records together.
BatchApplied(c) ==
    /\ ~c.applied
    /\ committing' = (committing \ {c}) \cup {[c EXCEPT !.applied = TRUE]}
    /\ stored' = stored \cup {c.batch}
    /\ records' = [s \in DOMAIN records \cup (c.first .. c.first + OpsOf[c.batch] - 1) |->
                     IF s \in c.first .. c.first + OpsOf[c.batch] - 1
                     THEN [batch |-> c.batch, index |-> s - c.first + 1]
                     ELSE records[s]]
    /\ UNCHANGED <<nextSeq, waiters, immediates, status, before, consumer, lookupErrors, restarts>>

\* The callback of rootDb.batch(). A batch that fails leaves a hole in the numbers.
BatchAnswered(c) ==
    /\ committing' = committing \ {c}
    /\ status' = [status EXCEPT ![c.batch] = IF c.applied THEN "ok" ELSE "error"]
    /\ UNCHANGED <<nextSeq, waiters, immediates, records, stored, before, consumer, lookupErrors,
                   restarts>>

Restart ==
    /\ restarts < MaxRestarts
    /\ restarts' = restarts + 1
    /\ ServerStops
    /\ UNCHANGED lookupErrors

RlNext ==
    \/ \E b \in Commits : BatchCalled(b)
    \/ \E limit \in Limits : ReadCalled(limit)
    \/ LookupEnds
    \/ LookupFails
    \/ ImmediateFires
    \/ \E c \in committing : BatchApplied(c) \/ BatchAnswered(c)
    \/ Restart

\* node's event loop runs and the database answers, stated by what it ends: a call does not wait
\* for ever for the lookup or its turn, nor a batch for its commit.
WaitsForSeq(call) ==
    \/ \E i \in DOMAIN waiters : waiters[i] = call
    \/ \E i \in DOMAIN immediates : immediates[i] = call

RlFairness ==
    /\ \A call \in Commits \cup {"read"} : []<>~WaitsForSeq(call)
    /\ \A b \in Commits : []<>(\A c \in committing : c.batch # b)

RlSpec == RlInit /\ [][RlNext]_rlVars

----------------------------------------------------------------------------
(* Properties.                                                             *)

RecordOf(b, i) == [batch |-> b, index |-> i]

\* Whatever runs at the same time, fails or is restarted, an operation is in the database if and
\* only if it has a record, one, next to those of its batch: no number is given twice while its
\* record may still be written, and none is given again that a record has.
RecordsMatchData ==
    /\ \A b \in stored : \E first \in DOMAIN records :
          \A i \in 1 .. OpsOf[b] : /\ first + i - 1 \in DOMAIN records
                                   /\ records[first + i - 1] = RecordOf(b, i)
    /\ \A s \in DOMAIN records : records[s].batch \in stored
    /\ \A s, t \in DOMAIN records : records[s] = records[t] => s = t

\* What is called after the success of another has the larger numbers.
NumbersFollowCalls ==
    \A s, t \in DOMAIN records :
        records[s].batch \in before[records[t].batch] => s < t

\* A consumer that goes on behind the end of a page passes no record that it is not given, but
\* those whose number was given out and not written when it passed: those of a batch in flight,
\* and of one that failed when the restarted server gives its number again.
ConsumerMissesOnlyUnwritten ==
    \A s \in DOMAIN records :
        s < consumer.position => records[s] \in consumer.seen \/ s \in consumer.unwritten

RecordLogIsFaithful == RecordsMatchData /\ NumbersFollowCalls /\ ConsumerMissesOnlyUnwritten

\* Every batch and every reader is answered, or goes down with the server.
EveryLogCallEnds ==
    /\ \A b \in Commits : status[b] = "called" ~> status[b] # "called"
    /\ consumer.limit # 0 ~> consumer.limit = 0
================================================================================
