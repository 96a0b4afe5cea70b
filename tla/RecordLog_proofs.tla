---------------------------- MODULE RecordLog_proofs ----------------------------
(***************************************************************************)
(* Proofs about the record log: for any batches of any databases and of    *)
(* any numbers of operations, whatever runs at the same time, fails or is  *)
(* restarted, data and records agree, the numbers follow the calls, and a  *)
(* reader passes nothing that was written.                                 *)
(***************************************************************************)
EXTENDS RecordLog, FiniteSetTheorems, SequenceTheorems, WellFoundedInduction, TLAPS

Statuses == {"new", "called", "ok", "error", "lost"}

Record == [batch : Commits, index : Nat \ {0}]

CommitType == [batch : Commits, first : Nat \ {0}, applied : BOOLEAN]

Consumer == [position : Nat \ {0}, limit : Nat, seen : SUBSET Record, unwritten : SUBSET Nat]

CallType == Commits \cup {"read"}

RlTypeOK ==
    /\ nextSeq \in Nat
    /\ waiters \in Seq(CallType)
    /\ immediates \in Seq(CallType)
    /\ committing \subseteq CommitType
    /\ records = [s \in DOMAIN records |-> records[s]]
    /\ \A s \in DOMAIN records : s \in Nat \ {0} /\ records[s] \in Record
    /\ stored \subseteq Commits
    /\ status \in [Commits -> Statuses]
    /\ before \in [Commits -> SUBSET Commits]
    /\ consumer \in Consumer

\* The numbers of a batch that is being committed.
NumbersOf(c) == c.first .. c.first + OpsOf[c.batch] - 1

Apart(c, d) ==
    /\ c.batch # d.batch
    /\ c.first + OpsOf[c.batch] <= d.first \/ d.first + OpsOf[d.batch] <= c.first

\* What the database works at: numbers below the next one, of one batch each; a batch that is
\* not applied has no records, and its numbers are behind those of what it was called after.
CommittingOK(cs, next) ==
    /\ \A c \in cs :
        /\ c.first + OpsOf[c.batch] <= next
        /\ status[c.batch] = "called"
        /\ c.applied => c.batch \in stored
        /\ ~c.applied =>
            /\ c.batch \notin stored
            /\ \A s \in DOMAIN records :
                /\ s \notin NumbersOf(c)
                /\ records[s].batch \in before[c.batch] => s < c.first
    /\ \A c, d \in cs : c # d => Apart(c, d)

\* The batches among the calls are called, are not written, and are there once.
CallsOK(calls) ==
    \A i \in DOMAIN calls : calls[i] # "read" =>
        /\ status[calls[i]] = "called"
        /\ calls[i] \notin stored
        /\ \A j \in DOMAIN calls : calls[j] = calls[i] => i = j

Unnumbered(calls, cs) == \A i \in DOMAIN calls : \A c \in cs : c.batch # calls[i]

\* The numbers behind the next one are free. A next number of 0 is undefined: nothing is then
\* in the database's hands, and calls wait for the lookup; else for their turn.
NumbersInv ==
    /\ nextSeq = 0 => committing = {} /\ immediates = <<>> /\ \E n \in Nat : \A s \in DOMAIN records : s <= n
    /\ nextSeq # 0 => waiters = <<>> /\ \A s \in DOMAIN records : s < nextSeq

CallsInv ==
    /\ CommittingOK(committing, nextSeq)
    /\ CallsOK(waiters) /\ CallsOK(immediates)
    /\ Unnumbered(waiters, committing) /\ Unnumbered(immediates, committing)

\* What succeeded is stored, and what was called before it had succeeded.
HistoryInv ==
    /\ \A b \in Commits : status[b] = "ok" => b \in stored
    /\ \A b \in stored : status[b] # "new"
    /\ \A b \in Commits : \A c \in before[b] : status[c] = "ok"

\* A consumer has been given what it has passed, or passed a number that was not written.
PassedOK(reader) ==
    \A s \in 1 .. reader.position - 1 :
        s \in reader.unwritten \/ (s \in DOMAIN records /\ records[s] \in reader.seen)

RlInv ==
    /\ RlTypeOK
    /\ NumbersInv
    /\ CallsInv
    /\ HistoryInv
    /\ PassedOK(consumer)
    /\ RecordsMatchData
    /\ NumbersFollowCalls
-----------------------------------------------------------------------------
(* What a turn does, call after call.                                      *)

TurnType == [next : Nat, committing : SUBSET CommitType, consumer : Consumer]

\* Where a turn is after the first k of its calls.
TurnInv(t, calls, k) ==
    /\ t \in TurnType
    /\ t.next # 0
    /\ \A s \in DOMAIN records : s < t.next
    /\ CommittingOK(t.committing, t.next)
    /\ \A c \in t.committing : c \in committing \/ \E i \in 1 .. k : calls[i] = c.batch
    /\ PassedOK(t.consumer)

\* What is known of the calls when the turn begins.
CallsKnown(calls) ==
    /\ RlTypeOK /\ HistoryInv
    /\ calls \in Seq(CallType)
    /\ CallsOK(calls) /\ Unnumbered(calls, committing)

\* A turn whose numbers and batches are replaced.
LEMMA NumberFields ==
    ASSUME NEW t \in TurnType, NEW b \in Commits
    PROVE  /\ Number(t, b).next = t.next + OpsOf[b]
           /\ Number(t, b).committing =
                t.committing \cup {[batch |-> b, first |-> t.next, applied |-> FALSE]}
           /\ Number(t, b).consumer = t.consumer
           /\ Number(t, b) = [next |-> Number(t, b).next, committing |-> Number(t, b).committing,
                              consumer |-> Number(t, b).consumer]
<1> DEFINE u == Number(t, b)
           next == t.next + OpsOf[b]
           cs == t.committing \cup {[batch |-> b, first |-> t.next, applied |-> FALSE]}
           n == t.next
           old == t.committing
           reader == t.consumer
<1>1. t = [next |-> n, committing |-> old, consumer |-> reader]
  BY DEF TurnType
<1>2. u = [t EXCEPT !.next = next, !.committing = cs]
  BY Zenon DEF Number
<1> HIDE DEF u, next, cs, n, old, reader
<1>3. u = [next |-> next, committing |-> cs, consumer |-> reader]
  BY <1>1, <1>2
<1>4. u.next = next /\ u.committing = cs /\ u.consumer = reader
  BY <1>3
<1>5. u = [next |-> u.next, committing |-> u.committing, consumer |-> u.consumer]
  BY <1>3, <1>4
<1> QED BY <1>4, <1>5 DEF u, next, cs, reader

\* A batch is given the next numbers.
LEMMA NumberStep ==
    ASSUME NEW calls, CallsKnown(calls), NEW k \in Nat, k + 1 \in DOMAIN calls,
           calls[k + 1] # "read", NEW t, TurnInv(t, calls, k)
    PROVE  TurnInv(Number(t, calls[k + 1]), calls, k + 1)
<1> DEFINE b == calls[k + 1]
           new == [batch |-> b, first |-> t.next, applied |-> FALSE]
           u == Number(t, b)
           n == t.next
           m == OpsOf[b]
           cs == t.committing
<1>1. /\ RlTypeOK /\ HistoryInv /\ calls \in Seq(CallType)
      /\ CallsOK(calls) /\ Unnumbered(calls, committing)
  BY DEF CallsKnown
<1>2. /\ t \in TurnType /\ n \in Nat /\ n # 0 /\ cs \subseteq CommitType
      /\ \A s \in DOMAIN records : s < n
      /\ CommittingOK(cs, n)
      /\ \A c \in cs : c \in committing \/ \E i \in 1 .. k : calls[i] = c.batch
      /\ t.consumer \in Consumer /\ PassedOK(t.consumer)
  BY DEF TurnInv, TurnType
<1>3. b \in Commits /\ m \in Nat /\ m # 0
  <2>1. b \in CallType
    BY <1>1, ElementOfSeq, LenProperties
  <2> QED BY <2>1, RecordLogAssumption DEF CallType
<1>4. status[b] = "called" /\ b \notin stored /\ \A j \in DOMAIN calls : calls[j] = b => j = k + 1
  BY <1>1 DEF CallsOK
<1>5. \A c \in cs : c.batch # b
  <2> SUFFICES ASSUME NEW c \in cs, c.batch = b PROVE FALSE
    OBVIOUS
  <2>1. c \notin committing
    BY <1>1 DEF Unnumbered
  <2>2. PICK i \in 1 .. k : calls[i] = b
    BY <1>2, <2>1
  <2>3. i \in DOMAIN calls /\ i # k + 1
    BY <1>1, LenProperties
  <2> QED BY <1>4, <2>2, <2>3
<1>6. u.next = n + m /\ u.committing = cs \cup {new} /\ u.consumer = t.consumer
      /\ u = [next |-> u.next, committing |-> u.committing, consumer |-> u.consumer]
  BY <1>2, <1>3, NumberFields
<1>7. new \in CommitType /\ new.batch = b /\ new.first = n /\ new.applied = FALSE
  BY <1>2, <1>3 DEF CommitType
<1> HIDE DEF new, u, n, b
<1>8. u \in TurnType
  BY <1>2, <1>3, <1>6, <1>7 DEF TurnType
<1>9. n + m # 0 /\ \A s \in DOMAIN records : s < n + m
  BY <1>1, <1>2, <1>3 DEF RlTypeOK
<1>10. CommittingOK(cs \cup {new}, n + m)
  <2>1. \A c \in cs : /\ c.batch \in Commits /\ c.first \in Nat /\ OpsOf[c.batch] \in Nat
                      /\ c.first + OpsOf[c.batch] <= n
    BY <1>2, RecordLogAssumption DEF CommittingOK, CommitType
  <2>2. ASSUME NEW c \in cs \cup {new}
        PROVE  /\ c.first + OpsOf[c.batch] <= n + m
               /\ status[c.batch] = "called"
               /\ c.applied => c.batch \in stored
               /\ ~c.applied =>
                   /\ c.batch \notin stored
                   /\ \A s \in DOMAIN records :
                       /\ s \notin NumbersOf(c)
                       /\ records[s].batch \in before[c.batch] => s < c.first
    <3>1. CASE c \in cs
      <4>1. c.first + OpsOf[c.batch] <= n + m
        BY <1>2, <1>3, <2>1, <3>1
      <4> QED BY <1>2, <3>1, <4>1 DEF CommittingOK
    <3>2. CASE c = new
      <4>1. \A s \in DOMAIN records : s \notin NumbersOf(new) /\ s < n
        BY <1>1, <1>2, <1>7 DEF NumbersOf, RlTypeOK
      <4>2. new.first + OpsOf[new.batch] = n + m
        BY <1>7
      <4> QED BY <1>2, <1>3, <1>4, <1>7, <3>2, <4>1, <4>2
    <3> QED BY <3>1, <3>2
  <2>3. ASSUME NEW c \in cs \cup {new}, NEW d \in cs \cup {new}, c # d
        PROVE  Apart(c, d)
    <3>1. CASE c \in cs /\ d \in cs
      BY <1>2, <2>3, <3>1 DEF CommittingOK
    <3>2. CASE c = new /\ d \in cs
      BY <1>5, <1>7, <2>1, <3>2 DEF Apart
    <3>3. CASE c \in cs /\ d = new
      BY <1>5, <1>7, <2>1, <3>3 DEF Apart
    <3> QED BY <2>3, <3>1, <3>2, <3>3
  <2> QED BY <2>2, <2>3 DEF CommittingOK
<1>11. \A c \in cs \cup {new} : c \in committing \/ \E i \in 1 .. k + 1 : calls[i] = c.batch
  <2>1. \A i \in 1 .. k : i \in 1 .. k + 1
    OBVIOUS
  <2>2. k + 1 \in 1 .. k + 1 /\ calls[k + 1] = new.batch
    BY <1>7 DEF b
  <2> QED BY <1>2, <2>1, <2>2
<1> QED BY <1>2, <1>6, <1>8, <1>9, <1>10, <1>11 DEF TurnInv, u, b

\* A set of natural numbers that is not empty has a least element: what stands for induction
\* here.
LEMMA LeastNumber ==
    ASSUME NEW T \in SUBSET Nat, T # {}
    PROVE  \E i \in T : \A j \in T : i <= j
<1>1. IsWellFoundedOn(OpToRel(<, Nat), Nat)
  BY NatLessThanWellFounded
<1>2. PICK i \in T : \A j \in T : ~ (<<j, i>> \in OpToRel(<, Nat))
  BY <1>1, WFMin
<1>3. ASSUME NEW j \in T PROVE i <= j
  <2>1. ~(j < i)
    BY <1>2 DEF OpToRel
  <2> QED BY <2>1
<1> QED BY <1>3
\* The size of an interval that may be empty.
LEMMA SpanSize ==
    ASSUME NEW a \in Nat, NEW b \in Nat, a <= b
    PROVE  IsFiniteSet(a .. b - 1) /\ Cardinality(a .. b - 1) = b - a
<1> DEFINE c == b - 1
<1>1. c \in Int /\ a \in Int /\ (a > c <=> a = b) /\ c - a + 1 = b - a
  OBVIOUS
<1> HIDE DEF c
<1>2. IsFiniteSet(a .. c) /\ Cardinality(a .. c) = IF a > c THEN 0 ELSE c - a + 1
  BY <1>1, FS_Interval
<1>3. Cardinality(a .. c) = b - a
  BY <1>1, <1>2
<1> QED BY <1>2, <1>3 DEF c

\* The page that is made of the records found, and the reader after it.
PageOf(reader, next, found, given, start, end, after) ==
    /\ found = {s \in DOMAIN records : reader.position <= s}
    /\ start = CHOOSE s \in found : \A t \in found : s <= t
    /\ given = {s \in found : Cardinality({t \in found : t < s}) < reader.limit}
    /\ end = PageEnd(start, reader.limit, next)
    /\ after = [reader EXCEPT
                  !.limit = 0,
                  !.position = end + 1,
                  !.seen = @ \cup {records[s] : s \in given},
                  !.unwritten = @ \cup {s \in 1 .. next - 1 : s <= end /\ s \notin DOMAIN records}]

\* A page that a reader is given: it is at the end of the page, which is below the next number,
\* and of the numbers it passes it has been given those of the records.
LEMMA PageCovers ==
    ASSUME NEW reader \in Consumer, PassedOK(reader), NEW next \in Nat, next # 0,
           \A s \in DOMAIN records : s \in Nat \ {0} /\ records[s] \in Record /\ s < next,
           NEW found, found # {}, NEW given, NEW start, NEW end, NEW after,
           PageOf(reader, next, found, given, start, end, after)
    PROVE  after \in Consumer /\ PassedOK(after)
<1> USE DEF PageOf
<1> DEFINE limit == reader.limit
           seen == reader.seen \cup {records[s] : s \in given}
           unwritten == reader.unwritten
                          \cup {s \in 1 .. next - 1 : s <= end /\ s \notin DOMAIN records}
<1>1. /\ reader.position \in Nat \ {0} /\ limit \in Nat
      /\ reader.seen \subseteq Record /\ reader.unwritten \subseteq Nat
      /\ reader = [position |-> reader.position, limit |-> limit, seen |-> reader.seen,
                   unwritten |-> reader.unwritten]
  BY DEF Consumer
<1>2. start \in found /\ \A s \in found : start <= s
  <2>1. found \in SUBSET Nat
    OBVIOUS
  <2>2. \E s \in found : \A t \in found : s <= t
    BY <2>1, LeastNumber
  <2> QED BY <2>2
<1>3. start \in Nat \ {0} /\ start < next
  BY <1>2
<1>4. /\ end \in Nat /\ end <= next - 1
      /\ start + limit <= next - 1 => end = start + limit - 1
      /\ ~(start + limit <= next - 1) => end = next - 1
  BY <1>1, <1>3 DEF PageEnd
<1>5. after = [position |-> end + 1, limit |-> 0, seen |-> seen, unwritten |-> unwritten]
  <2> DEFINE p == reader.position
             e == reader.seen
             w == reader.unwritten
  <2>1. reader = [position |-> p, limit |-> limit, seen |-> e, unwritten |-> w]
    BY <1>1
  <2>2. after = [reader EXCEPT !.limit = 0, !.position = end + 1, !.seen = seen,
                               !.unwritten = unwritten]
    OBVIOUS
  <2> HIDE DEF p, e, w, limit, seen, unwritten
  <2> QED BY <2>1, <2>2
<1>6. seen \subseteq Record /\ unwritten \subseteq Nat
  <2> DEFINE news == {records[s] : s \in given}
             skipped == {s \in 1 .. next - 1 : s <= end /\ s \notin DOMAIN records}
  <2>1. news \subseteq Record
    <3>1. \A s \in given : records[s] \in Record
      OBVIOUS
    <3> QED BY <3>1, Zenon
  <2>2. skipped \subseteq Nat
    OBVIOUS
  <2>3. seen = reader.seen \cup news /\ unwritten = reader.unwritten \cup skipped
    OBVIOUS
  <2> HIDE DEF news, skipped, seen, unwritten
  <2> QED BY <1>1, <2>1, <2>2, <2>3
<1> DEFINE last == end + 1
<1>7. last \in Nat \ {0} /\ last - 1 = end
  BY <1>4
<1>15. after = [position |-> last, limit |-> 0, seen |-> seen, unwritten |-> unwritten]
  BY <1>5
<1>16. /\ seen = reader.seen \cup {records[s] : s \in given}
       /\ unwritten = reader.unwritten
                        \cup {s \in 1 .. next - 1 : s <= end /\ s \notin DOMAIN records}
  OBVIOUS
<1> HIDE DEF seen, unwritten, last
<1>8. after \in Consumer /\ after.position = last /\ after.seen = seen /\ after.unwritten = unwritten
  <2> DEFINE z == [position |-> last, limit |-> 0, seen |-> seen, unwritten |-> unwritten]
  <2>1. z.position = last /\ z.seen = seen /\ z.unwritten = unwritten
    OBVIOUS
  <2>2. z \in Consumer
    BY <1>6, <1>7 DEF Consumer
  <2>3. after = z
    BY <1>15
  <2> HIDE DEF z
  <2> QED BY <2>1, <2>2, <2>3, Zenon
<1>9. ASSUME NEW s \in found, s <= end PROVE s \in given
  <2> DEFINE below == {t \in found : t < s}
             span == start .. s - 1
  <2>1. s \in Nat /\ start <= s
    BY <1>2
  <2>2. below \in SUBSET span
    BY <1>2
  <2>3. IsFiniteSet(span) /\ Cardinality(span) = s - start
    BY <1>3, <2>1, SpanSize
  <2>4. IsFiniteSet(below) /\ Cardinality(below) <= Cardinality(span)
    <3> HIDE DEF below, span
    <3> QED BY <2>2, <2>3, FS_Subset
  <2>5. Cardinality(below) \in Nat
    BY <2>4, FS_CardinalityType
  <2> HIDE DEF below, span
  <2>6. s - start < limit
    BY <1>1, <1>3, <1>4, <1>9, <2>1
  <2>7. Cardinality(below) < limit
    BY <1>1, <1>3, <2>1, <2>3, <2>4, <2>5, <2>6
  <2> QED BY <2>7 DEF below
<1>10. ASSUME NEW s \in 1 .. end
       PROVE  s \in unwritten \/ (s \in DOMAIN records /\ records[s] \in seen)
  <2>1. CASE s < reader.position
    <3>1. s \in 1 .. reader.position - 1
      BY <1>1, <1>4, <2>1
    <3>2. s \in reader.unwritten \/ (s \in DOMAIN records /\ records[s] \in reader.seen)
      BY <3>1 DEF PassedOK
    <3> QED BY <1>16, <3>2
  <2>2. CASE ~(s < reader.position) /\ s \in DOMAIN records
    <3>1. s \in found /\ s <= end
      BY <1>1, <1>4, <2>2
    <3>2. s \in given
      BY <1>9, <3>1
    <3> QED BY <1>16, <2>2, <3>2
  <2>3. CASE s \notin DOMAIN records
    <3>1. s \in 1 .. next - 1 /\ s <= end
      BY <1>4
    <3> QED BY <1>16, <2>3, <3>1
  <2> QED BY <2>1, <2>2, <2>3
<1>11. PassedOK(after)
  BY <1>7, <1>8, <1>10 DEF PassedOK
<1> QED BY <1>8, <1>11

\* A turn in which the reader is replaced.
LEMMA ReaderFields ==
    ASSUME NEW t \in TurnType, NEW after, NEW u, u = [t EXCEPT !.consumer = after]
    PROVE  /\ u.next = t.next /\ u.committing = t.committing /\ u.consumer = after
           /\ u = [next |-> u.next, committing |-> u.committing, consumer |-> u.consumer]
<1> DEFINE n == t.next
           cs == t.committing
           reader == t.consumer
<1>1. t = [next |-> n, committing |-> cs, consumer |-> reader]
  BY DEF TurnType
<1> HIDE DEF n, cs, reader
<1>2. u = [next |-> n, committing |-> cs, consumer |-> after]
  BY <1>1
<1>3. u.next = n /\ u.committing = cs /\ u.consumer = after
  BY <1>2
<1>4. u = [next |-> u.next, committing |-> u.committing, consumer |-> u.consumer]
  BY <1>2, <1>3
<1> QED BY <1>3, <1>4 DEF n, cs

\* A page is read.
LEMMA ReadStep ==
    ASSUME NEW calls, CallsKnown(calls), NEW k \in Nat, NEW t, TurnInv(t, calls, k)
    PROVE  TurnInv(ReadPage(t), calls, k + 1)
<1> DEFINE reader == t.consumer
           next == t.next
           found == InRange(reader.position, next - 1)
           given == {s \in found : Cardinality({q \in found : q < s}) < reader.limit}
           start == CHOOSE s \in found : \A q \in found : s <= q
           end == PageEnd(start, reader.limit, next)
           page == [reader EXCEPT
                      !.limit = 0,
                      !.position = end + 1,
                      !.seen = @ \cup {records[s] : s \in given},
                      !.unwritten = @ \cup {s \in 1 .. next - 1 : s <= end /\ s \notin DOMAIN records}]
           none == [reader EXCEPT !.limit = 0]
           after == IF found = {} THEN none ELSE page
           u == ReadPage(t)
<1>1. /\ t \in TurnType /\ next \in Nat /\ next # 0 /\ reader \in Consumer
      /\ \A s \in DOMAIN records : s < next
      /\ CommittingOK(t.committing, next)
      /\ \A c \in t.committing : c \in committing \/ \E i \in 1 .. k : calls[i] = c.batch
      /\ PassedOK(reader)
  BY DEF TurnInv, TurnType
<1>2. \A s \in DOMAIN records : s \in Nat \ {0} /\ records[s] \in Record
  BY DEF CallsKnown, RlTypeOK
<1>3. u = [t EXCEPT !.consumer = after]
  BY Zenon DEF ReadPage
<1>4. found = {s \in DOMAIN records : reader.position <= s}
  <2>1. \A s \in DOMAIN records : s <= next - 1
    BY <1>1, <1>2
  <2> QED BY <2>1 DEF InRange
<1>5. none \in Consumer /\ PassedOK(none)
  <2>1. /\ none \in Consumer /\ none.position = reader.position
        /\ none.seen = reader.seen /\ none.unwritten = reader.unwritten
    BY <1>1 DEF Consumer
  <2> HIDE DEF none
  <2> QED BY <1>1, <2>1 DEF PassedOK
<1>6. ASSUME found # {} PROVE page \in Consumer /\ PassedOK(page)
  <2> DEFINE g == given
             s0 == start
             e == end
             a == page
  <2>1. /\ g = {s \in found : Cardinality({q \in found : q < s}) < reader.limit}
        /\ s0 = CHOOSE s \in found : \A q \in found : s <= q
        /\ e = PageEnd(s0, reader.limit, next)
        /\ a = [reader EXCEPT
                  !.limit = 0,
                  !.position = e + 1,
                  !.seen = @ \cup {records[s] : s \in g},
                  !.unwritten = @ \cup {s \in 1 .. next - 1 : s <= e /\ s \notin DOMAIN records}]
    BY Zenon
  <2>2. \A s \in DOMAIN records : s \in Nat \ {0} /\ records[s] \in Record /\ s < next
    BY <1>1, <1>2
  <2> HIDE DEF g, s0, e, a, found, reader, next
  <2>4. PageOf(reader, next, found, g, s0, e, a)
    BY <1>4, <2>1, Zenon DEF PageOf
  <2>3. a \in Consumer /\ PassedOK(a)
    BY <1>1, <1>6, <2>2, <2>4, PageCovers
  <2> QED BY <2>3 DEF g, s0, e, a
<1> HIDE DEF page, none
<1>7. after \in Consumer /\ PassedOK(after)
  BY <1>5, <1>6
<1> HIDE DEF after, u
<1>8. /\ u.next = next /\ u.committing = t.committing /\ u.consumer = after
      /\ u = [next |-> u.next, committing |-> u.committing, consumer |-> u.consumer]
  BY <1>1, <1>3, ReaderFields
<1>9. u \in TurnType
  BY <1>1, <1>7, <1>8 DEF TurnType
<1>10. \A i \in 1 .. k : i \in 1 .. k + 1
  OBVIOUS
<1> QED BY <1>1, <1>7, <1>8, <1>9, <1>10 DEF TurnInv, u

\* One call of a turn.
LEMMA CallStep ==
    ASSUME NEW calls, CallsKnown(calls), NEW k \in Nat, k + 1 \in DOMAIN calls,
           NEW t, TurnInv(t, calls, k)
    PROVE  TurnInv(Call(t, calls[k + 1]), calls, k + 1)
<1>1. CASE calls[k + 1] = "read"
  BY <1>1, ReadStep DEF Call
<1>2. CASE calls[k + 1] # "read"
  BY <1>2, NumberStep DEF Call
<1> QED BY <1>1, <1>2

\* The calls of a turn are made one after the other. The function that the recursion defines
\* exists: there is no first number of calls for which none exists.
LEMMA CallsBySteps ==
    ASSUME NEW begin, NEW calls, Len(calls) \in Nat
    PROVE  \E run : /\ run[0] = begin
                    /\ \A i \in 1 .. Len(calls) : run[i] = Call(run[i - 1], calls[i])
                    /\ TurnOf(calls, begin) = run[Len(calls)]
<1> DEFINE n == Len(calls)
           Of(m, f) == [i \in 0 .. m |-> IF i = 0 THEN begin ELSE Call(f[i - 1], calls[i])]
           T == {m \in 0 .. n : ~ \E f : f = Of(m, f)}
           run == CHOOSE f : f = Of(n, f)
<1>0. n \in Nat
  OBVIOUS
<1>1. TurnOf(calls, begin) = run[n]
  BY Zenon DEF TurnOf
<1> HIDE DEF n
<1>2. T = {}
  <2>1. SUFFICES ASSUME T # {} PROVE FALSE
    OBVIOUS
  <2>2. PICK m \in T : \A i \in T : m <= i
    <3>1. T \in SUBSET Nat
      BY <1>0
    <3> HIDE DEF T
    <3> QED BY <2>1, <3>1, LeastNumber
  <2>3. m \in Nat /\ m <= n
    BY <1>0
  <2>4. \A f : f # Of(m, f)
    OBVIOUS
  <2>5. CASE m = 0
    <3> DEFINE f == [i \in 0 .. 0 |-> begin]
    <3>1. f = Of(m, f)
      BY <2>5
    <3> QED BY <2>4, <3>1
  <2>6. CASE m # 0
    <3>1. m - 1 \in 0 .. n /\ ~ (m <= m - 1)
      BY <1>0, <2>3, <2>6
    <3>2. PICK f : f = Of(m - 1, f)
      BY <2>2, <3>1
    <3> DEFINE g == [i \in 0 .. m |-> IF i = m THEN Call(f[m - 1], calls[m]) ELSE f[i]]
    <3>3. \A i \in 0 .. m - 1 : f[i] = IF i = 0 THEN begin ELSE Call(f[i - 1], calls[i])
      BY <3>2
    <3>4. \A i \in 0 .. m - 1 : i \in 0 .. m /\ i # m
      BY <2>3
    <3>5. \A i \in 0 .. m - 1 : g[i] = f[i]
      BY <3>4
    <3>6. \A i \in 0 .. m : i # 0 => i - 1 \in 0 .. m - 1
      BY <2>3
    <3>7. g[m] = Call(f[m - 1], calls[m]) /\ m - 1 \in 0 .. m - 1
      BY <2>3, <2>6
    <3> HIDE DEF g
    <3>8. \A i \in 0 .. m : g[i] = IF i = 0 THEN begin ELSE Call(g[i - 1], calls[i])
      <4>1. ASSUME NEW i \in 0 .. m, i # m
            PROVE  g[i] = IF i = 0 THEN begin ELSE Call(g[i - 1], calls[i])
        <5>1. i \in 0 .. m - 1
          BY <2>3, <4>1
        <5>2. f[i] = IF i = 0 THEN begin ELSE Call(f[i - 1], calls[i])
          BY <3>3, <5>1
        <5>3. g[i] = f[i] /\ (i # 0 => g[i - 1] = f[i - 1])
          BY <3>5, <3>6, <5>1
        <5> QED BY <5>2, <5>3
      <4>2. g[m] = IF m = 0 THEN begin ELSE Call(g[m - 1], calls[m])
        BY <2>6, <3>5, <3>7
      <4> QED BY <4>1, <4>2
    <3>9. g = Of(m, g)
      BY <3>8 DEF g
    <3> QED BY <2>4, <3>9
  <2> QED BY <2>5, <2>6
<1>3. \E f : f = Of(n, f)
  BY <1>0, <1>2
<1>4. run = Of(n, run)
  <2> HIDE DEF Of
  <2> QED BY <1>3
<1> HIDE DEF run
<1>5. run[0] = begin
  BY <1>0, <1>4
<1>6. \A i \in 1 .. n : run[i] = Call(run[i - 1], calls[i])
  BY <1>0, <1>4
<1> QED BY <1>1, <1>5, <1>6 DEF n

\* Where a turn is after all of its calls.
LEMMA TurnSteps ==
    ASSUME NEW calls, CallsKnown(calls), NEW t, TurnInv(t, calls, 0)
    PROVE  TurnInv(TurnOf(calls, t), calls, Len(calls))
<1> DEFINE n == Len(calls)
<1>0. calls \in Seq(CallType)
  BY DEF CallsKnown
<1>1. n \in Nat /\ Len(calls) \in Nat /\ DOMAIN calls = 1 .. Len(calls)
  BY <1>0, LenProperties
<1>8. \E run : /\ run[0] = t
               /\ \A i \in 1 .. Len(calls) : run[i] = Call(run[i - 1], calls[i])
               /\ TurnOf(calls, t) = run[Len(calls)]
  <2>1. Len(calls) \in Nat
    BY <1>1
  <2> QED BY ONLY <2>1, CallsBySteps
<1>2. PICK run : /\ run[0] = t
                 /\ \A i \in 1 .. n : run[i] = Call(run[i - 1], calls[i])
                 /\ TurnOf(calls, t) = run[n]
  BY <1>8
<1> DEFINE Good(i) == TurnInv(run[i], calls, i)
           T == {i \in 0 .. n : ~Good(i)}
<1>4. Good(0)
  BY <1>2
<1>5. ASSUME NEW i \in 1 .. n, Good(i - 1) PROVE Good(i)
  <2> DEFINE k == i - 1
  <2>1. k \in Nat /\ k + 1 = i /\ i \in DOMAIN calls
    BY <1>1
  <2>2. TurnInv(run[k], calls, k) /\ run[i] = Call(run[k], calls[i])
    BY <1>2, <1>5
  <2> HIDE DEF k
  <2>3. TurnInv(Call(run[k], calls[k + 1]), calls, k + 1)
    BY <2>1, <2>2, CallStep
  <2> QED BY <2>1, <2>2, <2>3
<1> HIDE DEF Good, n
<1>6. T = {}
  <2>1. SUFFICES ASSUME T # {} PROVE FALSE
    OBVIOUS
  <2>2. PICK i \in T : \A j \in T : i <= j
    <3>1. T \in SUBSET Nat
      BY <1>1
    <3> HIDE DEF T
    <3> QED BY <2>1, <3>1, LeastNumber
  <2>3. i \in 1 .. n /\ i - 1 \in 0 .. n /\ ~(i <= i - 1)
    BY <1>1, <1>4, <2>2
  <2>4. Good(i - 1)
    BY <2>2, <2>3
  <2> QED BY <1>5, <2>2, <2>3, <2>4
<1>7. Good(n)
  BY <1>1, <1>6
<1> QED BY <1>2, <1>7 DEF Good, n

\* The number behind the last one in the log is behind all of them.
LEMMA LastNumber ==
    ASSUME RlTypeOK, \E n \in Nat : \A s \in DOMAIN records : s <= n
    PROVE  SeqAfterLast \in Nat \ {0} /\ \A s \in DOMAIN records : s < SeqAfterLast
<1>1. DOMAIN records \subseteq Nat \ {0} /\ records = [s \in DOMAIN records |-> records[s]]
  BY DEF RlTypeOK
<1>2. PICK n \in Nat : \A s \in DOMAIN records : s <= n
  OBVIOUS
<1>3. CASE records = <<>>
  BY <1>3 DEF SeqAfterLast
<1>4. CASE records # <<>>
  <2> DEFINE T == {n - s : s \in DOMAIN records}
             D == DOMAIN records
             last == CHOOSE s \in D : \A t \in D : t <= s
  <2>1. D # {}
    <3>1. ASSUME D = {} PROVE records = <<>>
      <4>1. records = [s \in {} |-> records[s]]
        BY <1>1, <3>1
      <4> QED BY <4>1
    <3> QED BY <1>4, <3>1
  <2>2. T \in SUBSET Nat /\ T # {}
    BY <1>1, <1>2, <2>1
  <2>3. PICK m \in T : \A j \in T : m <= j
    <3> HIDE DEF T
    <3> QED BY <2>2, LeastNumber
  <2>4. PICK s \in D : m = n - s
    OBVIOUS
  <2>5. \A t \in D : t <= s
    <3> SUFFICES ASSUME NEW t \in D PROVE t <= s
      OBVIOUS
    <3>1. m <= n - t
      BY <2>3
    <3> QED BY <1>1, <2>4, <3>1
  <2>6. SeqAfterLast = 1 + last
    BY <1>4, Zenon DEF SeqAfterLast
  <2>7. last \in D /\ \A t \in D : t <= last
    BY <2>5
  <2> HIDE DEF last
  <2> QED BY <1>1, <2>6, <2>7
<1> QED BY <1>3, <1>4

\* What a turn leaves in the log.
LEMMA RunStep ==
    ASSUME NEW calls, CallsKnown(calls), NEW next \in Nat \ {0},
           PassedOK(consumer), CommittingOK(committing, next),
           \A s \in DOMAIN records : s < next,
           RunCalls(calls, next)
    PROVE  /\ nextSeq' \in Nat \ {0} /\ committing' \subseteq CommitType /\ consumer' \in Consumer
           /\ \A s \in DOMAIN records : s < nextSeq'
           /\ CommittingOK(committing', nextSeq')
           /\ \A c \in committing' : c \in committing \/ \E i \in DOMAIN calls : calls[i] = c.batch
           /\ PassedOK(consumer')
<1> DEFINE begin == [next |-> next, committing |-> committing, consumer |-> consumer]
           turn == TurnOf(calls, begin)
<1>1. calls \in Seq(CallType) /\ DOMAIN calls = 1 .. Len(calls)
  BY LenProperties DEF CallsKnown
<1>2. committing \subseteq CommitType /\ consumer \in Consumer
  BY DEF CallsKnown, RlTypeOK
<1>3. begin \in TurnType /\ begin.next = next /\ begin.committing = committing
      /\ begin.consumer = consumer
  BY <1>2 DEF TurnType
<1> HIDE DEF begin
<1>4. TurnInv(begin, calls, 0)
  BY <1>3 DEF TurnInv
<1>5. TurnInv(turn, calls, Len(calls))
  BY <1>4, TurnSteps
<1>6. nextSeq' = turn.next /\ committing' = turn.committing /\ consumer' = turn.consumer
  BY Zenon DEF RunCalls, begin
<1> HIDE DEF turn
<1>7. turn.next \in Nat /\ turn.committing \subseteq CommitType /\ turn.consumer \in Consumer
  BY <1>5 DEF TurnInv, TurnType
<1> QED BY <1>1, <1>5, <1>6, <1>7 DEF TurnInv
-----------------------------------------------------------------------------
(* The invariant is inductive: one lemma for each action.                  *)

\* What the actions that only pass calls on leave as it is.
KeepsLog == UNCHANGED <<records, stored, status, before>>

\* A step that leaves the records and the history as they are keeps what is said of them.
LEMMA LogKept ==
    ASSUME RlInv, KeepsLog
    PROVE  /\ HistoryInv' /\ RecordsMatchData' /\ NumbersFollowCalls'
           /\ CommittingOK(committing', nextSeq') => CommittingOK(committing, nextSeq)'
           /\ CallsOK(waiters') => CallsOK(waiters)'
           /\ CallsOK(immediates') => CallsOK(immediates)'
           /\ PassedOK(consumer') => PassedOK(consumer)'
<1>1. /\ records' = records /\ stored' = stored /\ status' = status /\ before' = before
      /\ HistoryInv /\ RecordsMatchData /\ NumbersFollowCalls
  BY DEF KeepsLog, RlInv
<1>2. HistoryInv'
  BY <1>1 DEF HistoryInv
<1>3. RecordsMatchData'
  BY <1>1 DEF RecordsMatchData, RecordOf
<1>4. NumbersFollowCalls'
  BY <1>1 DEF NumbersFollowCalls
<1>5. CommittingOK(committing', nextSeq') => CommittingOK(committing, nextSeq)'
  BY <1>1 DEF CommittingOK, NumbersOf
<1>6. CallsOK(waiters') => CallsOK(waiters)'
  BY <1>1 DEF CallsOK
<1>7. CallsOK(immediates') => CallsOK(immediates)'
  BY <1>1 DEF CallsOK
<1>8. PassedOK(consumer') => PassedOK(consumer)'
  BY <1>1 DEF PassedOK
<1> QED BY <1>2, <1>3, <1>4, <1>5, <1>6, <1>7, <1>8

\* What is known of any turn that the invariant allows.
LEMMA TurnKnown ==
    ASSUME RlInv
    PROVE  CallsKnown(waiters)
  BY DEF RlInv, CallsInv, CallsKnown, RlTypeOK

\* The lookup ends, and those who waited for it are called.
LEMMA LookupEndsInv ==
    ASSUME RlInv, LookupEnds
    PROVE  RlInv'
<1> DEFINE next == SeqAfterLast
<1>1. RlTypeOK /\ NumbersInv /\ CallsInv /\ HistoryInv /\ PassedOK(consumer)
  BY DEF RlInv
<1>2. /\ waiters # <<>> /\ waiters' = <<>> /\ immediates' = immediates
      /\ RunCalls(waiters, next) /\ KeepsLog
  BY DEF LookupEnds, KeepsLog
<1>3. committing = {} /\ immediates = <<>> /\ \E n \in Nat : \A s \in DOMAIN records : s <= n
  BY <1>1, <1>2 DEF NumbersInv
<1>4. next \in Nat \ {0} /\ \A s \in DOMAIN records : s < next
  BY <1>1, <1>3, LastNumber
<1> HIDE DEF next
<1>5. CommittingOK(committing, next)
  BY <1>3 DEF CommittingOK
<1>6. /\ nextSeq' \in Nat \ {0} /\ committing' \subseteq CommitType /\ consumer' \in Consumer
      /\ \A s \in DOMAIN records : s < nextSeq'
      /\ CommittingOK(committing', nextSeq')
      /\ PassedOK(consumer')
  BY <1>1, <1>2, <1>4, <1>5, TurnKnown, RunStep
<1>7. waiters' = <<>> /\ immediates' = <<>>
  BY <1>2, <1>3
<1>8. CallsOK(waiters') /\ CallsOK(immediates')
  BY <1>7 DEF CallsOK
<1>9. RlTypeOK'
  BY <1>1, <1>2, <1>6, <1>7 DEF RlTypeOK, KeepsLog
<1>10. NumbersInv'
  BY <1>2, <1>6, <1>7 DEF NumbersInv, KeepsLog
<1>11. CallsInv'
  BY <1>2, <1>6, <1>7, <1>8, LogKept DEF CallsInv, Unnumbered
<1> QED BY <1>2, <1>6, <1>9, <1>10, <1>11, LogKept DEF RlInv

\* The first of the calls that wait for their turn is made.
LEMMA ImmediateFiresInv ==
    ASSUME RlInv, ImmediateFires
    PROVE  RlInv'
<1> DEFINE call == Head(immediates)
           rest == Tail(immediates)
<1>1. RlTypeOK /\ NumbersInv /\ CallsInv /\ HistoryInv /\ PassedOK(consumer)
  BY DEF RlInv
<1>2. /\ immediates # <<>> /\ immediates' = rest /\ waiters' = waiters
      /\ RunCalls(<<call>>, nextSeq) /\ KeepsLog
  BY DEF ImmediateFires, KeepsLog
<1>3. /\ nextSeq \in Nat \ {0} /\ waiters = <<>> /\ \A s \in DOMAIN records : s < nextSeq
      /\ immediates \in Seq(CallType)
  BY <1>1, <1>2 DEF NumbersInv, RlTypeOK
<1>4. /\ call \in CallType /\ call = immediates[1] /\ 1 \in DOMAIN immediates
      /\ rest \in Seq(CallType)
      /\ \A i \in DOMAIN rest : i + 1 \in DOMAIN immediates /\ rest[i] = immediates[i + 1] /\ i \in Nat \ {0}
  BY <1>2, <1>3, HeadTailProperties, LenProperties, EmptySeq
<1> HIDE DEF call, rest
<1>5. <<call>> \in Seq(CallType) /\ DOMAIN <<call>> = {1} /\ <<call>>[1] = call
  BY <1>4
<1>6. /\ CommittingOK(committing, nextSeq)
      /\ CallsOK(immediates) /\ Unnumbered(immediates, committing)
  BY <1>1 DEF CallsInv
<1>7. CallsKnown(<<call>>)
  <2> DEFINE one == <<call>>
  <2>1. one \in Seq(CallType) /\ DOMAIN one = {1} /\ one[1] = immediates[1]
    BY <1>4, <1>5
  <2> HIDE DEF one
  <2>2. CallsOK(one)
    BY <1>4, <1>6, <2>1 DEF CallsOK
  <2>3. Unnumbered(one, committing)
    BY <1>4, <1>6, <2>1 DEF Unnumbered
  <2>4. CallsKnown(one)
    BY <1>1, <2>1, <2>2, <2>3 DEF CallsKnown
  <2> QED BY <2>4 DEF one
<1>8. /\ nextSeq' \in Nat \ {0} /\ committing' \subseteq CommitType /\ consumer' \in Consumer
      /\ \A s \in DOMAIN records : s < nextSeq'
      /\ CommittingOK(committing', nextSeq')
      /\ \A c \in committing' : c \in committing \/ \E i \in DOMAIN <<call>> : <<call>>[i] = c.batch
      /\ PassedOK(consumer')
  BY <1>1, <1>2, <1>3, <1>6, <1>7, RunStep
<1>9. \A c \in committing' : c \in committing \/ c.batch = call
  BY <1>5, <1>8
<1>10. CallsOK(rest)
  BY <1>4, <1>6 DEF CallsOK
<1>11. Unnumbered(rest, committing')
  <2> SUFFICES ASSUME NEW i \in DOMAIN rest, NEW c \in committing', c.batch = rest[i]
               PROVE  FALSE
    BY DEF Unnumbered
  <2>1. c \notin committing
    BY <1>4, <1>6 DEF Unnumbered
  <2>2. c.batch = immediates[1] /\ rest[i] = immediates[i + 1] /\ i + 1 # 1
    BY <1>4, <1>9, <2>1
  <2>3. c.batch \in Commits /\ "read" \notin Commits
    BY <1>8, RecordLogAssumption DEF CommitType
  <2> QED BY <1>4, <1>6, <2>2, <2>3 DEF CallsOK
<1>12. CallsOK(waiters') /\ waiters' = <<>> /\ Unnumbered(waiters', committing')
  BY <1>2, <1>3 DEF CallsOK, Unnumbered
<1>13. RlTypeOK'
  BY <1>1, <1>2, <1>3, <1>4, <1>8 DEF RlTypeOK, KeepsLog
<1>14. NumbersInv'
  BY <1>2, <1>8, <1>12 DEF NumbersInv, KeepsLog
<1>15. CallsInv'
  BY <1>2, <1>8, <1>10, <1>11, <1>12, LogKept DEF CallsInv, Unnumbered
<1> QED BY <1>2, <1>8, <1>13, <1>14, <1>15, LogKept DEF RlInv

\* The process ends.
LEMMA ServerStopsInv ==
    ASSUME RlInv, ServerStops
    PROVE  RlInv'
<1>1. /\ RlTypeOK /\ NumbersInv /\ HistoryInv /\ PassedOK(consumer)
      /\ RecordsMatchData /\ NumbersFollowCalls
  BY DEF RlInv
<1>2. /\ nextSeq' = 0 /\ waiters' = <<>> /\ immediates' = <<>> /\ committing' = {}
      /\ status' = [b \in Commits |-> IF status[b] = "called" THEN "lost" ELSE status[b]]
      /\ consumer' = [consumer EXCEPT !.limit = 0]
      /\ records' = records /\ stored' = stored /\ before' = before
  BY DEF ServerStops
<1>3. /\ consumer' \in Consumer /\ consumer'.position = consumer.position
      /\ consumer'.seen = consumer.seen /\ consumer'.unwritten = consumer.unwritten
  BY <1>1, <1>2 DEF RlTypeOK, Consumer
<1>4. /\ status' \in [Commits -> Statuses]
      /\ \A b \in Commits : /\ status'[b] = "ok" <=> status[b] = "ok"
                            /\ status'[b] = "new" <=> status[b] = "new"
  BY <1>1, <1>2 DEF RlTypeOK, Statuses
<1>5. RlTypeOK'
  BY <1>1, <1>2, <1>3, <1>4 DEF RlTypeOK
<1>6. NumbersInv'
  <2>1. \E n \in Nat : \A s \in DOMAIN records : s <= n
    BY <1>1 DEF NumbersInv, RlTypeOK
  <2> QED BY <1>2, <2>1 DEF NumbersInv
<1>7. CallsInv'
  BY <1>2 DEF CallsInv, CommittingOK, CallsOK, Unnumbered
<1>8. HistoryInv'
  BY <1>1, <1>2, <1>4 DEF HistoryInv, RlTypeOK
<1>9. PassedOK(consumer)'
  BY <1>1, <1>2, <1>3 DEF PassedOK
<1>10. RecordsMatchData' /\ NumbersFollowCalls'
  BY <1>1, <1>2 DEF RecordsMatchData, NumbersFollowCalls, RecordOf
<1> QED BY <1>5, <1>6, <1>7, <1>8, <1>9, <1>10 DEF RlInv

\* A lookup fails: the readers are told so, or the process ends.
LEMMA LookupFailsInv ==
    ASSUME RlInv, LookupFails
    PROVE  RlInv'
<1>1. CASE ServerStops
  BY <1>1, ServerStopsInv
<1>2. CASE ~ServerStops
  <2>1. /\ waiters' = <<>> /\ consumer' = [consumer EXCEPT !.limit = 0]
        /\ nextSeq' = nextSeq /\ immediates' = immediates /\ committing' = committing
        /\ KeepsLog
    BY <1>2 DEF LookupFails, KeepsLog
  <2>2. RlTypeOK /\ NumbersInv /\ CallsInv /\ PassedOK(consumer)
    BY DEF RlInv
  <2>3. /\ consumer' \in Consumer /\ consumer'.position = consumer.position
        /\ consumer'.seen = consumer.seen /\ consumer'.unwritten = consumer.unwritten
    BY <2>1, <2>2 DEF RlTypeOK, Consumer
  <2>4. RlTypeOK'
    BY <2>1, <2>2, <2>3 DEF RlTypeOK, KeepsLog
  <2>5. NumbersInv'
    BY <2>1, <2>2 DEF NumbersInv, KeepsLog
  <2>6. CallsOK(waiters') /\ Unnumbered(waiters', committing')
    BY <2>1 DEF CallsOK, Unnumbered
  <2>7. /\ CallsOK(immediates') /\ CommittingOK(committing', nextSeq')
        /\ Unnumbered(immediates', committing')
    BY <2>1, <2>2 DEF CallsInv
  <2>8. CallsInv'
    BY <2>1, <2>6, <2>7, LogKept DEF CallsInv, Unnumbered
  <2>9. PassedOK(consumer')
    BY <2>1, <2>2, <2>3 DEF PassedOK
  <2> QED BY <2>1, <2>4, <2>5, <2>8, <2>9, LogKept DEF RlInv
<1> QED BY <1>1, <1>2

\* A call is put at the end of the calls that wait for the lookup or for their turn.
LEMMA CallsAppend ==
    ASSUME NEW calls \in Seq(CallType), NEW call \in CallType
    PROVE  /\ Append(calls, call) \in Seq(CallType)
           /\ \A i \in DOMAIN Append(calls, call) :
                 \/ i \in DOMAIN calls /\ Append(calls, call)[i] = calls[i]
                 \/ i = Len(calls) + 1 /\ Append(calls, call)[i] = call
  BY AppendProperties, LenProperties

\* What is known of the calls that wait when one more does.
LEMMA FindNextSeqStep ==
    ASSUME RlInv, NEW call \in CallType, FindNextSeq(call), nextSeq' = nextSeq
    PROVE  /\ waiters' \in Seq(CallType) /\ immediates' \in Seq(CallType)
           /\ nextSeq' = 0 => immediates' = <<>>
           /\ nextSeq' # 0 => waiters' = <<>>
           /\ \/ waiters' = waiters /\ immediates' = Append(immediates, call)
              \/ waiters' = Append(waiters, call) /\ immediates' = immediates
<1>1. waiters \in Seq(CallType) /\ immediates \in Seq(CallType)
      /\ (nextSeq = 0 => immediates = <<>>) /\ (nextSeq # 0 => waiters = <<>>)
  BY DEF RlInv, RlTypeOK, NumbersInv
<1>2. CASE nextSeq # 0
  BY <1>1, <1>2, CallsAppend DEF FindNextSeq
<1>3. CASE nextSeq = 0
  BY <1>1, <1>3, CallsAppend DEF FindNextSeq
<1> QED BY <1>2, <1>3

\* A reader asks for a page.
LEMMA ReadCalledInv ==
    ASSUME RlInv, NEW limit \in Limits, ReadCalled(limit)
    PROVE  RlInv'
<1>1. RlTypeOK /\ NumbersInv /\ CallsInv /\ PassedOK(consumer)
  BY DEF RlInv
<1>2. /\ consumer' = [consumer EXCEPT !.limit = limit] /\ FindNextSeq("read") /\ KeepsLog
      /\ nextSeq' = nextSeq /\ committing' = committing
  BY DEF ReadCalled, KeepsLog
<1>3. /\ consumer' \in Consumer /\ consumer'.position = consumer.position
      /\ consumer'.seen = consumer.seen /\ consumer'.unwritten = consumer.unwritten
  <2>1. limit \in Nat
    BY RecordLogAssumption
  <2> QED BY <1>1, <1>2, <2>1 DEF RlTypeOK, Consumer
<1>4. "read" \in CallType
  BY DEF CallType
<1>5. /\ waiters' \in Seq(CallType) /\ immediates' \in Seq(CallType)
      /\ nextSeq' = 0 => immediates' = <<>>
      /\ nextSeq' # 0 => waiters' = <<>>
      /\ \/ waiters' = waiters /\ immediates' = Append(immediates, "read")
         \/ waiters' = Append(waiters, "read") /\ immediates' = immediates
  BY <1>2, <1>4, FindNextSeqStep
<1>6. RlTypeOK'
  BY <1>1, <1>2, <1>3, <1>5 DEF RlTypeOK, KeepsLog
<1>7. NumbersInv'
  BY <1>1, <1>2, <1>5 DEF NumbersInv, KeepsLog
<1>8. ASSUME NEW calls \in Seq(CallType), CallsOK(calls), Unnumbered(calls, committing)
      PROVE  CallsOK(Append(calls, "read")) /\ Unnumbered(Append(calls, "read"), committing)
  <2> DEFINE more == Append(calls, "read")
  <2>1. \A i \in DOMAIN more : (i \in DOMAIN calls /\ more[i] = calls[i]) \/ more[i] = "read"
    BY <1>4, CallsAppend
  <2> HIDE DEF more
  <2>2. \A c \in committing : c.batch # "read"
    BY <1>1, RecordLogAssumption DEF RlTypeOK, CommitType
  <2>3. CallsOK(more)
    BY <1>8, <2>1 DEF CallsOK
  <2>4. Unnumbered(more, committing)
    BY <1>8, <2>1, <2>2 DEF Unnumbered
  <2> QED BY <2>3, <2>4 DEF more
<1>9. /\ CallsOK(waiters) /\ CallsOK(immediates)
      /\ Unnumbered(waiters, committing) /\ Unnumbered(immediates, committing)
      /\ CommittingOK(committing, nextSeq)
      /\ waiters \in Seq(CallType) /\ immediates \in Seq(CallType)
  BY <1>1 DEF CallsInv, RlTypeOK
<1>10. /\ CallsOK(waiters') /\ CallsOK(immediates')
       /\ Unnumbered(waiters', committing') /\ Unnumbered(immediates', committing')
       /\ CommittingOK(committing', nextSeq')
  <2>1. CallsOK(waiters') /\ Unnumbered(waiters', committing)
    BY <1>5, <1>8, <1>9
  <2>2. CallsOK(immediates') /\ Unnumbered(immediates', committing)
    BY <1>5, <1>8, <1>9
  <2> QED BY <1>2, <1>9, <2>1, <2>2
<1>11. CallsInv'
  BY <1>2, <1>10, LogKept DEF CallsInv, Unnumbered
<1>12. PassedOK(consumer')
  BY <1>1, <1>3 DEF PassedOK
<1> QED BY <1>2, <1>6, <1>7, <1>11, <1>12, LogKept DEF RlInv

\* A batch is called.
LEMMA BatchCalledInv ==
    ASSUME RlInv, NEW b \in Commits, BatchCalled(b)
    PROVE  RlInv'
<1>1. /\ RlTypeOK /\ NumbersInv /\ CallsInv /\ HistoryInv /\ PassedOK(consumer)
      /\ RecordsMatchData /\ NumbersFollowCalls
  BY DEF RlInv
<1>2. /\ status[b] = "new" /\ status' = [status EXCEPT ![b] = "called"]
      /\ before' = [before EXCEPT ![b] = {c \in Commits : status[c] = "ok"}]
      /\ FindNextSeq(b)
      /\ nextSeq' = nextSeq /\ committing' = committing /\ records' = records
      /\ stored' = stored /\ consumer' = consumer
  BY DEF BatchCalled
<1>3. b \in CallType /\ b # "read"
  BY RecordLogAssumption DEF CallType
<1>4. /\ waiters' \in Seq(CallType) /\ immediates' \in Seq(CallType)
      /\ nextSeq' = 0 => immediates' = <<>>
      /\ nextSeq' # 0 => waiters' = <<>>
      /\ \/ waiters' = waiters /\ immediates' = Append(immediates, b)
         \/ waiters' = Append(waiters, b) /\ immediates' = immediates
  BY <1>2, <1>3, FindNextSeqStep
<1>5. /\ status' \in [Commits -> Statuses] /\ before' \in [Commits -> SUBSET Commits]
      /\ status'[b] = "called"
      /\ \A c \in Commits : c # b => status'[c] = status[c] /\ before'[c] = before[c]
      /\ before'[b] = {c \in Commits : status[c] = "ok"}
  BY <1>1, <1>2 DEF RlTypeOK, Statuses
<1>6. b \notin stored
  BY <1>1, <1>2 DEF HistoryInv
<1>7. \A c \in committing : c.batch \in Commits /\ c.batch # b
  BY <1>1, <1>2 DEF CallsInv, CommittingOK, RlTypeOK, CommitType
<1>8. RlTypeOK'
  BY <1>1, <1>2, <1>4, <1>5 DEF RlTypeOK
<1>9. NumbersInv'
  BY <1>1, <1>2, <1>4 DEF NumbersInv
<1>10. HistoryInv'
  <2>1. \A c \in stored : c \in Commits /\ c # b
    BY <1>1, <1>6 DEF RlTypeOK
  <2>2. \A c \in Commits : before[c] \subseteq Commits
    BY <1>1 DEF RlTypeOK
  <2>3. \A c \in Commits : status[c] = "ok" => status'[c] = "ok"
    BY <1>2, <1>5
  <2>4. \A c \in Commits : status'[c] = "ok" => status[c] = "ok"
    BY <1>2, <1>5
  <2>5. \A d \in Commits : \A c \in before'[d] : status'[c] = "ok"
    <3>1. ASSUME NEW d \in Commits, NEW c \in before'[d] PROVE status'[c] = "ok"
      <4>1. CASE d = b
        BY <1>5, <2>3, <3>1, <4>1
      <4>2. CASE d # b
        BY <1>1, <1>5, <2>2, <2>3, <3>1, <4>2 DEF HistoryInv
      <4> QED BY <4>1, <4>2
    <3> QED BY <3>1
  <2> QED BY <1>1, <1>2, <1>5, <2>1, <2>4, <2>5 DEF HistoryInv
<1>11. ASSUME NEW calls \in Seq(CallType), CallsOK(calls), Unnumbered(calls, committing)
       PROVE  /\ \A i \in DOMAIN calls : calls[i] # b
              /\ \A i \in DOMAIN calls : calls[i] # "read" => status'[calls[i]] = "called"
  <2>1. \A i \in DOMAIN calls : calls[i] \in CallType
    BY <1>11, ElementOfSeq, LenProperties
  <2>2. \A i \in DOMAIN calls : calls[i] # b
    BY <1>2, <1>3, <1>11 DEF CallsOK
  <2> QED BY <1>5, <1>11, <2>1, <2>2 DEF CallsOK, CallType
<1>12. ASSUME NEW calls \in Seq(CallType), CallsOK(calls), Unnumbered(calls, committing),
              NEW more, more = calls \/ more = Append(calls, b)
       PROVE  /\ \A i \in DOMAIN more : more[i] # "read" =>
                    /\ status'[more[i]] = "called"
                    /\ more[i] \notin stored
                    /\ \A j \in DOMAIN more : more[j] = more[i] => i = j
              /\ Unnumbered(more, committing)
  <2>1. /\ \A i \in DOMAIN calls : calls[i] # b
        /\ \A i \in DOMAIN calls : calls[i] # "read" => status'[calls[i]] = "called"
    BY <1>11, <1>12
  <2>2. CASE more = calls
    BY <1>12, <2>1, <2>2 DEF CallsOK
  <2>3. CASE more = Append(calls, b)
    <3>1. \A i \in DOMAIN more :
             \/ i \in DOMAIN calls /\ more[i] = calls[i]
             \/ i = Len(calls) + 1 /\ more[i] = b
      BY <1>3, <2>3, CallsAppend
    <3>2. Unnumbered(more, committing)
      BY <1>7, <1>12, <3>1 DEF Unnumbered
    <3>3. ASSUME NEW i \in DOMAIN more, more[i] # "read"
          PROVE  /\ status'[more[i]] = "called"
                 /\ more[i] \notin stored
                 /\ \A j \in DOMAIN more : more[j] = more[i] => i = j
      <4>1. CASE more[i] = b
        <5>1. \A j \in DOMAIN more : more[j] = b => j = Len(calls) + 1
          BY <2>1, <3>1
        <5> QED BY <1>5, <1>6, <4>1, <5>1
      <4>2. CASE more[i] # b
        <5>1. i \in DOMAIN calls /\ more[i] = calls[i]
          BY <3>1, <4>2
        <5>2. \A j \in DOMAIN more : more[j] = more[i] => j \in DOMAIN calls /\ calls[j] = calls[i]
          BY <3>1, <4>2, <5>1
        <5> QED BY <1>12, <2>1, <3>3, <5>1, <5>2 DEF CallsOK
      <4> QED BY <4>1, <4>2
    <3> QED BY <3>2, <3>3
  <2> QED BY <1>12, <2>2, <2>3
<1>13. /\ CallsOK(waiters) /\ CallsOK(immediates)
       /\ Unnumbered(waiters, committing) /\ Unnumbered(immediates, committing)
       /\ waiters \in Seq(CallType) /\ immediates \in Seq(CallType)
  BY <1>1 DEF CallsInv, RlTypeOK
<1>14. /\ waiters' = waiters \/ waiters' = Append(waiters, b)
       /\ immediates' = immediates \/ immediates' = Append(immediates, b)
  BY <1>4
<1>15. CallsOK(waiters)' /\ Unnumbered(waiters, committing)'
  <2>1. /\ \A i \in DOMAIN waiters' : waiters'[i] # "read" =>
              /\ status'[waiters'[i]] = "called"
              /\ waiters'[i] \notin stored
              /\ \A j \in DOMAIN waiters' : waiters'[j] = waiters'[i] => i = j
        /\ Unnumbered(waiters', committing)
    BY <1>12, <1>13, <1>14
  <2>2. CallsOK(waiters)'
    BY <1>2, <2>1 DEF CallsOK
  <2>3. Unnumbered(waiters, committing)'
    BY <1>2, <2>1 DEF Unnumbered
  <2> QED BY <2>2, <2>3
<1>16. CallsOK(immediates)' /\ Unnumbered(immediates, committing)'
  <2>1. /\ \A i \in DOMAIN immediates' : immediates'[i] # "read" =>
              /\ status'[immediates'[i]] = "called"
              /\ immediates'[i] \notin stored
              /\ \A j \in DOMAIN immediates' : immediates'[j] = immediates'[i] => i = j
        /\ Unnumbered(immediates', committing)
    BY <1>12, <1>13, <1>14
  <2>2. CallsOK(immediates)'
    BY <1>2, <2>1 DEF CallsOK
  <2>3. Unnumbered(immediates, committing)'
    BY <1>2, <2>1 DEF Unnumbered
  <2> QED BY <2>2, <2>3
<1>17. CommittingOK(committing, nextSeq)'
  <2>1. CommittingOK(committing, nextSeq)
    BY <1>1 DEF CallsInv
  <2>2. \A c \in committing : status'[c.batch] = status[c.batch] /\ before'[c.batch] = before[c.batch]
    BY <1>5, <1>7
  <2> QED BY <1>2, <2>1, <2>2 DEF CommittingOK, NumbersOf
<1>18. PassedOK(consumer)' /\ RecordsMatchData'
  BY <1>1, <1>2 DEF PassedOK, RecordsMatchData, RecordOf
<1>19. NumbersFollowCalls'
  <2>1. \A t \in DOMAIN records : records[t].batch # b /\ records[t].batch \in Commits
    BY <1>1, <1>6 DEF RecordsMatchData, RlTypeOK
  <2>2. \A t \in DOMAIN records : before'[records[t].batch] = before[records[t].batch]
    BY <1>5, <2>1
  <2> QED BY <1>1, <1>2, <2>2 DEF NumbersFollowCalls
<1> QED BY <1>8, <1>9, <1>10, <1>15, <1>16, <1>17, <1>18, <1>19 DEF RlInv, CallsInv

\* A batch and another that the database works at have numbers of their own.
LEMMA CommittingApart ==
    ASSUME RlInv, NEW c \in committing
    PROVE  /\ c.batch \in Commits /\ c.first \in Nat \ {0} /\ OpsOf[c.batch] \in Nat \ {0}
           /\ c.first + OpsOf[c.batch] <= nextSeq
           /\ status[c.batch] = "called"
           /\ \A d \in committing : d # c => Apart(d, c)
           /\ \A i \in DOMAIN waiters : waiters[i] # c.batch
           /\ \A i \in DOMAIN immediates : immediates[i] # c.batch
  BY RecordLogAssumption DEF RlInv, RlTypeOK, CallsInv, CommittingOK, CommitType, Unnumbered

\* The database answers for a batch.
LEMMA BatchAnsweredInv ==
    ASSUME RlInv, NEW c \in committing, BatchAnswered(c)
    PROVE  RlInv'
<1>1. /\ RlTypeOK /\ NumbersInv /\ CallsInv /\ HistoryInv /\ PassedOK(consumer)
      /\ RecordsMatchData /\ NumbersFollowCalls
  BY DEF RlInv
<1> DEFINE b == c.batch
           answer == IF c.applied THEN "ok" ELSE "error"
<1>2. /\ committing' = committing \ {c} /\ status' = [status EXCEPT ![b] = answer]
      /\ nextSeq' = nextSeq /\ waiters' = waiters /\ immediates' = immediates
      /\ records' = records /\ stored' = stored /\ before' = before /\ consumer' = consumer
  BY DEF BatchAnswered
<1>3. /\ b \in Commits /\ status[b] = "called"
      /\ \A d \in committing : d # c => d.batch # b
      /\ \A i \in DOMAIN waiters : waiters[i] # b
      /\ \A i \in DOMAIN immediates : immediates[i] # b
  BY CommittingApart DEF Apart
<1>4. /\ status' \in [Commits -> Statuses] /\ status'[b] = answer
      /\ \A d \in Commits : d # b => status'[d] = status[d]
  BY <1>1, <1>2, <1>3 DEF RlTypeOK, Statuses
<1>5. answer = "ok" => b \in stored
  BY <1>1 DEF CallsInv, CommittingOK
<1>6. answer # "new"
  OBVIOUS
<1> HIDE DEF b, answer
<1>7. RlTypeOK'
  BY <1>1, <1>2, <1>4 DEF RlTypeOK
<1>8. NumbersInv'
  BY <1>1, <1>2 DEF NumbersInv
<1>9. HistoryInv'
  <2>1. \A d \in Commits : status'[d] = "ok" => d \in stored
    BY <1>1, <1>4, <1>5 DEF HistoryInv
  <2>2. \A d \in stored : status'[d] # "new"
    BY <1>1, <1>4, <1>6 DEF HistoryInv, RlTypeOK
  <2>3. ASSUME NEW d \in Commits, NEW e \in before[d] PROVE status'[e] = "ok"
    <3>1. e \in Commits /\ status[e] = "ok"
      BY <1>1 DEF HistoryInv, RlTypeOK
    <3> QED BY <1>3, <1>4, <3>1
  <2> QED BY <1>2, <2>1, <2>2, <2>3 DEF HistoryInv
<1>10. ASSUME NEW calls \in Seq(CallType), CallsOK(calls), \A i \in DOMAIN calls : calls[i] # b
       PROVE  \A i \in DOMAIN calls : calls[i] # "read" => status'[calls[i]] = "called"
  <2>1. \A i \in DOMAIN calls : calls[i] \in CallType
    BY <1>10, ElementOfSeq, LenProperties
  <2> QED BY <1>4, <1>10, <2>1 DEF CallsOK, CallType
<1>11. CallsOK(waiters)'
  <2>1. CallsOK(waiters) /\ waiters \in Seq(CallType)
    BY <1>1 DEF CallsInv, RlTypeOK
  <2>2. \A i \in DOMAIN waiters : waiters[i] # "read" => status'[waiters[i]] = "called"
    BY <1>3, <1>10, <2>1
  <2> QED BY <1>2, <2>1, <2>2 DEF CallsOK
<1>12. CallsOK(immediates)'
  <2>1. CallsOK(immediates) /\ immediates \in Seq(CallType)
    BY <1>1 DEF CallsInv, RlTypeOK
  <2>2. \A i \in DOMAIN immediates : immediates[i] # "read" => status'[immediates[i]] = "called"
    BY <1>3, <1>10, <2>1
  <2> QED BY <1>2, <2>1, <2>2 DEF CallsOK
<1>13. CommittingOK(committing, nextSeq)'
  <2>1. \A d \in committing' : d \in committing /\ status'[d.batch] = status[d.batch]
    BY <1>1, <1>2, <1>3, <1>4 DEF RlTypeOK, CommitType
  <2> QED BY <1>1, <1>2, <2>1 DEF CallsInv, CommittingOK, NumbersOf
<1>14. Unnumbered(waiters, committing)' /\ Unnumbered(immediates, committing)'
  BY <1>1, <1>2 DEF CallsInv, Unnumbered
<1>15. PassedOK(consumer)' /\ RecordsMatchData' /\ NumbersFollowCalls'
  BY <1>1, <1>2 DEF PassedOK, RecordsMatchData, RecordOf, NumbersFollowCalls
<1> QED BY <1>7, <1>8, <1>9, <1>11, <1>12, <1>13, <1>14, <1>15 DEF RlInv, CallsInv

\* The records of a batch are written: what the log then holds.
LEMMA AppliedRecords ==
    ASSUME RlInv, NEW c \in committing, BatchApplied(c)
    PROVE  /\ DOMAIN records' = DOMAIN records \cup NumbersOf(c)
           /\ \A s \in NumbersOf(c) :
                /\ s \in Nat \ {0} /\ s < nextSeq /\ c.first <= s /\ s \notin DOMAIN records
                /\ records'[s] = RecordOf(c.batch, s - c.first + 1)
                /\ records'[s] \in Record
           /\ \A s \in DOMAIN records : s \notin NumbersOf(c) /\ records'[s] = records[s]
           /\ records' = [s \in DOMAIN records' |-> records'[s]]
           /\ c.batch \notin stored
           /\ \A s \in DOMAIN records : records[s].batch \in before[c.batch] => s < c.first
<1> DEFINE m == OpsOf[c.batch]
           new == [s \in DOMAIN records \cup NumbersOf(c) |->
                     IF s \in NumbersOf(c) THEN RecordOf(c.batch, s - c.first + 1) ELSE records[s]]
<1>1. /\ c.batch \in Commits /\ c.first \in Nat \ {0} /\ m \in Nat \ {0}
      /\ c.first + m <= nextSeq /\ nextSeq \in Nat
  BY CommittingApart DEF RlInv, RlTypeOK
<1>2. ~c.applied /\ records' = new
  BY DEF BatchApplied, NumbersOf, RecordOf
<1>3. /\ c.batch \notin stored
      /\ \A s \in DOMAIN records : /\ s \notin NumbersOf(c)
                                   /\ records[s].batch \in before[c.batch] => s < c.first
  BY <1>2 DEF RlInv, CallsInv, CommittingOK
<1>4. \A s \in NumbersOf(c) : /\ s \in Nat \ {0} /\ s < nextSeq /\ c.first <= s
                              /\ s - c.first + 1 \in Nat \ {0}
  BY <1>1 DEF NumbersOf
<1>5. \A s \in NumbersOf(c) : RecordOf(c.batch, s - c.first + 1) \in Record
  BY <1>1, <1>4 DEF Record, RecordOf
<1>6. /\ DOMAIN new = DOMAIN records \cup NumbersOf(c)
      /\ \A s \in NumbersOf(c) : new[s] = RecordOf(c.batch, s - c.first + 1)
      /\ \A s \in DOMAIN records : s \notin NumbersOf(c) => new[s] = records[s]
      /\ new = [s \in DOMAIN new |-> new[s]]
  OBVIOUS
<1> HIDE DEF new
<1> QED BY <1>2, <1>3, <1>4, <1>5, <1>6

\* A batch is written.
LEMMA BatchAppliedInv ==
    ASSUME RlInv, NEW c \in committing, BatchApplied(c)
    PROVE  RlInv'
<1>1. /\ RlTypeOK /\ NumbersInv /\ CallsInv /\ HistoryInv /\ PassedOK(consumer)
      /\ RecordsMatchData /\ NumbersFollowCalls
  BY DEF RlInv
<1> DEFINE b == c.batch
           first == c.first
           applied == [c EXCEPT !.applied = TRUE]
           mine == NumbersOf(c)
<1>2. /\ committing' = (committing \ {c}) \cup {applied}
      /\ stored' = stored \cup {b}
      /\ nextSeq' = nextSeq /\ waiters' = waiters /\ immediates' = immediates
      /\ status' = status /\ before' = before /\ consumer' = consumer
  BY DEF BatchApplied
<1>3. /\ b \in Commits /\ first \in Nat \ {0} /\ OpsOf[b] \in Nat \ {0}
      /\ first + OpsOf[b] <= nextSeq /\ nextSeq \in Nat
      /\ status[b] = "called"
      /\ \A d \in committing : d # c => Apart(d, c)
      /\ \A i \in DOMAIN waiters : waiters[i] # b
      /\ \A i \in DOMAIN immediates : immediates[i] # b
  BY <1>1, CommittingApart DEF RlTypeOK
<1>4. /\ applied \in CommitType /\ applied.batch = b /\ applied.first = first
      /\ applied.applied = TRUE
  <2>1. c \in CommitType
    BY <1>1 DEF RlTypeOK
  <2> QED BY <2>1 DEF CommitType
<1>5. /\ DOMAIN records' = DOMAIN records \cup mine
      /\ \A s \in mine :
           /\ s \in Nat \ {0} /\ s < nextSeq /\ first <= s /\ s \notin DOMAIN records
           /\ records'[s] = RecordOf(b, s - first + 1)
           /\ records'[s] \in Record
      /\ \A s \in DOMAIN records : s \notin mine /\ records'[s] = records[s]
      /\ records' = [s \in DOMAIN records' |-> records'[s]]
      /\ b \notin stored
      /\ \A s \in DOMAIN records : records[s].batch \in before[b] => s < first
  BY AppliedRecords
<1>6. mine = first .. first + OpsOf[b] - 1
  BY DEF NumbersOf
<1>7. \A s \in mine : records'[s].batch = b /\ records'[s].index = s - first + 1
  BY <1>5 DEF RecordOf
<1> HIDE DEF b, first, applied, mine
<1>8. \A d \in Commits : b \notin before[d]
  BY <1>1, <1>3 DEF HistoryInv
<1>9. RlTypeOK'
  <2>1. stored' \subseteq Commits /\ committing' \subseteq CommitType
    BY <1>1, <1>2, <1>3, <1>4 DEF RlTypeOK
  <2>2. \A s \in DOMAIN records' : s \in Nat \ {0} /\ records'[s] \in Record
    BY <1>1, <1>5 DEF RlTypeOK
  <2>3. records' = [s \in DOMAIN records' |-> records'[s]]
    BY <1>5
  <2> HIDE DEF RlTypeOK
  <2>4. /\ nextSeq' \in Nat /\ waiters' \in Seq(CallType) /\ immediates' \in Seq(CallType)
        /\ status' \in [Commits -> Statuses] /\ before' \in [Commits -> SUBSET Commits]
        /\ consumer' \in Consumer
    BY <1>1, <1>2 DEF RlTypeOK
  <2> QED BY <2>1, <2>2, <2>3, <2>4, Zenon DEF RlTypeOK
<1>10. NumbersInv'
  <2>1. nextSeq' # 0 /\ waiters' = <<>> /\ \A s \in DOMAIN records : s < nextSeq
    BY <1>1, <1>2, <1>3 DEF NumbersInv
  <2>2. \A s \in DOMAIN records' : s < nextSeq'
    BY <1>2, <1>5, <2>1
  <2> QED BY <2>1, <2>2 DEF NumbersInv
<1>11. HistoryInv'
  BY <1>1, <1>2, <1>3 DEF HistoryInv
<1>12. CallsOK(waiters)' /\ CallsOK(immediates)'
  BY <1>1, <1>2, <1>3 DEF CallsInv, CallsOK
<1>13. Unnumbered(waiters, committing)' /\ Unnumbered(immediates, committing)'
  BY <1>1, <1>2, <1>3, <1>4 DEF CallsInv, Unnumbered
<1>14. CommittingOK(committing, nextSeq)'
  <2>1. ASSUME NEW d \in committing, d # c
        PROVE  /\ d.first + OpsOf[d.batch] <= nextSeq
               /\ status[d.batch] = "called"
               /\ d.applied => d.batch \in stored'
               /\ ~d.applied =>
                   /\ d.batch \notin stored'
                   /\ \A s \in DOMAIN records' :
                       /\ s \notin NumbersOf(d)
                       /\ records'[s].batch \in before[d.batch] => s < d.first
    <3>1. /\ d.first + OpsOf[d.batch] <= nextSeq
          /\ status[d.batch] = "called"
          /\ d.applied => d.batch \in stored
          /\ ~d.applied =>
              /\ d.batch \notin stored
              /\ \A s \in DOMAIN records :
                  /\ s \notin NumbersOf(d)
                  /\ records[s].batch \in before[d.batch] => s < d.first
      BY <1>1 DEF CallsInv, CommittingOK
    <3>2. /\ d.batch \in Commits /\ d.first \in Nat /\ OpsOf[d.batch] \in Nat
      BY CommittingApart
    <3>3. d.batch # b /\ (d.first + OpsOf[d.batch] <= first \/ first + OpsOf[b] <= d.first)
      BY <1>3, <2>1 DEF Apart, b, first
    <3>4. \A s \in mine : s \notin NumbersOf(d)
      <4> SUFFICES ASSUME NEW s \in mine, s \in NumbersOf(d) PROVE FALSE
        OBVIOUS
      <4>1. s \in Int /\ first <= s /\ s <= first + OpsOf[b] - 1
        BY <1>3, <1>6
      <4>2. d.first <= s /\ s <= d.first + OpsOf[d.batch] - 1
        BY <3>2 DEF NumbersOf
      <4> QED BY <1>3, <3>2, <3>3, <4>1, <4>2
    <3>5. \A s \in mine : records'[s].batch \notin before[d.batch]
      BY <1>7, <1>8, <3>2
    <3>6. ~d.applied => \A s \in DOMAIN records' :
                          /\ s \notin NumbersOf(d)
                          /\ records'[s].batch \in before[d.batch] => s < d.first
      BY <1>5, <3>1, <3>4, <3>5
    <3> QED BY <1>2, <3>1, <3>3, <3>6
  <2>2. /\ applied.first + OpsOf[applied.batch] <= nextSeq
        /\ status[applied.batch] = "called" /\ applied.applied /\ applied.batch \in stored'
    BY <1>2, <1>3, <1>4
  <2>3. ASSUME NEW d \in committing', NEW e \in committing', d # e PROVE Apart(d, e)
    <3>1. \A x \in committing : x # c => Apart(x, applied) /\ Apart(applied, x)
      BY <1>3, <1>4 DEF Apart, b, first
    <3>2. \A x, y \in committing : x # y => Apart(x, y)
      BY <1>1 DEF CallsInv, CommittingOK
    <3> QED BY <1>2, <2>3, <3>1, <3>2
  <2>4. ASSUME NEW d \in committing'
        PROVE  /\ d.first + OpsOf[d.batch] <= nextSeq'
               /\ status'[d.batch] = "called"
               /\ d.applied => d.batch \in stored'
               /\ ~d.applied =>
                   /\ d.batch \notin stored'
                   /\ \A s \in DOMAIN records' :
                       /\ s \notin NumbersOf(d)
                       /\ records'[s].batch \in before'[d.batch] => s < d.first
    <3>1. CASE d \in committing /\ d # c
      BY <1>2, <2>1, <3>1
    <3>2. CASE d = applied
      BY <1>2, <2>2, <3>2
    <3> QED BY <1>2, <3>1, <3>2
  <2>5. \A d \in committing' : NumbersOf(d)' = NumbersOf(d)
    BY DEF NumbersOf
  <2> QED BY <2>3, <2>4, <2>5 DEF CommittingOK, NumbersOf, Apart
<1>15. PassedOK(consumer)'
  BY <1>1, <1>2, <1>5 DEF PassedOK
<1>16. RecordsMatchData'
  <2>1. ASSUME NEW d \in stored'
        PROVE  \E s \in DOMAIN records' : \A i \in 1 .. OpsOf[d] :
                 s + i - 1 \in DOMAIN records' /\ records'[s + i - 1] = RecordOf(d, i)
    <3>1. CASE d \in stored
      <4>1. PICK s \in DOMAIN records : \A i \in 1 .. OpsOf[d] :
              s + i - 1 \in DOMAIN records /\ records[s + i - 1] = RecordOf(d, i)
        BY <1>1, <3>1 DEF RecordsMatchData
      <4> QED BY <1>5, <4>1
    <3>2. CASE d = b
      <4>1. first \in DOMAIN records'
        BY <1>3, <1>5, <1>6
      <4>2. \A i \in 1 .. OpsOf[b] : first + i - 1 \in mine /\ (first + i - 1) - first + 1 = i
        BY <1>3, <1>6
      <4>3. \A i \in 1 .. OpsOf[b] : first + i - 1 \in DOMAIN records'
                                     /\ records'[first + i - 1] = RecordOf(b, i)
        BY <1>5, <4>2
      <4> QED BY <3>2, <4>1, <4>3
    <3> QED BY <1>2, <3>1, <3>2
  <2>2. \A s \in DOMAIN records' : records'[s].batch \in stored'
    BY <1>1, <1>2, <1>5, <1>7 DEF RecordsMatchData
  <2>3. ASSUME NEW s \in DOMAIN records', NEW t \in DOMAIN records', records'[s] = records'[t]
        PROVE  s = t
    <3>1. \A u \in DOMAIN records : records[u].batch # b
      BY <1>1, <1>5 DEF RecordsMatchData
    <3>2. CASE s \in DOMAIN records /\ t \in DOMAIN records
      BY <1>1, <1>5, <2>3, <3>2 DEF RecordsMatchData
    <3>3. CASE s \in mine /\ t \in mine
      BY <1>3, <1>5, <1>7, <2>3, <3>3
    <3>4. CASE s \in mine /\ t \in DOMAIN records
      BY <1>5, <1>7, <2>3, <3>1, <3>4
    <3>5. CASE s \in DOMAIN records /\ t \in mine
      BY <1>5, <1>7, <2>3, <3>1, <3>5
    <3> QED BY <1>5, <3>2, <3>3, <3>4, <3>5
  <2> QED BY <2>1, <2>2, <2>3 DEF RecordsMatchData, RecordOf
<1>17. NumbersFollowCalls'
  <2> SUFFICES ASSUME NEW s \in DOMAIN records', NEW t \in DOMAIN records',
                      records'[s].batch \in before[records'[t].batch]
               PROVE  s < t
    BY <1>2 DEF NumbersFollowCalls
  <2>1. \A u \in DOMAIN records' : u \in Nat /\ records'[u].batch \in Commits
    BY <1>9 DEF RlTypeOK, Record
  <2>2. s \in DOMAIN records
    BY <1>5, <1>7, <1>8, <2>1
  <2>3. CASE t \in DOMAIN records
    BY <1>1, <1>5, <2>2, <2>3 DEF NumbersFollowCalls
  <2>4. CASE t \in mine
    <3>1. s < first
      BY <1>5, <1>7, <2>2, <2>4
    <3> QED BY <1>3, <1>5, <2>1, <2>4, <3>1
  <2> QED BY <1>5, <2>3, <2>4
<1> QED BY <1>9, <1>10, <1>11, <1>12, <1>13, <1>14, <1>15, <1>16, <1>17 DEF RlInv, CallsInv
-----------------------------------------------------------------------------
(* The theorems.                                                           *)

\* A log that nothing was written to satisfies the invariant.
LEMMA RlInitInv ==
    ASSUME RlInit
    PROVE  RlInv
<1>1. RlTypeOK
  <2>1. [position |-> 1, limit |-> 0, seen |-> {}, unwritten |-> {}] \in Consumer
    BY DEF Consumer
  <2> QED BY <2>1 DEF RlInit, RlTypeOK, Statuses
<1>2. NumbersInv
  BY DEF RlInit, NumbersInv
<1>3. CallsInv
  BY DEF RlInit, CallsInv, CommittingOK, CallsOK, Unnumbered
<1>4. HistoryInv
  BY DEF RlInit, HistoryInv
<1>5. PassedOK(consumer)
  BY DEF RlInit, PassedOK
<1>6. RecordsMatchData /\ NumbersFollowCalls
  BY DEF RlInit, RecordsMatchData, NumbersFollowCalls
<1> QED BY <1>1, <1>2, <1>3, <1>4, <1>5, <1>6 DEF RlInv

\* Every step keeps the invariant.
LEMMA RlNextInv ==
    ASSUME RlInv, [RlNext]_rlVars
    PROVE  RlInv'
<1>1. ASSUME NEW b \in Commits, BatchCalled(b) PROVE RlInv'
  BY <1>1, BatchCalledInv
<1>2. ASSUME NEW limit \in Limits, ReadCalled(limit) PROVE RlInv'
  BY <1>2, ReadCalledInv
<1>3. CASE LookupEnds
  BY <1>3, LookupEndsInv
<1>4. CASE LookupFails
  BY <1>4, LookupFailsInv
<1>5. CASE ImmediateFires
  BY <1>5, ImmediateFiresInv
<1>6. ASSUME NEW c \in committing, BatchApplied(c) PROVE RlInv'
  BY <1>6, BatchAppliedInv
<1>7. ASSUME NEW c \in committing, BatchAnswered(c) PROVE RlInv'
  BY <1>7, BatchAnsweredInv
<1>8. CASE Restart
  <2>1. ServerStops
    BY <1>8 DEF Restart
  <2> QED BY <2>1, ServerStopsInv
<1>9. CASE UNCHANGED rlVars
  <2>1. /\ KeepsLog
        /\ nextSeq' = nextSeq /\ waiters' = waiters /\ immediates' = immediates
        /\ committing' = committing /\ consumer' = consumer
    BY <1>9 DEF rlVars, KeepsLog
  <2>2. RlTypeOK /\ NumbersInv /\ CallsInv /\ PassedOK(consumer)
    BY DEF RlInv
  <2>3. RlTypeOK' /\ NumbersInv'
    BY <2>1, <2>2 DEF RlTypeOK, NumbersInv, KeepsLog
  <2>4. /\ CommittingOK(committing', nextSeq')
        /\ CallsOK(waiters') /\ CallsOK(immediates') /\ PassedOK(consumer')
        /\ Unnumbered(waiters, committing)' /\ Unnumbered(immediates, committing)'
    BY <2>1, <2>2 DEF CallsInv, Unnumbered
  <2> QED BY <2>1, <2>3, <2>4, LogKept DEF RlInv, CallsInv
<1> QED BY <1>1, <1>2, <1>3, <1>4, <1>5, <1>6, <1>7, <1>8, <1>9 DEF RlNext

\* The inductive invariant of the record log: the calls of _findNextSeq() that wait are of batches
\* without numbers, those of the database have numbers apart from each other's and from the log's,
\* and what is said of the log below holds.
THEOREM RlInvariant == RlSpec => []RlInv
<1>1. RlInit => RlInv
  BY RlInitInv
<1>2. RlInv /\ [RlNext]_rlVars => RlInv'
  BY RlNextInv
<1> QED BY <1>1, <1>2, PTL DEF RlSpec

\* For any batches of any number of operations: whatever runs at the same time, fails or is
\* restarted, an operation of RecordLog.js is in the database if and only if it has one record,
\* next to those of its batch, what is called after the success of another has the larger numbers,
\* and a reader passes no record that it is not given but those that were not written yet.
THEOREM RecordLogStaysFaithful == RlSpec => []RecordLogIsFaithful
<1>1. RlInv => RecordLogIsFaithful
  <2> SUFFICES ASSUME RlInv PROVE RecordLogIsFaithful
    OBVIOUS
  <2>1. /\ RecordsMatchData /\ NumbersFollowCalls /\ PassedOK(consumer)
        /\ consumer.position \in Nat /\ \A s \in DOMAIN records : s \in Nat \ {0}
    BY DEF RlInv, RlTypeOK, Consumer
  <2>2. ConsumerMissesOnlyUnwritten
    <3> SUFFICES ASSUME NEW s \in DOMAIN records, s < consumer.position
                 PROVE  records[s] \in consumer.seen \/ s \in consumer.unwritten
      BY DEF ConsumerMissesOnlyUnwritten
    <3>1. s \in 1 .. consumer.position - 1
      BY <2>1
    <3> QED BY <2>1, <3>1 DEF PassedOK
  <2> QED BY <2>1, <2>2 DEF RecordLogIsFaithful
<1> QED BY <1>1, RlInvariant, PTL
=============================================================================
