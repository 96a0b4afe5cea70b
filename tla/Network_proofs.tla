---------------------------- MODULE Network_proofs -----------------------------
(***************************************************************************)
(* Proofs about the streams of an RPC, for any number of items, any limits *)
(* and any number of timeouts, failures and disconnections, and about the  *)
(* KMIP client, for any calls, any depth of the pipeline, any number of    *)
(* sockets, failures and ends. A turn t is the state of the transport, as  *)
(* in KmipClient; the lemmas say what the functions of one turn do to the  *)
(* queues, the ticks and the results.                                      *)
(***************************************************************************)
EXTENDS RpcStreams, KmipClient, FiniteSetTheorems, SequenceTheorems, NaturalsInduction,
        WellFoundedInduction, TLAPS

-----------------------------------------------------------------------------
(* The streams of an RPC.                                                  *)

RpSafety == RpInit /\ [][RpNext]_rpVars

Packets == [type : {"data"}, items : Seq(1 .. Items), id : Nat]
Messages == Packets \cup [type : {"answer", "end", "error"}]
Requests == [type : {"ack"}, id : Nat] \cup [type : {"call", "hangup"}]
Outputs == [buffer : Seq(1 .. Items), writing : BOOLEAN, ended : BOOLEAN, finished : BOOLEAN,
            packets : Nat, unacked : SUBSET Nat, pending : Nat, wire : Seq(Messages)]
Inputs == [buffer : Seq(1 .. Eof), readable : BOOLEAN, destroyed : BOOLEAN,
           got : Seq(1 .. Items), over : {"no", "error", "end"}]
Sources == [state : {"none", "open", "ended", "failed", "destroyed"}, next : 1 .. Eof]

StreamTypeOK ==
    /\ call \in {"sent", "done", "timedOut"}
    /\ source \in Sources /\ out \in Outputs /\ input \in Inputs
    /\ toServer \in Seq(Requests)
    /\ local \in BOOLEAN /\ remote \in BOOLEAN /\ connected \in BOOLEAN

(* The items on the wire. A message carries the stream from the item a to the item b, which
   it does not hold; the end is the item Items + 1. *)
Carries(m, a, b) ==
    /\ m.type = "data" =>
        /\ b = a + Len(m.items) /\ b <= Eof
        /\ \A i \in 1 .. Len(m.items) : m.items[i] = a + i - 1
    /\ m.type = "end" => a = Eof /\ b = Eof + 1
    /\ m.type \notin {"data", "end"} => b = a

Chain(wire, a, b) ==
    \E c \in [1 .. Len(wire) + 1 -> 1 .. Eof + 1] :
        /\ c[1] = a /\ c[Len(wire) + 1] = b
        /\ \A i \in 1 .. Len(wire) : Carries(wire[i], c[i], c[i + 1])

Has(messages, type) == \E i \in 1 .. Len(messages) : messages[i].type = type

(* The output, whose source has its item next still to write. *)
OutputOK(o, next, ended) ==
    /\ IsFiniteSet(o.unacked) /\ o.pending = Cardinality(o.unacked)
    /\ o.pending <= MaxPendingAck /\ (o.writing <=> o.pending = MaxPendingAck)
    /\ Len(o.buffer) < next
    /\ \A i \in 1 .. Len(o.buffer) : o.buffer[i] = next - Len(o.buffer) - 1 + i
    /\ o.buffer # <<>> => o.writing
    /\ o.ended = ended /\ (o.finished <=> o.ended /\ ~o.writing)
    /\ o.ended => next = Eof
    /\ \A i \in o.unacked : i <= o.packets
    /\ ~connected => o.wire = <<>>

ToSend(o, next) == IF o.finished THEN Eof + 1 ELSE next - Len(o.buffer)

(* The input: what the consumer got and what is queued are the items from 1 on. *)
Queue(in) == Len(in.got) + Len(in.buffer)

ItemsInOrder(in) ==
    /\ \A i \in 1 .. Len(in.got) : in.got[i] = i
    /\ \A i \in 1 .. Len(in.buffer) : in.buffer[i] = Len(in.got) + i
    /\ Len(in.got) <= Items /\ Queue(in) <= Eof

InputOK ==
    /\ ItemsInOrder(input)
    /\ input.over = "end" => Len(input.got) = Items /\ input.buffer = <<>>
    /\ input.over = "end" \/ Queue(input) = Eof => source.state = "ended" /\ ~remote

Untouched == input.got = <<>> /\ input.buffer = <<>> /\ input.over = "no" /\ ~input.destroyed

(* The call and its answer are on their way before anything of the stream. *)
CallOnItsWay == Has(toServer, "call")
AnswerOnItsWay == Has(out.wire, "answer")
Expecting == remote \/ CallOnItsWay \/ AnswerOnItsWay

InOrder ==
    /\ CallOnItsWay =>
        /\ Len(toServer) = 1 /\ out.wire = <<>> /\ Untouched /\ ~remote /\ ~local /\ call # "done"
        /\ source.state = "none" /\ source.next = 1 /\ out.buffer = <<>> /\ out.unacked = {}
    /\ \A i \in 1 .. Len(out.wire) : out.wire[i].type = "answer" => i = 1
    /\ AnswerOnItsWay => Untouched /\ ~remote /\ call # "done"
    /\ connected /\ Expecting =>
        Chain(out.wire, Queue(input) + 1, ToSend(out, source.next))
    /\ ~connected => toServer = <<>>
    /\ Has(out.wire, "end") => source.state = "ended"

(* What a stream that is still registered waits for. *)
Registered ==
    /\ local => source.state = "open"
    /\ remote => outcome = "stream" /\ ~input.destroyed
    /\ remote \/ (AnswerOnItsWay /\ outcome = "stream") => source.state # "none"
    /\ connected /\ Expecting /\ out.finished => Has(out.wire, "end")
    /\ Has(toServer, "hangup") => input.destroyed
    /\ connected /\ source.state = "destroyed" /\ Expecting =>
        Has(out.wire, "error") \/ input.over # "no"

StreamInv ==
    /\ StreamTypeOK
    /\ OutputOK(out, source.next, source.state = "ended")
    /\ InputOK
    /\ InOrder
    /\ Registered

-----------------------------------------------------------------------------
\* An empty wire carries nothing.
LEMMA ChainEmpty ==
  ASSUME NEW a \in 1 .. Eof + 1
  PROVE  Chain(<<>>, a, a)
<1> DEFINE c == [i \in 1 .. 1 |-> a]
<1>1. Len(<<>>) = 0 /\ Len(<<>>) + 1 = 1 /\ 1 .. 0 = {}
  OBVIOUS
<1>2. c \in [1 .. 1 -> 1 .. Eof + 1] /\ c[1] = a
  OBVIOUS
<1> QED BY <1>1, <1>2, Zenon DEF Chain

\* A message sent goes on where the wire ends.
LEMMA ChainAppend ==
  ASSUME NEW wire \in Seq(Messages), NEW m \in Messages, NEW a, NEW b, NEW d \in 1 .. Eof + 1,
         Chain(wire, a, b), Carries(m, b, d)
  PROVE  Chain(Append(wire, m), a, d)
<1> DEFINE n == Len(wire)
           longer == Append(wire, m)
<1>1. PICK c \in [1 .. n + 1 -> 1 .. Eof + 1] :
        c[1] = a /\ c[n + 1] = b /\ \A i \in 1 .. n : Carries(wire[i], c[i], c[i + 1])
  BY DEF Chain
<1> DEFINE e == [i \in 1 .. n + 2 |-> IF i = n + 2 THEN d ELSE c[i]]
<1>2. n \in Nat /\ Len(longer) = n + 1
  OBVIOUS
<1>3. e \in [1 .. Len(longer) + 1 -> 1 .. Eof + 1] /\ e[1] = a /\ e[Len(longer) + 1] = d
  BY <1>1, <1>2
<1>4. ASSUME NEW i \in 1 .. Len(longer) PROVE Carries(longer[i], e[i], e[i + 1])
  <2>1. CASE i = n + 1
    <3>1. longer[i] = m /\ e[i] = b /\ e[i + 1] = d
      BY <1>1, <1>2, <2>1
    <3> QED BY <3>1
  <2>2. CASE i # n + 1
    <3>1. i \in 1 .. n /\ longer[i] = wire[i] /\ e[i] = c[i] /\ e[i + 1] = c[i + 1]
      BY <1>1, <1>2, <2>2
    <3> QED BY <1>1, <3>1
  <2> QED BY <2>1, <2>2
<1> QED BY <1>3, <1>4 DEF Chain

\* A message received is the first, and the rest goes on behind it.
LEMMA ChainTail ==
  ASSUME NEW wire \in Seq(Messages), wire # <<>>, NEW a, NEW b, Chain(wire, a, b)
  PROVE  \E d \in 1 .. Eof + 1 : Carries(Head(wire), a, d) /\ Chain(Tail(wire), d, b)
<1> DEFINE n == Len(wire)
           rest == Tail(wire)
<1>1. PICK c \in [1 .. n + 1 -> 1 .. Eof + 1] :
        c[1] = a /\ c[n + 1] = b /\ \A i \in 1 .. n : Carries(wire[i], c[i], c[i + 1])
  BY DEF Chain
<1>2. n \in Nat \ {0} /\ Len(rest) = n - 1
  OBVIOUS
<1> DEFINE e == [i \in 1 .. n |-> c[i + 1]]
<1>3. e \in [1 .. Len(rest) + 1 -> 1 .. Eof + 1] /\ e[1] = c[2] /\ e[Len(rest) + 1] = b
  BY <1>1, <1>2
<1>4. ASSUME NEW i \in 1 .. Len(rest) PROVE Carries(rest[i], e[i], e[i + 1])
  <2>1. rest[i] = wire[i + 1] /\ e[i] = c[i + 1] /\ e[i + 1] = c[i + 2] /\ i + 1 \in 1 .. n
    BY <1>1, <1>2
  <2>2. Carries(wire[i + 1], c[i + 1], c[i + 1 + 1])
    BY <1>1, <2>1
  <2> QED BY <2>1, <2>2
<1>5. Head(wire) = wire[1] /\ Carries(wire[1], c[1], c[2]) /\ c[2] \in 1 .. Eof + 1
  <2>1. 1 \in 1 .. n /\ 2 \in 1 .. n + 1
    BY <1>2
  <2>2. Carries(wire[1], c[1], c[1 + 1])
    BY <1>1, <2>1
  <2> QED BY <1>1, <2>1, <2>2
<1>6. Chain(rest, c[2], b)
  BY <1>3, <1>4 DEF Chain
<1> QED BY <1>1, <1>5, <1>6

\* Nothing is missing on an empty wire.
LEMMA ChainOfNone ==
  ASSUME NEW a, NEW b, Chain(<<>>, a, b)
  PROVE  a = b
  BY DEF Chain

-----------------------------------------------------------------------------
(* The output: from the state o to the state p it sends at most one message, and what is
   sent goes on where the wire ended. *)
OutputStep(o, next, p, then) ==
    /\ \/ p.wire = o.wire /\ (connected => p.finished = o.finished)
       \/ /\ connected
          /\ \E m \in Messages :
                /\ p.wire = Append(o.wire, m) /\ m.type \in {"data", "end"}
                /\ m.type = "data" => p.finished = o.finished
                /\ m.type = "end" => p.ended
    /\ connected => \A a : Chain(o.wire, a, ToSend(o, next)) => Chain(p.wire, a, ToSend(p, then))

\* A write while there is room for another packet is sent at once.
LEMMA SentAtOnce ==
  ASSUME NEW o \in Outputs, NEW next \in 1 .. Items, OutputOK(o, next, FALSE), ~o.writing,
         connected \in BOOLEAN
  PROVE  LET p == Writev(o, <<next>>) IN
         p \in Outputs /\ OutputOK(p, next + 1, FALSE) /\ OutputStep(o, next, p, next + 1)
<1> DEFINE p == Writev(o, <<next>>)
           m == [type |-> "data", items |-> <<next>>, id |-> o.packets + 1]
           wire == IF connected THEN Append(o.wire, m) ELSE o.wire
           full == o.pending + 1 >= MaxPendingAck
           more == o.unacked \cup {o.packets + 1}
           q == [o EXCEPT !.wire = wire, !.packets = @ + 1, !.unacked = more,
                          !.pending = @ + 1, !.writing = full]
<1>1. m \in Messages /\ <<next>> \in Seq(1 .. Items)
  BY DEF Messages, Packets, Outputs
<1>2. q \in Outputs
  <2>1. wire \in Seq(Messages)
    BY <1>1 DEF Outputs
  <2>2. full \in BOOLEAN
    OBVIOUS
  <2>3. more \in SUBSET Nat /\ o.packets + 1 \in Nat /\ o.pending + 1 \in Nat
    BY DEF Outputs
  <2> HIDE DEF wire, full, more
  <2> QED BY <2>1, <2>2, <2>3 DEF Outputs
<1>3. p = q
  <2> DEFINE sent == Emit(o, m)
             done == [sent EXCEPT !.packets = @ + 1, !.unacked = @ \cup {o.packets + 1},
                                  !.pending = @ + 1, !.writing = full]
  <2>1. ~o.ended
    BY DEF OutputOK
  <2>2. p = FinishIfDone(done)
    BY DEF Writev
  <2>3. sent = [o EXCEPT !.wire = wire]
    BY DEF Emit, Outputs
  <2>4. done = q
    <3> HIDE DEF sent, wire, full
    <3> QED BY <2>3 DEF Outputs
  <2>5. ~q.ended
    BY <2>1 DEF Outputs
  <2> HIDE DEF p, q, done
  <2> QED BY <2>2, <2>4, <2>5 DEF FinishIfDone
<1>4. o.buffer = <<>> /\ o.pending < MaxPendingAck /\ MaxPendingAck \in Nat
  BY RpcAssumption DEF OutputOK, Outputs
<1>5. IsFiniteSet(q.unacked) /\ q.pending = Cardinality(q.unacked)
  <2>1. o.packets + 1 \notin o.unacked
    BY DEF OutputOK, Outputs
  <2>2. IsFiniteSet(o.unacked) /\ o.pending = Cardinality(o.unacked)
    BY DEF OutputOK
  <2>3. q.unacked = o.unacked \cup {o.packets + 1} /\ q.pending = o.pending + 1
    BY DEF Outputs
  <2>4. /\ IsFiniteSet(o.unacked \cup {o.packets + 1})
        /\ Cardinality(o.unacked \cup {o.packets + 1}) = Cardinality(o.unacked) + 1
    BY <2>1, <2>2, FS_AddElement
  <2> QED BY <2>2, <2>3, <2>4
<1>6. OutputOK(q, next + 1, FALSE)
  <2>1. \A i \in q.unacked : i <= q.packets
    BY DEF OutputOK, Outputs
  <2>2. q.pending <= MaxPendingAck /\ (q.writing <=> q.pending = MaxPendingAck)
    <3>1. o.pending \in Nat /\ full \in BOOLEAN /\ (full <=> o.pending + 1 >= MaxPendingAck)
      BY DEF Outputs
    <3> HIDE DEF full
    <3>2. q.pending = o.pending + 1 /\ q.writing = full
      BY <3>1 DEF Outputs
    <3> QED BY <1>4, <3>1, <3>2
  <2>3. q.buffer = <<>> /\ q.ended = FALSE /\ q.finished = FALSE
    BY <1>4 DEF OutputOK, Outputs
  <2>4. ~connected => q.wire = <<>>
    BY DEF OutputOK, Outputs
  <2> QED BY <1>5, <2>1, <2>2, <2>3, <2>4 DEF OutputOK
<1>7. OutputStep(o, next, q, next + 1)
  <2>1. q.finished = o.finished /\ q.wire = wire
    BY DEF Outputs
  <2>2. connected => m.type = "data" /\ q.wire = Append(o.wire, m)
    BY <2>1
  <2>3. ASSUME connected, NEW a, Chain(o.wire, a, ToSend(o, next))
        PROVE  Chain(q.wire, a, ToSend(q, next + 1))
    <3>1. ToSend(o, next) = next /\ ToSend(q, next + 1) = next + 1
      BY <1>4, <2>1 DEF ToSend, OutputOK, Outputs
    <3>2. Carries(m, next, next + 1) /\ next + 1 \in 1 .. Eof + 1
      BY RpcAssumption DEF Carries, Eof
    <3>3. o.wire \in Seq(Messages)
      BY DEF Outputs
    <3> QED BY <1>1, <2>1, <2>3, <3>1, <3>2, <3>3, ChainAppend
  <2> QED BY <1>1, <2>1, <2>2, <2>3 DEF OutputStep
<1> QED BY <1>2, <1>3, <1>6, <1>7

\* The end of the source is sent when all that it wrote is sent.
LEMMA EndedOutput ==
  ASSUME NEW o \in Outputs, NEW next, next = Eof, OutputOK(o, next, FALSE), connected \in BOOLEAN
  PROVE  LET p == FinishIfDone([o EXCEPT !.ended = TRUE]) IN
         p \in Outputs /\ OutputOK(p, next, TRUE) /\ OutputStep(o, next, p, next)
<1> DEFINE p == FinishIfDone([o EXCEPT !.ended = TRUE])
           m == [type |-> "end"]
           wire == IF connected THEN Append(o.wire, m) ELSE o.wire
           q == [o EXCEPT !.ended = TRUE, !.finished = TRUE, !.wire = wire]
<1>1. m \in Messages
  BY DEF Messages
<1>2. CASE o.writing
  <2>1. p = [o EXCEPT !.ended = TRUE]
    BY <1>2 DEF FinishIfDone, Outputs
  <2>2. p \in Outputs
    BY <2>1 DEF Outputs
  <2>3. OutputOK(p, next, TRUE)
    BY <1>2, <2>1 DEF OutputOK, Outputs
  <2>4. p.wire = o.wire /\ p.finished = o.finished /\ p.buffer = o.buffer
    BY <2>1 DEF Outputs
  <2> QED BY <2>2, <2>3, <2>4 DEF OutputStep, ToSend
<1>3. CASE ~o.writing
  <2>1. o.buffer = <<>> /\ ~o.finished
    BY <1>3 DEF OutputOK, Outputs
  <2>2. p = q
    BY <1>3, <2>1 DEF FinishIfDone, Emit, Outputs
  <2>3. q \in Outputs
    <3>1. wire \in Seq(Messages)
      BY <1>1 DEF Outputs
    <3> HIDE DEF wire
    <3> QED BY <3>1 DEF Outputs
  <2>4. OutputOK(q, next, TRUE)
    BY <1>3, <2>1 DEF OutputOK, Outputs
  <2>5. connected => m.type = "end" /\ q.ended /\ q.wire = Append(o.wire, m)
    BY DEF Outputs
  <2>6. ASSUME connected, NEW a, Chain(o.wire, a, ToSend(o, next))
        PROVE  Chain(q.wire, a, ToSend(q, next))
    <3>1. ToSend(o, next) = Eof /\ ToSend(q, next) = Eof + 1
      BY <2>1, RpcAssumption DEF ToSend, OutputOK, Outputs, Eof
    <3>2. Carries(m, Eof, Eof + 1) /\ Eof + 1 \in 1 .. Eof + 1
      BY RpcAssumption DEF Carries, Eof
    <3>3. o.wire \in Seq(Messages)
      BY DEF Outputs
    <3> QED BY <1>1, <2>5, <2>6, <3>1, <3>2, <3>3, ChainAppend
  <2>7. ~connected => q.wire = o.wire
    BY DEF Outputs
  <2>8. OutputStep(o, next, q, next)
    BY <1>1, <2>5, <2>6, <2>7 DEF OutputStep
  <2> QED BY <2>2, <2>3, <2>4, <2>8
<1> QED BY <1>2, <1>3 DEF Outputs

\* The end of the wait for a packet sends what was buffered meanwhile, or the end.
LEMMA PacketDoneOK ==
  ASSUME NEW o \in Outputs, NEW next \in 1 .. Eof, NEW ended \in BOOLEAN, OutputOK(o, next, ended),
         NEW id \in o.unacked, connected \in BOOLEAN
  PROVE  LET p == PacketDone(o, id) IN
         p \in Outputs /\ OutputOK(p, next, ended) /\ OutputStep(o, next, p, next)
<1> DEFINE p == PacketDone(o, id)
<1>1. MaxPendingAck \in Nat \ {0}
  BY RpcAssumption
<1>2. /\ IsFiniteSet(o.unacked \ {id}) /\ o.pending - 1 = Cardinality(o.unacked \ {id})
      /\ o.pending - 1 \in Nat /\ o.pending \in Nat
  <2>1. IsFiniteSet(o.unacked) /\ o.pending = Cardinality(o.unacked) /\ o.pending \in Nat
    BY DEF OutputOK, Outputs
  <2>2. Cardinality(o.unacked \ {id}) = o.pending - 1 /\ IsFiniteSet(o.unacked \ {id})
    BY <2>1, FS_RemoveElement
  <2> QED BY <2>1, <2>2, FS_CardinalityType
<1>3. CASE ~o.writing
  <2>1. p = [o EXCEPT !.pending = @ - 1, !.unacked = @ \ {id}]
    BY <1>3 DEF PacketDone, OutputOK
  <2>2. p \in Outputs
    BY <1>2, <2>1 DEF Outputs
  <2>3. OutputOK(p, next, ended)
    BY <1>1, <1>2, <1>3, <2>1 DEF OutputOK, Outputs
  <2>4. p.wire = o.wire /\ p.finished = o.finished /\ p.buffer = o.buffer
    BY <2>1 DEF Outputs
  <2> QED BY <2>2, <2>3, <2>4 DEF OutputStep, ToSend
<1>4. CASE o.writing /\ o.buffer = <<>>
  <2> DEFINE m == [type |-> "end"]
             wire == IF o.ended /\ connected THEN Append(o.wire, m) ELSE o.wire
             q == [o EXCEPT !.writing = FALSE, !.finished = o.ended, !.wire = wire,
                            !.pending = @ - 1, !.unacked = @ \ {id}]
  <2>1. m \in Messages
    BY DEF Messages
  <2>2. p = q
    BY <1>4 DEF PacketDone, WriteDone, FinishIfDone, Emit, OutputOK, Outputs
  <2>3. q \in Outputs
    <3>1. wire \in Seq(Messages)
      BY <2>1 DEF Outputs
    <3> HIDE DEF wire
    <3> QED BY <1>2, <3>1 DEF Outputs
  <2>4. OutputOK(q, next, ended)
    BY <1>1, <1>2, <1>4 DEF OutputOK, Outputs
  <2>5. q.wire = wire /\ q.ended = o.ended /\ q.finished = o.ended /\ q.buffer = <<>> /\ ~o.finished
    BY <1>4 DEF OutputOK, Outputs
  <2>6. ASSUME connected, NEW a, Chain(o.wire, a, ToSend(o, next))
        PROVE  Chain(q.wire, a, ToSend(q, next))
    <3>1. CASE ~o.ended
      BY <1>4, <2>5, <2>6, <3>1 DEF ToSend
    <3>2. CASE o.ended
      <4>1. ToSend(o, next) = Eof /\ ToSend(q, next) = Eof + 1 /\ q.wire = Append(o.wire, m)
        BY <1>4, <2>5, <2>6, <3>2, RpcAssumption DEF ToSend, OutputOK, Eof
      <4>2. Carries(m, Eof, Eof + 1) /\ Eof + 1 \in 1 .. Eof + 1
        BY RpcAssumption DEF Carries, Eof
      <4>3. o.wire \in Seq(Messages)
        BY DEF Outputs
      <4> QED BY <2>1, <2>6, <4>1, <4>2, <4>3, ChainAppend
    <3> QED BY <3>1, <3>2 DEF Outputs
  <2>7. CASE o.ended /\ connected
    <3>1. q.wire = Append(o.wire, m) /\ m.type = "end" /\ q.ended
      BY <2>5, <2>7
    <3> QED BY <2>1, <2>2, <2>3, <2>4, <2>6, <2>7, <3>1 DEF OutputStep
  <2>8. CASE ~(o.ended /\ connected)
    <3>1. q.wire = o.wire /\ (connected => q.finished = o.finished)
      BY <2>5, <2>8 DEF Outputs
    <3> QED BY <2>2, <2>3, <2>4, <2>6, <3>1 DEF OutputStep
  <2> QED BY <2>7, <2>8
<1>5. CASE o.writing /\ o.buffer # <<>>
  <2> DEFINE m == [type |-> "data", items |-> o.buffer, id |-> o.packets + 1]
             wire == IF connected THEN Append(o.wire, m) ELSE o.wire
             more == (o.unacked \cup {o.packets + 1}) \ {id}
             q == [o EXCEPT !.buffer = <<>>, !.wire = wire, !.packets = @ + 1, !.unacked = more]
  <2>1. m \in Messages
    BY DEF Messages, Packets, Outputs
  <2>2. o.pending = MaxPendingAck /\ ~o.finished
    BY <1>5 DEF OutputOK
  <2>3. p = q
    <3> DEFINE e == Emit([o EXCEPT !.buffer = <<>>], m)
               w == [e EXCEPT !.packets = @ + 1, !.unacked = @ \cup {o.packets + 1},
                              !.pending = @ + 1, !.writing = TRUE]
    <3>1. e = [o EXCEPT !.buffer = <<>>, !.wire = wire]
      BY DEF Emit, Outputs
    <3>2. w = [o EXCEPT !.buffer = <<>>, !.wire = wire, !.packets = @ + 1,
                        !.unacked = @ \cup {o.packets + 1}, !.pending = @ + 1, !.writing = TRUE]
      <4> HIDE DEF wire, e
      <4> QED BY <3>1 DEF Outputs
    <3>3. WriteDone(o) = w
      <4>1. o.pending + 1 >= MaxPendingAck
        BY <1>1, <2>2
      <4>2. (o.pending + 1 >= MaxPendingAck) = TRUE
        BY <4>1
      <4>3. WriteDone(o) = Writev([o EXCEPT !.buffer = <<>>], o.buffer)
        BY <1>5 DEF WriteDone
      <4>4. /\ [o EXCEPT !.buffer = <<>>].packets = o.packets
            /\ [o EXCEPT !.buffer = <<>>].pending = o.pending
        BY DEF Outputs
      <4>5. WriteDone(o) = FinishIfDone(w)
        BY <4>2, <4>3, <4>4, Zenon DEF Writev
      <4>6. w.writing
        <5> HIDE DEF wire, w
        <5> QED BY <3>2 DEF Outputs
      <4> HIDE DEF w
      <4> QED BY <4>5, <4>6 DEF FinishIfDone
    <3>4. p = [w EXCEPT !.pending = @ - 1, !.unacked = @ \ {id}]
      <4> HIDE DEF w
      <4> QED BY <2>2, <3>3 DEF PacketDone
    <3> DEFINE added == o.unacked \cup {o.packets + 1}
    <3>5. w = [o EXCEPT !.buffer = <<>>, !.wire = wire, !.packets = @ + 1,
                        !.unacked = added, !.pending = @ + 1, !.writing = TRUE]
      BY <3>2, Zenon
    <3>6. p = [o EXCEPT !.buffer = <<>>, !.wire = wire, !.packets = @ + 1,
                        !.unacked = added \ {id}, !.pending = (@ + 1) - 1, !.writing = TRUE]
      <4> HIDE DEF w, wire, added, p
      <4> QED BY <3>4, <3>5 DEF Outputs
    <3>7. (o.pending + 1) - 1 = o.pending /\ o.writing = TRUE
      BY <1>2, <1>5 DEF Outputs
    <3> HIDE DEF w, wire, added, p
    <3>8. q = [o EXCEPT !.buffer = <<>>, !.wire = wire, !.packets = @ + 1, !.unacked = added \ {id}]
      BY Zenon DEF added
    <3> HIDE DEF q
    <3> QED BY <3>6, <3>7, <3>8 DEF Outputs
  <2>4. q \in Outputs
    <3>1. wire \in Seq(Messages) /\ <<>> \in Seq(1 .. Items)
      BY <2>1 DEF Outputs
    <3>2. more \in SUBSET Nat /\ o.packets + 1 \in Nat
      BY DEF Outputs
    <3> HIDE DEF wire, more
    <3>3. q \in [buffer : Seq(1 .. Items), writing : BOOLEAN, ended : BOOLEAN, finished : BOOLEAN,
                 packets : Nat, unacked : SUBSET Nat, pending : Nat, wire : Seq(Messages)]
      BY <3>1, <3>2 DEF Outputs
    <3> QED BY <3>3 DEF Outputs
  <2>5. IsFiniteSet(more) /\ Cardinality(more) = o.pending
    <3>1. o.packets + 1 \notin o.unacked \ {id} /\ more = (o.unacked \ {id}) \cup {o.packets + 1}
      BY DEF OutputOK, Outputs
    <3> DEFINE rest == o.unacked \ {id}
    <3>2. Cardinality(rest \cup {o.packets + 1}) = Cardinality(rest) + 1 /\ IsFiniteSet(rest \cup {o.packets + 1})
      <4> HIDE DEF rest
      <4> QED BY <1>2, <3>1, FS_AddElement DEF rest
    <3> QED BY <1>2, <3>1, <3>2
  <2>6. /\ q.pending = o.pending /\ q.unacked = more /\ q.writing /\ q.buffer = <<>>
        /\ q.ended = o.ended /\ q.finished = o.finished /\ q.wire = wire /\ q.packets = o.packets + 1
    BY <1>5 DEF Outputs
  <2>7. OutputOK(q, next, ended)
    <3>1. \A i \in q.unacked : i <= q.packets
      BY <2>6 DEF OutputOK, Outputs
    <3>2. Len(q.buffer) < next
      BY <2>6
    <3> QED BY <1>5, <2>2, <2>5, <2>6, <3>1, <3>2 DEF OutputOK
  <2>8. ASSUME connected, NEW a, Chain(o.wire, a, ToSend(o, next))
        PROVE  Chain(q.wire, a, ToSend(q, next))
    <3>1. /\ ToSend(o, next) = next - Len(o.buffer) /\ ToSend(q, next) = next
          /\ q.wire = Append(o.wire, m)
      BY <2>2, <2>6, <2>8 DEF ToSend
    <3>2. Len(o.buffer) \in Nat /\ Eof \in Nat
      BY RpcAssumption DEF Outputs, Eof
    <3>3. Carries(m, next - Len(o.buffer), next)
      <4>1. \A i \in 1 .. Len(o.buffer) : o.buffer[i] = next - Len(o.buffer) + i - 1
        <5> DEFINE n == Len(o.buffer)
        <5>1. \A i \in 1 .. n : o.buffer[i] = next - n - 1 + i
          BY DEF OutputOK
        <5>2. n \in Nat /\ next \in Int
          BY <3>2
        <5> HIDE DEF n
        <5>3. \A i \in 1 .. n : next - n - 1 + i = next - n + i - 1
          BY <5>2
        <5>4. \A i \in 1 .. n : o.buffer[i] = next - n + i - 1
          BY <5>1, <5>3, Zenon
        <5> QED BY <5>4 DEF n
      <4>2. m.type = "data" /\ m.items = o.buffer
        OBVIOUS
      <4>3. next <= Eof /\ next = next - Len(o.buffer) + Len(o.buffer)
        BY <3>2
      <4> HIDE DEF m
      <4> QED BY <4>1, <4>2, <4>3 DEF Carries
    <3>4. o.wire \in Seq(Messages) /\ next \in 1 .. Eof + 1
      BY <3>2 DEF Outputs
    <3> QED BY <2>1, <2>8, <3>1, <3>3, <3>4, ChainAppend
  <2>9. CASE connected
    <3>1. q.wire = Append(o.wire, m) /\ m.type = "data"
      BY <2>6, <2>9
    <3> QED BY <2>1, <2>3, <2>4, <2>6, <2>7, <2>8, <2>9, <3>1 DEF OutputStep
  <2>10. CASE ~connected
    <3>1. q.wire = o.wire
      BY <2>6, <2>10
    <3> QED BY <2>3, <2>4, <2>7, <2>10, <3>1 DEF OutputStep
  <2> QED BY <2>9, <2>10
<1> QED BY <1>3, <1>4, <1>5

-----------------------------------------------------------------------------
(* What the types on the wire become when messages are sent and received. *)

\* What a list of messages has with one more.
LEMMA HasAppend ==
  ASSUME NEW S, NEW messages \in Seq(S), NEW m \in S, NEW type
  PROVE  Has(Append(messages, m), type) <=> Has(messages, type) \/ m.type = type
<1> DEFINE n == Len(messages)
           longer == Append(messages, m)
<1>1. n \in Nat /\ Len(longer) = n + 1 /\ longer[n + 1] = m /\ n + 1 \in 1 .. n + 1
  OBVIOUS
<1>2. \A i \in 1 .. n : longer[i] = messages[i] /\ i \in 1 .. n + 1
  OBVIOUS
<1>3. \A i \in 1 .. n + 1 : i = n + 1 \/ i \in 1 .. n
  BY <1>1
<1> QED BY <1>1, <1>2, <1>3, Zenon DEF Has

\* What a list of messages has with its first one, and without.
LEMMA HasTail ==
  ASSUME NEW S, NEW messages \in Seq(S), messages # <<>>, NEW type
  PROVE  Has(messages, type) <=> Head(messages).type = type \/ Has(Tail(messages), type)
<1> DEFINE n == Len(messages)
           rest == Tail(messages)
<1>1. n \in Nat \ {0} /\ Len(rest) = n - 1 /\ Head(messages) = messages[1] /\ 1 \in 1 .. n
  OBVIOUS
<1>2. \A i \in 1 .. n - 1 : rest[i] = messages[i + 1] /\ i + 1 \in 1 .. n
  OBVIOUS
<1>3. ASSUME NEW i \in 1 .. n, messages[i].type = type, i # 1
      PROVE  \E j \in 1 .. n - 1 : rest[j].type = type
  <2>1. i - 1 \in 1 .. n - 1 /\ (i - 1) + 1 = i
    BY <1>1, <1>3
  <2>2. rest[i - 1] = messages[i]
    BY <1>2, <2>1
  <2> QED BY <1>3, <2>1, <2>2
<1> HIDE DEF rest
<1>4. Has(messages, type) => Head(messages).type = type \/ Has(rest, type)
  BY <1>1, <1>3, Zenon DEF Has
<1>5. Head(messages).type = type \/ Has(rest, type) => Has(messages, type)
  BY <1>1, <1>2, Zenon DEF Has
<1> QED BY <1>4, <1>5 DEF rest

\* No message is in an empty list.
LEMMA HasNone == ASSUME NEW type PROVE ~Has(<<>>, type)
  BY DEF Has

(* The output p comes after the output o, which has sent nothing but items, the end or errors
   meanwhile. *)
Follows(o, next, p, then) ==
    /\ \A i \in 1 .. Len(p.wire) : p.wire[i].type = "answer" => i \in 1 .. Len(o.wire) /\ o.wire[i].type = "answer"
    /\ \A type : Has(o.wire, type) => Has(p.wire, type)
    /\ Has(p.wire, "end") => Has(o.wire, "end") \/ p.ended
    /\ connected /\ p.finished => o.finished \/ Has(p.wire, "end")
    /\ connected => \A a : Chain(o.wire, a, ToSend(o, next)) => Chain(p.wire, a, ToSend(p, then))

\* What a step of the output sends comes after what it had sent.
LEMMA StepFollows ==
  ASSUME NEW o \in Outputs, NEW p \in Outputs, NEW next, NEW then, OutputStep(o, next, p, then)
  PROVE  Follows(o, next, p, then)
<1>1. connected => \A a : Chain(o.wire, a, ToSend(o, next)) => Chain(p.wire, a, ToSend(p, then))
  BY DEF OutputStep
<1>2. CASE p.wire = o.wire /\ (connected => p.finished = o.finished)
  BY <1>1, <1>2, Zenon DEF Follows
<1>3. ASSUME connected, NEW m \in Messages, p.wire = Append(o.wire, m), m.type \in {"data", "end"},
             m.type = "data" => p.finished = o.finished, m.type = "end" => p.ended
      PROVE  Follows(o, next, p, then)
  <2>1. o.wire \in Seq(Messages) /\ m.type # "answer"
    BY <1>3 DEF Outputs
  <2>2. \A type : Has(p.wire, type) <=> Has(o.wire, type) \/ m.type = type
    BY <1>3, <2>1, HasAppend
  <2>3. \A i \in 1 .. Len(p.wire) : p.wire[i].type = "answer" => i \in 1 .. Len(o.wire) /\ o.wire[i].type = "answer"
    BY <1>3, <2>1
  <2> QED BY <1>1, <1>3, <2>2, <2>3 DEF Follows
<1> QED BY <1>2, <1>3 DEF OutputStep

\* An error that is emitted carries nothing of the stream.
LEMMA ErrorFollows ==
  ASSUME NEW o \in Outputs, NEW p \in Outputs, NEW next \in 1 .. Eof, NEW ended, connected \in BOOLEAN,
         Follows(o, next, p, next), OutputOK(p, next, ended)
  PROVE  LET q == Emit(p, [type |-> "error"]) IN
         /\ q \in Outputs /\ OutputOK(q, next, ended) /\ Follows(o, next, q, next)
         /\ connected => Has(q.wire, "error")
<1> DEFINE m == [type |-> "error"]
           q == [p EXCEPT !.wire = Append(p.wire, m)]
<1>1. CASE ~connected
  BY <1>1 DEF Emit
<1>2. CASE connected
  <2>1. m \in Messages /\ p.wire \in Seq(Messages) /\ Append(p.wire, m) \in Seq(Messages)
    BY DEF Messages, Outputs
  <2>2. q \in Outputs /\ q = Emit(p, m)
    BY <1>2, <2>1 DEF Outputs, Emit
  <2>3. /\ q.wire = Append(p.wire, m) /\ q.finished = p.finished /\ q.buffer = p.buffer /\ q.ended = p.ended
        /\ q.unacked = p.unacked /\ q.packets = p.packets /\ q.pending = p.pending /\ q.writing = p.writing
    BY DEF Outputs
  <2> HIDE DEF q
  <2>4. OutputOK(q, next, ended)
    BY <1>2, <2>3 DEF OutputOK
  <2>5. \A type : Has(q.wire, type) <=> Has(p.wire, type) \/ m.type = type
    BY <2>1, <2>3, HasAppend
  <2>6. \A i \in 1 .. Len(q.wire) : q.wire[i].type = "answer" => i \in 1 .. Len(p.wire) /\ p.wire[i].type = "answer"
    BY <2>1, <2>3
  <2>7. ASSUME NEW a, Chain(o.wire, a, ToSend(o, next)) PROVE Chain(q.wire, a, ToSend(q, next))
    <3>1. Chain(p.wire, a, ToSend(p, next)) /\ ToSend(q, next) = ToSend(p, next)
      BY <1>2, <2>3, <2>7 DEF Follows, ToSend
    <3>2. ToSend(p, next) \in 1 .. Eof + 1
      BY RpcAssumption DEF ToSend, OutputOK, Outputs, Eof
    <3>3. Carries(m, ToSend(p, next), ToSend(p, next))
      BY DEF Carries
    <3> QED BY <2>1, <2>3, <3>1, <3>2, <3>3, ChainAppend
  <2>8. Follows(o, next, q, next)
    BY <2>3, <2>5, <2>6, <2>7 DEF Follows
  <2> QED BY <2>2, <2>4, <2>5, <2>8
<1> QED BY <1>1, <1>2

-----------------------------------------------------------------------------
(* The input: what push() is given is what was queued, in its order. *)

\* What is pushed is what was queued first, and the rest stays queued (_pushData).
LEMMA PushedOK ==
  ASSUME NEW in \in Inputs, ItemsInOrder(in), NEW n \in 1 .. Len(in.buffer)
  PROVE  LET q == Pushed(in, n) IN
         /\ q \in Inputs /\ ItemsInOrder(q) /\ q.destroyed = in.destroyed /\ q.readable = in.readable
         /\ \/ /\ Queue(q) = Queue(in) /\ q.over = in.over
            \/ /\ Queue(in) = Eof /\ Len(q.got) = Items /\ q.buffer = <<>>
               /\ q.over = IF in.over = "no" THEN "end" ELSE in.over
<1> DEFINE q == Pushed(in, n)
           b == in.buffer
           len == Len(b)
           given == SubSeq(b, 1, n)
           g == Len(in.got)
<1>1. b \in Seq(1 .. Eof) /\ in.got \in Seq(1 .. Items) /\ len \in Nat /\ g \in Nat /\ n \in 1 .. len
  BY DEF Inputs
<1>2. Items \in Nat /\ Eof \in Nat /\ Eof = Items + 1
  BY RpcAssumption DEF Eof
<1>3. /\ \A i \in 1 .. g : in.got[i] = i
      /\ \A i \in 1 .. len : b[i] = g + i
      /\ g <= Items /\ g + len <= Eof
  BY DEF ItemsInOrder, Queue
<1>4. b[n] = Eof <=> n = len /\ g + len = Eof
  <2>1. b[n] = g + n
    BY <1>1, <1>3
  <2> HIDE DEF b, len, g
  <2> QED BY <1>1, <1>2, <1>3, <2>1
<1> DEFINE k == IF b[n] = Eof THEN n - 1 ELSE n
<1>5. ItemsOf(given) = SubSeq(b, 1, k)
  <2>1. Len(given) = n /\ given[n] = b[n]
    BY <1>1
  <2>2. SubSeq(given, 1, n - 1) = SubSeq(b, 1, n - 1)
    <3>1. CASE n = 1
      BY <1>1, <3>1
    <3>2. CASE n # 1
      BY <1>1, <3>2, SubSeqOfSubSeq
    <3> QED BY <3>1, <3>2
  <2> QED BY <2>1, <2>2 DEF ItemsOf, Last, Front
<1>6. k \in 0 .. len /\ g + k <= Items
  <2> HIDE DEF b, len, g
  <2> QED BY <1>1, <1>2, <1>3, <1>4
<1> DEFINE items == SubSeq(b, 1, k)
           rest == SubSeq(b, n + 1, len)
           over == IF b[n] = Eof /\ in.over = "no" THEN "end" ELSE in.over
<1>7. q = [in EXCEPT !.buffer = rest, !.got = in.got \o items, !.over = over]
  BY <1>5 DEF Pushed
<1> HIDE DEF k
<1>8. items \in Seq(1 .. Items) /\ Len(items) = k /\ \A i \in 1 .. k : items[i] = g + i
  <2>1. Len(items) = k /\ \A i \in 1 .. k : items[i] = b[i]
    BY <1>1, <1>6
  <2>2. \A i \in 1 .. k : items[i] = g + i /\ g + i \in 1 .. Items
    <3> SUFFICES ASSUME NEW i \in 1 .. k PROVE items[i] = g + i /\ g + i \in 1 .. Items
      OBVIOUS
    <3>1. k \in Nat /\ k <= len /\ g + k <= Items /\ g \in Nat /\ len \in Nat /\ Items \in Nat
      BY <1>1, <1>2, <1>6
    <3>2. i \in 1 .. len /\ g + i \in 1 .. Items
      <4> HIDE DEF len, g
      <4> QED BY <3>1
    <3>3. items[i] = b[i] /\ b[i] = g + i
      BY <1>3, <2>1, <3>2
    <3> QED BY <3>2, <3>3
  <2>3. \A i \in 1 .. k : b[i] \in 1 .. Items
    BY <2>1, <2>2
  <2>4. items \in Seq(1 .. Items)
    BY <1>6, <2>3, SubSeqProperties
  <2> QED BY <2>1, <2>2, <2>4
<1>9. rest \in Seq(1 .. Eof) /\ Len(rest) = len - n /\ \A i \in 1 .. len - n : rest[i] = g + n + i
  <2>1. \A i \in n + 1 .. len : b[i] \in 1 .. Eof
    <3>1. \A i \in 1 .. len : b[i] \in 1 .. Eof
      BY <1>1, ElementOfSeq
    <3>2. \A i \in n + 1 .. len : i \in 1 .. len
      BY <1>1
    <3> QED BY <3>1, <3>2
  <2>2. /\ rest \in Seq(1 .. Eof) /\ Len(rest) = IF n + 1 <= len THEN len - (n + 1) + 1 ELSE 0
        /\ \A i \in 1 .. len - (n + 1) + 1 : rest[i] = b[(n + 1) + i - 1]
    <3>1. n + 1 \in Int /\ len \in Int
      BY <1>1
    <3> HIDE DEF b, len
    <3> QED BY <2>1, <3>1, SubSeqProperties
  <2> HIDE DEF b, len, g, rest
  <2>3. \A i \in 1 .. len - n : rest[i] = b[n + i] /\ n + i \in 1 .. len
    BY <1>1, <2>2
  <2> QED BY <1>1, <1>3, <2>2, <2>3
<1>10. over \in {"no", "error", "end"}
  BY DEF Inputs
<1> HIDE DEF items, rest, over
<1>11. in.got \o items \in Seq(1 .. Items) /\ Len(in.got \o items) = g + k
       /\ \A i \in 1 .. g + k : (in.got \o items)[i] = i
  <2>1. Len(in.got \o items) = g + k /\ in.got \o items \in Seq(1 .. Items)
    BY <1>1, <1>8, ConcatProperties
  <2>2. \A i \in 1 .. g + k : (in.got \o items)[i] = IF i <= g THEN in.got[i] ELSE items[i - g]
    BY <1>1, <1>8, ConcatProperties
  <2> QED BY <1>1, <1>3, <1>6, <1>8, <2>1, <2>2
<1>12. q \in Inputs
  BY <1>7, <1>9, <1>10, <1>11 DEF Inputs
<1>13. /\ q.buffer = rest /\ q.got = in.got \o items /\ q.over = over
       /\ q.destroyed = in.destroyed /\ q.readable = in.readable
  BY <1>7 DEF Inputs
<1>16. Queue(in) = g + len /\ Queue(q) = Len(q.got) + Len(q.buffer)
  BY DEF Queue
<1> HIDE DEF q, b, g, len
<1>14. CASE b[n] = Eof
  <2>1. n = len /\ g + len = Eof /\ k = n - 1
    BY <1>4, <1>14 DEF k
  <2>2. Len(q.got) = Items /\ q.buffer = <<>> /\ Queue(in) = Eof
    <3>1. Len(q.got) = g + (n - 1) /\ Len(q.buffer) = 0 /\ g + n = Eof
      BY <1>1, <1>9, <1>11, <1>13, <2>1
    <3>2. q.buffer = <<>>
      BY <1>9, <1>13, <3>1
    <3>3. Len(q.got) = Items
      BY <1>1, <1>2, <3>1 DEF Eof
    <3> QED BY <1>16, <2>1, <3>2, <3>3
  <2>3. over = IF in.over = "no" THEN "end" ELSE in.over
    BY <1>14 DEF over
  <2>4. ItemsInOrder(q)
    BY <1>2, <1>11, <1>13, <2>2 DEF ItemsInOrder, Queue
  <2> QED BY <1>12, <1>13, <2>2, <2>3, <2>4 DEF q
<1>15. CASE b[n] # Eof
  <2>1. k = n /\ over = in.over
    BY <1>15 DEF k, over
  <2>2. Len(q.got) = g + n /\ Len(q.buffer) = len - n
    BY <1>9, <1>11, <1>13, <2>1
  <2>4. Queue(q) = Queue(in)
    BY <1>1, <1>16, <2>2
  <2>3. ItemsInOrder(q)
    <3>1. \A i \in 1 .. len - n : q.buffer[i] = Len(q.got) + i
      BY <1>9, <1>13, <2>2
    <3>2. \A i \in 1 .. Len(q.got) : q.got[i] = i
      BY <1>11, <1>13, <2>1, <2>2
    <3>3. Len(q.got) <= Items /\ Queue(q) <= Eof
      BY <1>3, <1>6, <1>16, <2>1, <2>2, <2>4
    <3> QED BY <2>2, <3>1, <3>2, <3>3 DEF ItemsInOrder
  <2> QED BY <1>12, <1>13, <2>1, <2>3, <2>4 DEF q
<1> QED BY <1>14, <1>15

\* Also when the rest waits for the next _read(), or nothing is pushed.
LEMMA PushDataOK ==
  ASSUME NEW in \in Inputs, ItemsInOrder(in), NEW q \in PushData(in)
  PROVE  /\ q \in Inputs /\ ItemsInOrder(q) /\ q.destroyed = in.destroyed
         /\ \/ /\ Queue(q) = Queue(in) /\ q.over = in.over
            \/ /\ Queue(in) = Eof /\ Len(q.got) = Items /\ q.buffer = <<>>
               /\ q.over = IF in.over = "no" THEN "end" ELSE in.over
<1>1. CASE in.destroyed \/ in.buffer = <<>>
  BY <1>1 DEF PushData
<1>2. CASE ~(in.destroyed \/ in.buffer = <<>>)
  <2>1. in.buffer \in Seq(1 .. Eof) /\ Len(in.buffer) \in 1 .. Len(in.buffer)
    BY <1>2 DEF Inputs
  <2>2. PICK n \in 1 .. Len(in.buffer) : q = Pushed(in, n) \/ q = [Pushed(in, n) EXCEPT !.readable = FALSE]
    BY <1>2, <2>1 DEF PushData
  <2> DEFINE p == Pushed(in, n)
  <2>3. /\ p \in Inputs /\ ItemsInOrder(p) /\ p.destroyed = in.destroyed
        /\ \/ /\ Queue(p) = Queue(in) /\ p.over = in.over
           \/ /\ Queue(in) = Eof /\ Len(p.got) = Items /\ p.buffer = <<>>
              /\ p.over = IF in.over = "no" THEN "end" ELSE in.over
    BY <2>2, PushedOK
  <2> HIDE DEF p
  <2>4. q = p \/ q = [p EXCEPT !.readable = FALSE]
    BY <2>2 DEF p
  <2>5. q \in Inputs /\ q.buffer = p.buffer /\ q.got = p.got /\ q.over = p.over /\ q.destroyed = p.destroyed
    BY <2>3, <2>4 DEF Inputs
  <2>6. ItemsInOrder(q) /\ Queue(q) = Queue(p)
    BY <2>3, <2>5 DEF ItemsInOrder, Queue
  <2> QED BY <2>3, <2>5, <2>6
<1> QED BY <1>1, <1>2

\* What is queued goes on where the queue ended.
LEMMA QueuedOK ==
  ASSUME input \in Inputs, ItemsInOrder(input), NEW items \in Seq(1 .. Eof),
         \A i \in 1 .. Len(items) : items[i] = Queue(input) + i,
         Queue(input) + Len(items) <= Eof,
         NEW q \in Queued(items)
  PROVE  /\ q \in Inputs /\ ItemsInOrder(q) /\ q.destroyed = input.destroyed
         /\ \/ /\ Queue(q) = Queue(input) + Len(items) /\ q.over = input.over
            \/ /\ Queue(input) + Len(items) = Eof /\ Len(q.got) = Items /\ q.buffer = <<>>
               /\ q.over = IF input.over = "no" THEN "end" ELSE input.over
<1> DEFINE in == [input EXCEPT !.buffer = @ \o items]
           joined == input.buffer \o items
<1>1. input.buffer \in Seq(1 .. Eof) /\ Len(input.got) \in Nat
  BY DEF Inputs
<1>2. /\ joined \in Seq(1 .. Eof) /\ Len(joined) = Len(input.buffer) + Len(items)
      /\ \A i \in 1 .. Len(input.buffer) + Len(items) :
            joined[i] = IF i <= Len(input.buffer) THEN input.buffer[i] ELSE items[i - Len(input.buffer)]
  BY <1>1, ConcatProperties
<1>3. \A i \in 1 .. Len(joined) : joined[i] = Len(input.got) + i
  <2>1. Queue(input) = Len(input.got) + Len(input.buffer) /\ Len(input.buffer) \in Nat /\ Len(items) \in Nat
    BY <1>1 DEF Queue
  <2>2. \A i \in 1 .. Len(input.buffer) : input.buffer[i] = Len(input.got) + i
    BY DEF ItemsInOrder
  <2>3. \A i \in 1 .. Len(joined) : i > Len(input.buffer) => i - Len(input.buffer) \in 1 .. Len(items)
    BY <1>2, <2>1
  <2> SUFFICES ASSUME NEW i \in 1 .. Len(joined) PROVE joined[i] = Len(input.got) + i
    OBVIOUS
  <2>4. joined[i] = IF i <= Len(input.buffer) THEN input.buffer[i] ELSE items[i - Len(input.buffer)]
    BY <1>2
  <2> HIDE DEF joined
  <2>5. CASE i <= Len(input.buffer)
    <3>1. i \in 1 .. Len(input.buffer)
      BY <1>2, <2>1, <2>5
    <3> QED BY <2>2, <2>4, <2>5, <3>1
  <2>6. CASE ~(i <= Len(input.buffer))
    <3>1. i - Len(input.buffer) \in 1 .. Len(items)
      BY <1>2, <2>1, <2>3, <2>6
    <3>2. items[i - Len(input.buffer)] = Queue(input) + (i - Len(input.buffer))
      BY <3>1
    <3>3. joined[i] = Queue(input) + (i - Len(input.buffer))
      BY <2>4, <2>6, <3>2
    <3>4. i \in Int /\ Len(input.got) \in Int /\ Len(input.buffer) \in Int
      BY <1>1, <2>1
    <3> DEFINE x == Len(input.got)
               y == Len(input.buffer)
    <3>5. joined[i] = (x + y) + (i - y) /\ x \in Int /\ y \in Int
      BY <2>1, <3>3, <3>4
    <3> HIDE DEF x, y
    <3>6. joined[i] = x + i
      BY <3>4, <3>5
    <3> QED BY <3>6 DEF x
  <2> QED BY <2>5, <2>6
<1> HIDE DEF joined
<1>8. joined \in Seq(1 .. Eof)
  BY <1>2 DEF joined
<1>4. /\ in \in Inputs /\ in.buffer = joined /\ in.got = input.got /\ in.over = input.over
      /\ in.destroyed = input.destroyed
  <2>1. in = [input EXCEPT !.buffer = joined]
    BY DEF joined
  <2> HIDE DEF in
  <2> QED BY <1>8, <2>1 DEF Inputs
<1> HIDE DEF in
<1>5. Queue(in) = Queue(input) + Len(items)
  <2>1. Len(in.buffer) = Len(input.buffer) + Len(items) /\ Len(in.got) = Len(input.got)
    BY <1>2, <1>4
  <2>2. Len(input.buffer) \in Nat /\ Len(items) \in Nat /\ Len(input.got) \in Nat
    BY <1>1
  <2> DEFINE x == Len(input.got)
             y == Len(input.buffer)
             z == Len(items)
  <2>3. Queue(in) = x + (y + z) /\ Queue(input) = x + y /\ x \in Nat /\ y \in Nat /\ z \in Nat
    BY <2>1, <2>2 DEF Queue
  <2> HIDE DEF x, y, z
  <2>4. Queue(in) = Queue(input) + z
    BY <2>3
  <2> QED BY <2>4 DEF z
<1>6. ItemsInOrder(in)
  <2>1. \A i \in 1 .. Len(in.buffer) : in.buffer[i] = Len(in.got) + i
    BY <1>3, <1>4
  <2> QED BY <1>4, <1>5, <2>1 DEF ItemsInOrder
<1>7. q = in \/ q \in PushData(in)
  BY DEF Queued, in
<1> QED BY <1>4, <1>5, <1>6, <1>7, PushDataOK

-----------------------------------------------------------------------------
(* The call comes before all requests, the answer before all of the stream. *)

\* Nothing of the stream is on the wire before the answer.
LEMMA AnswerFirst ==
  ASSUME StreamInv, out.wire # <<>>, Head(out.wire).type # "answer"
  PROVE  ~AnswerOnItsWay
<1>1. out.wire \in Seq(Messages) /\ Head(out.wire) = out.wire[1]
  BY DEF StreamInv, StreamTypeOK, Outputs
<1>2. \A i \in 1 .. Len(out.wire) : out.wire[i].type = "answer" => i = 1
  BY DEF StreamInv, InOrder
<1> QED BY <1>1, <1>2 DEF AnswerOnItsWay, Has

\* The call is the first request, and the only one as long as it is on its way.
LEMMA CallFirst ==
  ASSUME StreamInv, toServer # <<>>, Head(toServer).type # "call"
  PROVE  ~CallOnItsWay
<1>1. toServer \in Seq(Requests) /\ Head(toServer) = toServer[1]
  BY DEF StreamInv, StreamTypeOK
<1>2. CallOnItsWay => Len(toServer) = 1
  BY DEF StreamInv, InOrder
<1> QED BY <1>1, <1>2 DEF CallOnItsWay, Has

\* Whatever the server does with its stream but the answer: nothing is received by the client.
LEMMA ServerSide ==
  ASSUME StreamInv, ~CallOnItsWay,
         UNCHANGED <<outcome, call, input, remote, connected>>,
         source' \in Sources, out' \in Outputs, local' \in BOOLEAN, toServer' \in Seq(Requests),
         OutputOK(out', source'.next, source'.state = "ended"),
         Follows(out, source.next, out', source'.next),
         \A type : Has(toServer', type) => Has(toServer, type),
         ~connected => toServer' = <<>>,
         local' => source'.state = "open",
         source.state = "ended" => source'.state = "ended",
         source.state # "none" => source'.state # "none",
         source'.state = "destroyed" /\ connected =>
            source.state = "destroyed" \/ Has(out'.wire, "error") \/ Has(toServer, "hangup")
  PROVE  StreamInv'
<1>1. StreamTypeOK'
  BY DEF StreamInv, StreamTypeOK
<1>2. OutputOK(out, source.next, source.state = "ended")'
  BY DEF OutputOK
<1>3. InputOK'
  BY DEF StreamInv, InputOK, ItemsInOrder, Queue
<1>4. ~CallOnItsWay' /\ (AnswerOnItsWay' => AnswerOnItsWay) /\ (Expecting' => Expecting)
  <2>1. ~CallOnItsWay'
    BY DEF CallOnItsWay
  <2>2. AnswerOnItsWay' => AnswerOnItsWay
    BY DEF AnswerOnItsWay, Has, Follows
  <2> QED BY <2>1, <2>2 DEF Expecting
<1>5. InOrder'
  <2>1. \A i \in 1 .. Len(out'.wire) : out'.wire[i].type = "answer" => i = 1
    BY DEF Follows, StreamInv, InOrder
  <2>2. AnswerOnItsWay' => Untouched' /\ ~remote' /\ call' # "done"
    BY <1>4 DEF StreamInv, InOrder, Untouched
  <2>3. connected' /\ Expecting' => Chain(out'.wire, Queue(input') + 1, ToSend(out', source'.next))
    <3>1. connected' /\ Expecting' => Chain(out.wire, Queue(input) + 1, ToSend(out, source.next))
      BY <1>4 DEF StreamInv, InOrder
    <3> QED BY <3>1 DEF Follows
  <2>4. Has(out'.wire, "end") => source'.state = "ended"
    <3>1. Has(out'.wire, "end") => Has(out.wire, "end") \/ out'.ended
      BY DEF Follows
    <3>2. out'.ended => source'.state = "ended"
      BY DEF OutputOK
    <3> QED BY <3>1, <3>2 DEF StreamInv, InOrder
  <2> QED BY <1>4, <2>1, <2>2, <2>3, <2>4 DEF InOrder
<1>6. Registered'
  <2>1. remote' \/ (AnswerOnItsWay' /\ outcome' = "stream") => source'.state # "none"
    BY <1>4 DEF StreamInv, Registered
  <2>2. connected' /\ Expecting' /\ out'.finished => Has(out'.wire, "end")
    BY <1>4 DEF StreamInv, Registered, Follows
  <2>3. Has(toServer', "hangup") => input'.destroyed
    BY DEF StreamInv, Registered
  <2>4. connected' /\ source'.state = "destroyed" /\ Expecting' => Has(out'.wire, "error") \/ input'.over # "no"
    <3> SUFFICES ASSUME connected, source'.state = "destroyed", Expecting'
                 PROVE  Has(out'.wire, "error") \/ input.over # "no"
      OBVIOUS
    <3>1. CASE source.state = "destroyed"
      <4>1. Has(out.wire, "error") \/ input.over # "no"
        BY <1>4, <3>1 DEF StreamInv, Registered
      <4> QED BY <4>1 DEF Follows
    <3>2. CASE Has(toServer, "hangup")
      <4>1. input.destroyed
        BY <3>2 DEF StreamInv, Registered
      <4>2. ~remote /\ ~AnswerOnItsWay
        BY <4>1 DEF StreamInv, Registered, InOrder, Untouched
      <4> QED BY <1>4, <4>2 DEF Expecting
    <3> QED BY <3>1, <3>2
  <2> QED BY <2>1, <2>2, <2>3, <2>4 DEF StreamInv, Registered
<1> QED BY <1>1, <1>2, <1>3, <1>5, <1>6 DEF StreamInv

\* An output that stays as it is follows itself.
LEMMA SameFollows ==
  ASSUME NEW o, NEW next
  PROVE  Follows(o, next, o, next)
  BY DEF Follows

\* What the lemmas on the steps use of the type.
LEMMA FollowsType == ASSUME StreamInv PROVE
    /\ out \in Outputs /\ source \in Sources /\ input \in Inputs /\ connected \in BOOLEAN /\ local \in BOOLEAN
    /\ out.wire \in Seq(Messages) /\ toServer \in Seq(Requests) /\ source.next \in 1 .. Eof /\ Eof \in Nat
    /\ OutputOK(out, source.next, source.state = "ended")
  BY RpcAssumption DEF StreamInv, StreamTypeOK, Outputs, Sources, Eof

\* What is taken from the requests was there.
LEMMA RequestTaken ==
  ASSUME StreamInv, toServer # <<>>, toServer' = Tail(toServer)
  PROVE  /\ toServer' \in Seq(Requests) /\ \A type : Has(toServer', type) => Has(toServer, type)
         /\ ~connected => toServer' = <<>>
<1>1. toServer \in Seq(Requests)
  BY FollowsType
<1>2. ~connected => toServer = <<>>
  BY DEF StreamInv, InOrder
<1> QED BY <1>1, <1>2, HasTail

\* The source writes an item, which is sent or buffered.
LEMMA ProduceKeeps == ASSUME StreamInv, Produce PROVE StreamInv'
<1> USE FollowsType
<1>1. /\ source.state = "open" /\ source.next \in 1 .. Items /\ source' = [source EXCEPT !.next = @ + 1]
      /\ UNCHANGED <<outcome, call, input, remote, connected, local, toServer>>
  BY DEF Produce, Eof
<1>2. source' \in Sources /\ source'.state = "open" /\ source'.next = source.next + 1
  BY <1>1, RpcAssumption DEF Sources, Eof
<1>3. OutputOK(out, source.next, FALSE)
  BY <1>1, FollowsType, Zenon DEF OutputOK
<1>4. /\ out' \in Outputs /\ OutputOK(out', source.next + 1, FALSE)
      /\ Follows(out, source.next, out', source.next + 1)
  <2>1. CASE ~out.writing
    <3>1. out' = Writev(out, <<source.next>>)
      BY <2>1 DEF Produce
    <3> QED BY <1>1, <1>3, <2>1, <3>1, SentAtOnce, StepFollows
  <2>2. CASE out.writing
    <3> DEFINE buffer == Append(out.buffer, source.next)
    <3>1. out' = [out EXCEPT !.buffer = buffer]
      BY <2>2 DEF Produce
    <3>2. out.buffer \in Seq(1 .. Items) /\ Len(out.buffer) \in Nat
      BY DEF Outputs
    <3>3. /\ buffer \in Seq(1 .. Items) /\ Len(buffer) = Len(out.buffer) + 1
          /\ \A i \in 1 .. Len(out.buffer) : buffer[i] = out.buffer[i]
          /\ buffer[Len(out.buffer) + 1] = source.next
      BY <1>1, <3>2, AppendProperties
    <3> HIDE DEF buffer
    <3>4. /\ out' \in Outputs /\ out'.buffer = buffer /\ out'.wire = out.wire /\ out'.finished = out.finished
          /\ out'.ended = out.ended /\ out'.pending = out.pending /\ out'.unacked = out.unacked
          /\ out'.writing = out.writing /\ out'.packets = out.packets
      BY <3>1, <3>3 DEF Outputs
    <3>5. \A i \in 1 .. Len(buffer) : buffer[i] = (source.next + 1) - Len(buffer) - 1 + i
      <4> SUFFICES ASSUME NEW i \in 1 .. Len(buffer) PROVE buffer[i] = (source.next + 1) - Len(buffer) - 1 + i
        OBVIOUS
      <4> DEFINE n == Len(out.buffer)
      <4>1. \A j \in 1 .. n : out.buffer[j] = source.next - n - 1 + j
        BY <1>3 DEF OutputOK
      <4>2. n \in Nat /\ source.next \in Int /\ i \in 1 .. n + 1 /\ Len(buffer) = n + 1
        BY <3>2, <3>3
      <4>3. CASE i \in 1 .. n
        <5>1. buffer[i] = source.next - n - 1 + i
          BY <3>3, <4>1, <4>3
        <5> HIDE DEF n
        <5> QED BY <4>2, <5>1
      <4>4. CASE i = n + 1
        <5>1. buffer[i] = source.next
          BY <3>3, <4>4
        <5> HIDE DEF n
        <5> QED BY <4>2, <4>4, <5>1
      <4> HIDE DEF n
      <4> QED BY <4>2, <4>3, <4>4
    <3>6. Len(out.buffer) < source.next
      BY <1>3 DEF OutputOK
    <3>7. Len(buffer) < source.next + 1
      BY <1>1, <3>2, <3>3, <3>6
    <3>8. OutputOK(out', source.next + 1, FALSE)
      BY <1>3, <2>2, <3>4, <3>5, <3>7 DEF OutputOK
    <3>9. ToSend(out', source.next + 1) = ToSend(out, source.next)
      <4> DEFINE n == Len(out.buffer)
      <4>1. ToSend(out', source.next + 1) = (source.next + 1) - (n + 1) /\ ToSend(out, source.next) = source.next - n
        BY <1>3, <3>3, <3>4 DEF ToSend, OutputOK
      <4>2. n \in Int /\ source.next \in Int
        BY <1>1, <3>2
      <4> HIDE DEF n
      <4> QED BY <4>1, <4>2
    <3>10. Follows(out, source.next, out', source.next + 1)
      BY <3>4, <3>9 DEF Follows
    <3> QED BY <3>4, <3>8, <3>10
  <2> QED BY <2>1, <2>2
<1>5. ~CallOnItsWay
  BY <1>1 DEF StreamInv, InOrder
<1>6. ~connected => toServer' = <<>>
  BY <1>1 DEF StreamInv, InOrder
<1> QED BY <1>1, <1>2, <1>4, <1>5, <1>6, ServerSide

\* The source ends, and the output with it.
LEMMA SourceEndsKeeps == ASSUME StreamInv, SourceEnds PROVE StreamInv'
<1> USE FollowsType
<1>1. /\ source.state = "open" /\ source.next = Eof /\ source' = [source EXCEPT !.state = "ended"]
      /\ local' = FALSE /\ UNCHANGED <<outcome, call, input, remote, connected, toServer>>
      /\ out' = FinishIfDone([out EXCEPT !.ended = TRUE])
  BY RpcAssumption DEF SourceEnds, Eof
<1>2. source' \in Sources /\ source'.state = "ended" /\ source'.next = source.next
  BY <1>1 DEF Sources
<1>3. OutputOK(out, source.next, FALSE)
  BY <1>1, FollowsType, Zenon DEF OutputOK
<1>4. /\ out' \in Outputs /\ OutputOK(out', source.next, TRUE)
      /\ Follows(out, source.next, out', source.next)
  BY <1>1, <1>3, EndedOutput, StepFollows
<1>5. ~CallOnItsWay
  BY <1>1 DEF StreamInv, InOrder
<1>6. ~connected => toServer' = <<>>
  BY <1>1 DEF StreamInv, InOrder
<1> QED BY <1>1, <1>2, <1>4, <1>5, <1>6, ServerSide

\* The source fails, and its output is left as it is.
LEMMA SourceFailsKeeps == ASSUME StreamInv, SourceFails PROVE StreamInv'
<1> USE FollowsType
<1>1. /\ source.state = "open" /\ source' = [source EXCEPT !.state = "failed"]
      /\ local' = FALSE /\ UNCHANGED <<outcome, call, input, out, remote, connected, toServer>>
  BY DEF SourceFails
<1>2. source' \in Sources /\ source'.state = "failed" /\ source'.next = source.next
  BY <1>1 DEF Sources
<1>3. OutputOK(out', source'.next, source'.state = "ended")
  BY <1>1, <1>2 DEF OutputOK
<1>4. Follows(out, source.next, out', source'.next)
  BY <1>1, <1>2, SameFollows
<1>5. ~CallOnItsWay
  BY <1>1 DEF StreamInv, InOrder
<1>6. ~connected => toServer' = <<>>
  BY <1>1 DEF StreamInv, InOrder
<1> QED BY <1>1, <1>2, <1>3, <1>4, <1>5, <1>6, ServerSide

\* An acknowledgement, on time or late.
LEMMA ReceiveAckKeeps == ASSUME StreamInv, ReceiveAck PROVE StreamInv'
<1> USE FollowsType
<1>1. /\ toServer # <<>> /\ Head(toServer).type = "ack" /\ toServer' = Tail(toServer)
      /\ UNCHANGED <<outcome, call, input, source, remote, connected, local>>
  BY DEF ReceiveAck
<1>2. ~CallOnItsWay
  BY <1>1, CallFirst
<1>3. /\ out' \in Outputs /\ OutputOK(out', source.next, source.state = "ended")
      /\ Follows(out, source.next, out', source.next)
  <2>1. CASE Head(toServer).id \in out.unacked
    <3>1. out' = PacketDone(out, Head(toServer).id) /\ (source.state = "ended") \in BOOLEAN
      BY <2>1 DEF ReceiveAck
    <3> QED BY <2>1, <3>1, PacketDoneOK, StepFollows
  <2>2. CASE Head(toServer).id \notin out.unacked
    <3>1. out' = out
      BY <2>2 DEF ReceiveAck
    <3> QED BY <3>1, SameFollows
  <2> QED BY <2>1, <2>2
<1>4. local => source.state = "open"
  BY DEF StreamInv, Registered
<1> QED BY <1>1, <1>2, <1>3, <1>4, RequestTaken, ServerSide

\* An acknowledgement that does not come in time: the source is destroyed.
LEMMA AckTimesOutKeeps == ASSUME StreamInv, NEW id \in out.unacked, AckTimesOut(id) PROVE StreamInv'
<1> USE FollowsType
<1>1. /\ out' = Emit(PacketDone(out, id), [type |-> "error"])
      /\ source' = IF local THEN [source EXCEPT !.state = "destroyed"] ELSE source
      /\ local' = FALSE /\ UNCHANGED <<outcome, call, input, remote, connected, toServer>>
  BY DEF AckTimesOut, DestroyStream
<1> DEFINE p == PacketDone(out, id)
           ended == source.state = "ended"
<1>2. p \in Outputs /\ OutputOK(p, source.next, ended) /\ Follows(out, source.next, p, source.next)
  <2>1. ended \in BOOLEAN
    OBVIOUS
  <2> QED BY <2>1, PacketDoneOK, StepFollows
<1>3. /\ out' \in Outputs /\ OutputOK(out', source.next, ended)
      /\ Follows(out, source.next, out', source.next) /\ (connected => Has(out'.wire, "error"))
  <2> HIDE DEF p, ended
  <2>1. out' = Emit(p, [type |-> "error"])
    BY <1>1 DEF p
  <2> QED BY <1>2, <2>1, ErrorFollows
<1>4. local => source.state = "open"
  BY DEF StreamInv, Registered
<1>5. /\ source' \in Sources /\ source'.next = source.next
      /\ source'.state = IF local THEN "destroyed" ELSE source.state
  BY <1>1 DEF Sources
<1>6. ended = (source'.state = "ended")
  BY <1>4, <1>5
<1>7. OutputOK(out', source'.next, source'.state = "ended")
  <2> HIDE DEF ended
  <2> QED BY <1>3, <1>5, <1>6
<1>8. ~CallOnItsWay
  BY DEF StreamInv, InOrder
<1>9. ~connected => toServer' = <<>>
  BY <1>1 DEF StreamInv, InOrder
<1>10. /\ local' => source'.state = "open"
       /\ source.state = "ended" => source'.state = "ended"
       /\ source.state # "none" => source'.state # "none"
  BY <1>1, <1>4, <1>5
<1>11. /\ source'.state = "destroyed" /\ connected =>
            source.state = "destroyed" \/ Has(out'.wire, "error") \/ Has(toServer, "hangup")
       /\ local' \in BOOLEAN /\ toServer' \in Seq(Requests)
       /\ \A type : Has(toServer', type) => Has(toServer, type)
  BY <1>1, <1>3
<1> HIDE DEF ended
<1>12. out' \in Outputs /\ source' \in Sources /\ Follows(out, source.next, out', source'.next)
  BY <1>3, <1>5
<1> QED BY <1>1, <1>7, <1>8, <1>9, <1>10, <1>11, <1>12, ServerSide

\* The consumer hung up: the source is destroyed.
LEMMA ReceiveHangupKeeps == ASSUME StreamInv, ReceiveHangup PROVE StreamInv'
<1> USE FollowsType
<1>1. /\ toServer # <<>> /\ Head(toServer).type = "hangup" /\ toServer' = Tail(toServer)
      /\ source' = IF local THEN [source EXCEPT !.state = "destroyed"] ELSE source
      /\ local' = FALSE /\ UNCHANGED <<outcome, call, input, out, remote, connected>>
  BY DEF ReceiveHangup, DestroyStream
<1>2. ~CallOnItsWay
  BY <1>1, CallFirst
<1>3. local => source.state = "open"
  BY DEF StreamInv, Registered
<1>4. /\ source' \in Sources /\ source'.next = source.next
      /\ source'.state = IF local THEN "destroyed" ELSE source.state
  BY <1>1 DEF Sources
<1>5. OutputOK(out', source'.next, source'.state = "ended")
  <2>1. (source'.state = "ended") = (source.state = "ended")
    BY <1>3, <1>4
  <2> QED BY <1>1, <1>4, <2>1
<1>6. Follows(out, source.next, out', source'.next)
  BY <1>1, <1>4, SameFollows
<1>7. Has(toServer, "hangup")
  BY <1>1, HasTail
<1>8. /\ local' => source'.state = "open"
      /\ source.state = "ended" => source'.state = "ended"
      /\ source.state # "none" => source'.state # "none"
  BY <1>1, <1>3, <1>4
<1>10. out' \in Outputs /\ local' \in BOOLEAN
  BY <1>1
<1>9. /\ toServer' \in Seq(Requests) /\ \A type : Has(toServer', type) => Has(toServer, type)
      /\ ~connected => toServer' = <<>>
  BY <1>1, RequestTaken
<1> QED BY <1>1, <1>2, <1>4, <1>5, <1>6, <1>7, <1>8, <1>9, <1>10, ServerSide

-----------------------------------------------------------------------------
(* The client: it takes a message of the wire, or nothing, and its input goes on. *)

\* What is left on the wire when the client takes a message.
LEMMA WireTaken ==
  ASSUME StreamInv, out.wire # <<>>, out' = [out EXCEPT !.wire = Tail(@)],
         UNCHANGED <<source, connected>>
  PROVE  /\ out' \in Outputs /\ out'.wire = Tail(out.wire) /\ out'.finished = out.finished
         /\ out'.buffer = out.buffer /\ out'.unacked = out.unacked
         /\ OutputOK(out, source.next, source.state = "ended")'
         /\ ToSend(out', source.next) = ToSend(out, source.next)
         /\ \A type : Has(out.wire, type) <=> Head(out.wire).type = type \/ Has(out'.wire, type)
         /\ ~AnswerOnItsWay'
         /\ Head(out.wire) \in Messages
<1> USE FollowsType
<1>2. connected /\ Tail(out.wire) \in Seq(Messages) /\ Head(out.wire) \in Messages
  BY DEF OutputOK
<1>1. /\ out' \in Outputs /\ out'.wire = Tail(out.wire) /\ out'.finished = out.finished
      /\ out'.buffer = out.buffer /\ out'.unacked = out.unacked /\ out'.packets = out.packets
      /\ out'.pending = out.pending /\ out'.writing = out.writing /\ out'.ended = out.ended
  <2> DEFINE rest == Tail(out.wire)
  <2>1. rest \in Seq(Messages) /\ out' = [out EXCEPT !.wire = rest]
    BY <1>2
  <2> HIDE DEF rest
  <2>2. /\ out' \in Outputs /\ out'.wire = rest /\ out'.finished = out.finished
        /\ out'.buffer = out.buffer /\ out'.unacked = out.unacked /\ out'.packets = out.packets
        /\ out'.pending = out.pending /\ out'.writing = out.writing /\ out'.ended = out.ended
    BY <2>1 DEF Outputs
  <2> QED BY <2>2 DEF rest
<1>3. OutputOK(out, source.next, source.state = "ended")'
  BY <1>1, <1>2 DEF OutputOK
<1>4. ToSend(out', source.next) = ToSend(out, source.next)
  BY <1>1 DEF ToSend
<1>5. \A type : Has(out.wire, type) <=> Head(out.wire).type = type \/ Has(out'.wire, type)
  BY <1>1, HasTail
<1>6. ~AnswerOnItsWay'
  <2>1. \A i \in 1 .. Len(Tail(out.wire)) : Tail(out.wire)[i] = out.wire[i + 1] /\ i + 1 \in 1 .. Len(out.wire)
    OBVIOUS
  <2>2. \A i \in 1 .. Len(Tail(out.wire)) : i \in Nat /\ i + 1 # 1
    OBVIOUS
  <2>3. \A i \in 1 .. Len(out.wire) : out.wire[i].type = "answer" => i = 1
    BY DEF StreamInv, InOrder
  <2>4. \A i \in 1 .. Len(Tail(out.wire)) : Tail(out.wire)[i].type # "answer"
    BY <2>1, <2>2, <2>3
  <2> QED BY <1>1, <2>4 DEF AnswerOnItsWay, Has
<1> QED BY <1>1, <1>2, <1>3, <1>4, <1>5, <1>6

\* Whatever the client does with the stream once it has the answer.
LEMMA ClientSide ==
  ASSUME StreamInv, ~CallOnItsWay, ~AnswerOnItsWay,
         UNCHANGED <<outcome, call, source, local, connected>>,
         \/ UNCHANGED out
         \/ out.wire # <<>> /\ out' = [out EXCEPT !.wire = Tail(@)],
         input' \in Inputs, ItemsInOrder(input'), remote' \in BOOLEAN, remote' => remote,
         toServer' \in Seq(Requests), ~Has(toServer', "call"), ~connected => toServer' = <<>>,
         input.destroyed => input'.destroyed, remote' => ~input'.destroyed,
         Has(toServer', "hangup") => Has(toServer, "hangup") \/ input'.destroyed,
         input.over # "no" => input'.over # "no",
         input'.over = "end" => Len(input'.got) = Items /\ input'.buffer = <<>>,
         input'.over = "end" \/ Queue(input') = Eof => source.state = "ended" /\ ~remote',
         connected /\ remote' => Chain(out'.wire, Queue(input') + 1, ToSend(out', source.next)),
         remote' /\ Has(out.wire, "end") => Has(out'.wire, "end"),
         remote' /\ Has(out.wire, "error") => Has(out'.wire, "error") \/ input'.over # "no"
  PROVE  StreamInv'
<1> USE FollowsType
<1>1. /\ out' \in Outputs /\ OutputOK(out, source.next, source.state = "ended")' /\ ~AnswerOnItsWay'
      /\ out'.finished = out.finished /\ \A type : Has(out'.wire, type) => Has(out.wire, type)
  <2>1. CASE UNCHANGED out
    BY <2>1 DEF OutputOK, AnswerOnItsWay
  <2>2. CASE out.wire # <<>> /\ out' = [out EXCEPT !.wire = Tail(@)]
    BY <2>2, WireTaken
  <2> QED BY <2>1, <2>2
<1>2. StreamTypeOK'
  BY <1>1 DEF StreamInv, StreamTypeOK
<1>3. InputOK'
  <2>1. ItemsInOrder(input)'
    BY DEF ItemsInOrder, Queue
  <2>2. Queue(input)' = Queue(input')
    BY DEF Queue
  <2> QED BY <2>1, <2>2 DEF InputOK
<1>4. ~CallOnItsWay'
  BY DEF CallOnItsWay
<1>5. Expecting' <=> remote'
  BY <1>1, <1>4 DEF Expecting
<1>6. InOrder'
  <2>1. \A i \in 1 .. Len(out'.wire) : out'.wire[i].type = "answer" => i = 1
    BY <1>1 DEF AnswerOnItsWay, Has
  <2>2. Has(out'.wire, "end") => source'.state = "ended"
    BY <1>1 DEF StreamInv, InOrder
  <2> QED BY <1>1, <1>4, <1>5, <2>1, <2>2 DEF InOrder
<1>7. Registered'
  <2>1. connected' /\ Expecting' /\ out'.finished => Has(out'.wire, "end")
    BY <1>1, <1>5 DEF StreamInv, Registered, Expecting
  <2>2. Has(toServer', "hangup") => input'.destroyed
    BY DEF StreamInv, Registered
  <2>3. connected' /\ source'.state = "destroyed" /\ Expecting' => Has(out'.wire, "error") \/ input'.over # "no"
    BY <1>5 DEF StreamInv, Registered, Expecting
  <2> QED BY <1>1, <2>1, <2>2, <2>3 DEF StreamInv, Registered
<1> QED BY <1>1, <1>2, <1>3, <1>6, <1>7 DEF StreamInv

\* A client that was answered has neither the call nor the answer on its way.
LEMMA Answered ==
  ASSUME StreamInv, call = "done"
  PROVE  ~CallOnItsWay /\ ~AnswerOnItsWay
  BY DEF StreamInv, InOrder

\* A message on the wire was sent by a call that the server took.
LEMMA WireNotCall ==
  ASSUME StreamInv, out.wire # <<>>
  PROVE  ~CallOnItsWay /\ connected
  BY DEF StreamInv, InOrder, OutputOK

\* The consumer takes what is queued.
LEMMA ReadKeeps == ASSUME StreamInv, Read PROVE StreamInv'
<1> USE FollowsType
<1> DEFINE in == [input EXCEPT !.readable = TRUE]
<1>1. /\ call = "done" /\ input.over # "end" /\ input' \in PushData(in)
      /\ UNCHANGED <<outcome, call, source, out, toServer, local, remote, connected>>
  BY DEF Read
<1>2. /\ in \in Inputs /\ in.buffer = input.buffer /\ in.got = input.got /\ in.over = input.over
      /\ in.destroyed = input.destroyed
  BY DEF Inputs
<1> HIDE DEF in
<1>3. ItemsInOrder(in) /\ Queue(in) = Queue(input)
  BY <1>2 DEF StreamInv, InputOK, ItemsInOrder, Queue
<1>4. /\ input' \in Inputs /\ ItemsInOrder(input') /\ input'.destroyed = input.destroyed
      /\ \/ /\ Queue(input') = Queue(input) /\ input'.over = input.over
         \/ /\ Queue(input) = Eof /\ Len(input'.got) = Items /\ input'.buffer = <<>>
            /\ input'.over = IF input.over = "no" THEN "end" ELSE input.over
  BY <1>1, <1>2, <1>3, PushDataOK
<1>5. ~CallOnItsWay /\ ~AnswerOnItsWay
  BY <1>1, Answered
<1>6. remote => Queue(input) # Eof
  BY DEF StreamInv, InputOK
<1>7. Queue(input) = Eof => source.state = "ended" /\ ~remote
  BY DEF StreamInv, InputOK
<1>8. connected /\ remote => Chain(out.wire, Queue(input') + 1, ToSend(out, source.next))
  BY <1>4, <1>6 DEF StreamInv, InOrder, Expecting
<1>9. /\ input'.over = "end" => Len(input'.got) = Items /\ input'.buffer = <<>>
      /\ input'.over = "end" \/ Queue(input') = Eof => source.state = "ended" /\ ~remote
      /\ input.over # "no" => input'.over # "no"
  <2>1. CASE Queue(input') = Queue(input) /\ input'.over = input.over
    BY <1>1, <1>7, <2>1
  <2>2. CASE /\ Queue(input) = Eof /\ Len(input'.got) = Items /\ input'.buffer = <<>>
             /\ input'.over = IF input.over = "no" THEN "end" ELSE input.over
    BY <1>7, <2>2
  <2> QED BY <1>4, <2>1, <2>2
<1>10. /\ remote => ~input'.destroyed
       /\ ~connected => toServer' = <<>>
       /\ ~Has(toServer', "call")
  BY <1>1, <1>4, <1>5 DEF StreamInv, Registered, InOrder, CallOnItsWay
<1> QED BY <1>1, <1>4, <1>5, <1>8, <1>9, <1>10, ClientSide DEF StreamInv, StreamTypeOK

\* What a message carries is what the input waits for.
LEMMA HeadCarries ==
  ASSUME StreamInv, out.wire # <<>>, remote
  PROVE  \E d \in 1 .. Eof + 1 : /\ Carries(Head(out.wire), Queue(input) + 1, d)
                                 /\ Chain(Tail(out.wire), d, ToSend(out, source.next))
<1>1. connected
  BY WireNotCall
<1>2. Chain(out.wire, Queue(input) + 1, ToSend(out, source.next))
  BY <1>1 DEF StreamInv, InOrder, Expecting
<1> QED BY <1>2, FollowsType, ChainTail

\* A message that the client appends to its requests.
LEMMA RequestSent ==
  ASSUME StreamInv, NEW m \in Requests, m.type # "call", ~CallOnItsWay, ToServer(m)
  PROVE  /\ toServer' \in Seq(Requests) /\ ~Has(toServer', "call") /\ (~connected => toServer' = <<>>)
         /\ Has(toServer', "hangup") => Has(toServer, "hangup") \/ m.type = "hangup"
<1>1. toServer \in Seq(Requests) /\ connected \in BOOLEAN
  BY FollowsType
<1>2. ~Has(toServer, "call") /\ (~connected => toServer = <<>>)
  BY DEF CallOnItsWay, StreamInv, InOrder
<1>3. toServer' = IF connected THEN Append(toServer, m) ELSE toServer
  BY DEF ToServer
<1>4. \A type : Has(Append(toServer, m), type) <=> Has(toServer, type) \/ m.type = type
  BY <1>1, HasAppend
<1>5. Append(toServer, m) \in Seq(Requests)
  BY <1>1
<1> QED BY <1>1, <1>2, <1>3, <1>4, <1>5

\* What queueing items that the input waits for leaves to show.
LEMMA QueuedKeeps ==
  ASSUME StreamInv, NEW items \in Seq(1 .. Eof), input' \in Queued(items),
         \A i \in 1 .. Len(items) : items[i] = Queue(input) + i,
         Queue(input) + Len(items) <= Eof,
         input.over # "end", NEW still, NEW end,
         end = (Queue(input) + Len(items) = Eof), end => source.state = "ended" /\ ~still
  PROVE  /\ input' \in Inputs /\ ItemsInOrder(input') /\ input'.destroyed = input.destroyed
         /\ input.over # "no" => input'.over # "no"
         /\ input'.over = "end" => Len(input'.got) = Items /\ input'.buffer = <<>>
         /\ input'.over = "end" \/ Queue(input') = Eof => source.state = "ended" /\ ~still
         /\ ~end => Queue(input') = Queue(input) + Len(items)
<1>1. input \in Inputs /\ ItemsInOrder(input)
  BY DEF StreamInv, StreamTypeOK, InputOK
<1>2. /\ input' \in Inputs /\ ItemsInOrder(input') /\ input'.destroyed = input.destroyed
      /\ \/ /\ Queue(input') = Queue(input) + Len(items) /\ input'.over = input.over
         \/ /\ Queue(input) + Len(items) = Eof /\ Len(input'.got) = Items /\ input'.buffer = <<>>
            /\ input'.over = IF input.over = "no" THEN "end" ELSE input.over
  BY <1>1, QueuedOK
<1>3. CASE Queue(input') = Queue(input) + Len(items) /\ input'.over = input.over
  BY <1>2, <1>3
<1>4. CASE /\ Queue(input) + Len(items) = Eof /\ Len(input'.got) = Items /\ input'.buffer = <<>>
           /\ input'.over = IF input.over = "no" THEN "end" ELSE input.over
  BY <1>2, <1>4
<1> QED BY <1>2, <1>3, <1>4

\* The length of what was queued is a number.
LEMMA QueueIsNat ==
  ASSUME StreamInv
  PROVE  Queue(input) \in Nat /\ (Untouched => Queue(input) = 0)
<1> DEFINE g == Len(input.got)
           b == Len(input.buffer)
<1>1. g \in Nat /\ b \in Nat /\ Queue(input) = g + b
  BY FollowsType DEF Queue, Inputs
<1>2. Untouched => g = 0 /\ b = 0
  BY DEF Untouched
<1> HIDE DEF g, b
<1> QED BY <1>1, <1>2

\* A packet is queued, unless its stream is not registered.
LEMMA ReceiveDataKeeps == ASSUME StreamInv, ReceiveData PROVE StreamInv'
<1> USE FollowsType
<1>1. /\ out.wire # <<>> /\ Head(out.wire).type = "data" /\ out' = [out EXCEPT !.wire = Tail(@)]
      /\ UNCHANGED <<outcome, call, source, local, remote, connected>>
  BY DEF ReceiveData, NextMessage
<1>2. ~CallOnItsWay /\ ~AnswerOnItsWay /\ connected
  BY <1>1, AnswerFirst, WireNotCall
<1>3. /\ out'.wire = Tail(out.wire) /\ ToSend(out', source.next) = ToSend(out, source.next)
      /\ Head(out.wire) \in Messages
      /\ \A type : Has(out.wire, type) <=> Head(out.wire).type = type \/ Has(out'.wire, type)
  BY <1>1, WireTaken
<1>4. CASE ~remote
  <2>1. UNCHANGED <<input, toServer>>
    BY <1>4 DEF ReceiveData
  <2>2. /\ ~Has(toServer, "call") /\ ItemsInOrder(input)
        /\ input.over = "end" => Len(input.got) = Items /\ input.buffer = <<>>
        /\ input.over = "end" \/ Queue(input) = Eof => source.state = "ended"
    BY <1>2 DEF CallOnItsWay, StreamInv, InputOK
  <2>3. /\ input' \in Inputs /\ ItemsInOrder(input') /\ remote' \in BOOLEAN /\ ~remote'
        /\ toServer' \in Seq(Requests) /\ ~Has(toServer', "call")
    BY <1>1, <1>4, <2>1, <2>2 DEF StreamInv, StreamTypeOK
  <2>4. /\ input.destroyed => input'.destroyed
        /\ Has(toServer', "hangup") => Has(toServer, "hangup")
        /\ input.over # "no" => input'.over # "no"
        /\ input'.over = "end" => Len(input'.got) = Items /\ input'.buffer = <<>>
        /\ input'.over = "end" \/ Queue(input') = Eof => source.state = "ended"
    BY <2>1, <2>2
  <2> QED BY <1>1, <1>2, <2>3, <2>4, ClientSide
<1>5. CASE remote
  <2> DEFINE m == Head(out.wire)
             ack == [type |-> "ack", id |-> m.id]
  <2>1. m \in Packets
    BY <1>1, <1>3 DEF Messages
  <2>2. m.items \in Seq(1 .. Items) /\ ack \in Requests
    BY <2>1 DEF Packets, Requests
  <2>3. input' \in Queued(m.items) /\ ToServer(ack)
    BY <1>5 DEF ReceiveData
  <2>4. PICK d \in 1 .. Eof + 1 : Carries(m, Queue(input) + 1, d) /\ Chain(Tail(out.wire), d, ToSend(out, source.next))
    BY <1>1, <1>5, HeadCarries
  <2> HIDE DEF m
  <2>5. /\ d = Queue(input) + 1 + Len(m.items) /\ d <= Eof
        /\ \A i \in 1 .. Len(m.items) : m.items[i] = Queue(input) + 1 + i - 1
    BY <1>1, <2>4 DEF Carries, m
  <2> DEFINE g == Queue(input)
             n == Len(m.items)
  <2>6. g \in Nat /\ n \in Nat /\ m.items \in Seq(1 .. Eof)
    <3>1. 1 .. Items \subseteq 1 .. Eof
      BY RpcAssumption DEF Eof
    <3>2. m.items \in Seq(1 .. Eof)
      BY <2>2, <3>1, SeqMonotonic
    <3>3. n \in Nat
      BY <2>2
    <3>4. g \in Nat
      BY QueueIsNat
    <3> QED BY <3>2, <3>3, <3>4
  <2>7. /\ \A i \in 1 .. n : m.items[i] = g + i
        /\ g + n < Eof /\ d = g + n + 1
    <3> HIDE DEF g, n
    <3>1. d = g + 1 + n /\ d <= Eof /\ \A i \in 1 .. n : m.items[i] = g + 1 + i - 1
      BY <2>5 DEF g, n
    <3>2. \A i \in 1 .. n : g + 1 + i - 1 = g + i
      BY <2>6
    <3>3. g + n < Eof /\ d = g + n + 1
      BY <2>6, <3>1 DEF Eof
    <3> QED BY <3>1, <3>2, <3>3, Zenon
  <2>8. input.over # "end" /\ ~input.destroyed
    BY <1>5 DEF StreamInv, InputOK, Registered
  <2>9. /\ input' \in Inputs /\ ItemsInOrder(input') /\ input'.destroyed = input.destroyed
        /\ input.over # "no" => input'.over # "no"
        /\ input'.over = "end" => Len(input'.got) = Items /\ input'.buffer = <<>>
        /\ input'.over = "end" \/ Queue(input') = Eof => source.state = "ended" /\ ~remote
        /\ Queue(input') = g + n
    <3>1. (g + n = Eof) = FALSE /\ g + n <= Eof
      BY <2>6, <2>7
    <3> QED BY <2>3, <2>6, <2>7, <2>8, <3>1, QueuedKeeps
  <2>10. Chain(out'.wire, Queue(input') + 1, ToSend(out', source.next))
    BY <1>3, <2>4, <2>7, <2>9
  <2>11. /\ toServer' \in Seq(Requests) /\ ~Has(toServer', "call") /\ (~connected => toServer' = <<>>)
         /\ Has(toServer', "hangup") => Has(toServer, "hangup")
    <3>1. ack.type # "call" /\ ack.type # "hangup"
      OBVIOUS
    <3> HIDE DEF ack
    <3> QED BY <1>2, <2>2, <2>3, <3>1, RequestSent
  <2>12. (Has(out.wire, "end") => Has(out'.wire, "end")) /\ (Has(out.wire, "error") => Has(out'.wire, "error"))
    BY <1>1, <1>3
  <2> HIDE DEF ack, g, n
  <2> QED BY <1>1, <1>2, <1>5, <2>8, <2>9, <2>10, <2>11, <2>12, ClientSide
<1> QED BY <1>4, <1>5 DEF StreamInv, StreamTypeOK

\* The end is queued behind the items, and closes the stream.
LEMMA ReceiveEndPreserves == ASSUME StreamInv, ReceiveEnd PROVE StreamInv'
<1> USE FollowsType
<1>1. /\ out.wire # <<>> /\ Head(out.wire).type = "end" /\ out' = [out EXCEPT !.wire = Tail(@)]
      /\ remote' = FALSE /\ UNCHANGED <<outcome, call, source, local, toServer, connected>>
  BY DEF ReceiveEnd, NextMessage
<1>2. ~CallOnItsWay /\ ~AnswerOnItsWay /\ connected
  BY <1>1, AnswerFirst, WireNotCall
<1>3. Has(out.wire, "end")
  BY <1>1, HasTail
<1>4. source.state = "ended" /\ ~Has(toServer, "call")
  BY <1>2, <1>3 DEF StreamInv, InOrder, CallOnItsWay
<1>5. CASE ~remote
  <2>1. UNCHANGED input
    BY <1>5 DEF ReceiveEnd
  <2>2. ItemsInOrder(input) /\ (input.over = "end" => Len(input.got) = Items /\ input.buffer = <<>>)
    BY DEF StreamInv, InputOK
  <2> QED BY <1>1, <1>2, <1>4, <2>1, <2>2, ClientSide
<1>6. CASE remote
  <2>1. input' \in Queued(<<Eof>>)
    BY <1>6 DEF ReceiveEnd
  <2>2. PICK d \in 1 .. Eof + 1 : Carries(Head(out.wire), Queue(input) + 1, d)
    BY <1>1, <1>6, HeadCarries
  <2>3. Queue(input) + 1 = Eof /\ Queue(input) \in Nat
    BY <1>1, <2>2 DEF Carries, Queue, Inputs
  <2>4. <<Eof>> \in Seq(1 .. Eof) /\ Len(<<Eof>>) = 1 /\ <<Eof>>[1] = Eof /\ Eof \in 1 .. Eof
    BY RpcAssumption DEF Eof
  <2>5. input.over # "end"
    BY <1>6 DEF StreamInv, InputOK
  <2>6. /\ input' \in Inputs /\ ItemsInOrder(input') /\ input'.destroyed = input.destroyed
        /\ input.over # "no" => input'.over # "no"
        /\ input'.over = "end" => Len(input'.got) = Items /\ input'.buffer = <<>>
    <3>1. \A i \in 1 .. Len(<<Eof>>) : <<Eof>>[i] = Queue(input) + i
      BY <2>3, <2>4
    <3>2. Queue(input) + Len(<<Eof>>) <= Eof /\ (Queue(input) + Len(<<Eof>>) = Eof) = TRUE
      BY <2>3, <2>4
    <3> DEFINE items == <<Eof>>
    <3>3. items \in Seq(1 .. Eof)
      BY <2>4
    <3> HIDE DEF items
    <3> QED BY <1>4, <2>1, <2>5, <3>1, <3>2, <3>3, QueuedKeeps DEF items
  <2> QED BY <1>1, <1>2, <1>4, <2>6, ClientSide
<1> QED BY <1>5, <1>6 DEF StreamInv, StreamTypeOK

\* An error leaves what is queued, and the stream registered.
LEMMA ReceiveErrorKeeps == ASSUME StreamInv, ReceiveError PROVE StreamInv'
<1> USE FollowsType
<1>1. /\ out.wire # <<>> /\ Head(out.wire).type = "error" /\ out' = [out EXCEPT !.wire = Tail(@)]
      /\ input' = IF remote /\ input.over = "no" THEN [input EXCEPT !.over = "error"] ELSE input
      /\ UNCHANGED <<outcome, call, source, local, remote, toServer, connected>>
  BY DEF ReceiveError, NextMessage
<1>2. ~CallOnItsWay /\ ~AnswerOnItsWay /\ connected
  BY <1>1, AnswerFirst, WireNotCall
<1>3. /\ out'.wire = Tail(out.wire) /\ ToSend(out', source.next) = ToSend(out, source.next)
      /\ Head(out.wire) \in Messages
      /\ \A type : Has(out.wire, type) <=> Head(out.wire).type = type \/ Has(out'.wire, type)
  BY <1>1, WireTaken
<1>4. /\ input' \in Inputs /\ input'.got = input.got /\ input'.buffer = input.buffer
      /\ input'.destroyed = input.destroyed
      /\ input'.over = IF remote /\ input.over = "no" THEN "error" ELSE input.over
  BY <1>1 DEF Inputs
<1>5. ItemsInOrder(input') /\ Queue(input') = Queue(input)
  BY <1>4 DEF StreamInv, InputOK, ItemsInOrder, Queue
<1>6. /\ input'.over = "end" => Len(input'.got) = Items /\ input'.buffer = <<>>
      /\ input'.over = "end" \/ Queue(input') = Eof => source.state = "ended" /\ ~remote
      /\ remote => input'.over # "no"
  BY <1>4, <1>5 DEF StreamInv, InputOK
<1>7. remote => Chain(out'.wire, Queue(input') + 1, ToSend(out', source.next))
  <2> SUFFICES ASSUME remote PROVE Chain(out'.wire, Queue(input') + 1, ToSend(out', source.next))
    OBVIOUS
  <2>1. PICK d \in 1 .. Eof + 1 : /\ Carries(Head(out.wire), Queue(input) + 1, d)
                                  /\ Chain(Tail(out.wire), d, ToSend(out, source.next))
    BY <1>1, HeadCarries
  <2>2. d = Queue(input) + 1
    BY <1>1, <2>1 DEF Carries
  <2> QED BY <1>3, <1>5, <2>1, <2>2
<1>8. /\ Has(out.wire, "end") => Has(out'.wire, "end")
      /\ remote => ~input'.destroyed
      /\ ~Has(toServer', "call")
  BY <1>1, <1>2, <1>3, <1>4 DEF StreamInv, Registered, CallOnItsWay
<1>9. input.over # "no" => input'.over # "no"
  BY <1>4
<1>10. toServer' \in Seq(Requests) /\ remote' \in BOOLEAN
  BY <1>1 DEF StreamInv, StreamTypeOK
<1> QED BY <1>1, <1>2, <1>4, <1>5, <1>6, <1>7, <1>8, <1>9, <1>10, ClientSide

\* The consumer destroys its stream: what was queued is dropped.
LEMMA DestroyKeeps == ASSUME StreamInv, Destroy PROVE StreamInv'
<1> USE FollowsType
<1> DEFINE hangup == [type |-> "hangup"]
<1>1. /\ call = "done" /\ input' = [input EXCEPT !.destroyed = TRUE, !.buffer = <<>>, !.readable = FALSE]
      /\ remote' = FALSE /\ ToServer(hangup)
      /\ UNCHANGED <<outcome, call, source, out, local, connected>>
  BY DEF Destroy
<1>2. ~CallOnItsWay /\ ~AnswerOnItsWay
  BY <1>1, Answered
<1>3. /\ input' \in Inputs /\ input'.got = input.got /\ input'.buffer = <<>> /\ input'.over = input.over
      /\ input'.destroyed
  <2>1. <<>> \in Seq(1 .. Eof)
    OBVIOUS
  <2> QED BY <1>1, <2>1 DEF Inputs
<1>4. ItemsInOrder(input)
  BY DEF StreamInv, InputOK
<1>5. /\ Len(input.got) \in Nat /\ Len(input.buffer) \in Nat /\ Len(input.got) <= Items
      /\ Eof = Items + 1 /\ Items \in Nat
  BY <1>4, RpcAssumption DEF Inputs, ItemsInOrder, Eof
<1>6. Queue(input') < Eof
  <2> DEFINE g == Len(input.got)
  <2>1. Queue(input') = g + 0
    BY <1>3 DEF Queue
  <2>2. g \in Nat /\ g <= Items
    BY <1>5
  <2> HIDE DEF g
  <2> QED BY <1>5, <2>1, <2>2
<1>7. ItemsInOrder(input')
  <2>1. Queue(input') <= Eof /\ Len(input'.got) <= Items
    <3> DEFINE g == Len(input.got)
    <3>1. Queue(input') = g + 0 /\ Len(input'.got) = g
      BY <1>3 DEF Queue
    <3>2. g \in Nat /\ g <= Items
      BY <1>5
    <3> HIDE DEF g
    <3> QED BY <1>5, <3>1, <3>2
  <2>2. \A i \in 1 .. Len(input'.got) : input'.got[i] = i
    BY <1>3, <1>4 DEF ItemsInOrder
  <2>3. 1 .. Len(input'.buffer) = {}
    BY <1>3
  <2> QED BY <2>1, <2>2, <2>3 DEF ItemsInOrder
<1>8. /\ input'.over = "end" => Len(input'.got) = Items /\ input'.buffer = <<>>
      /\ input'.over = "end" \/ Queue(input') = Eof => source.state = "ended"
  <2>1. Queue(input') # Eof
    <3> DEFINE q == Queue(input')
    <3>1. q < Eof /\ q \in Nat
      <4> DEFINE g == Len(input.got)
      <4>1. Queue(input') = g + 0
        BY <1>3 DEF Queue
      <4>2. g \in Nat
        BY <1>5
      <4> HIDE DEF g
      <4> QED BY <1>6, <4>1, <4>2
    <3> HIDE DEF q
    <3>2. q # Eof
      BY <1>5, <3>1
    <3> QED BY <3>2 DEF q
  <2>2. input.over = "end" => Len(input.got) = Items /\ source.state = "ended"
    BY DEF StreamInv, InputOK
  <2> QED BY <1>3, <2>1, <2>2
<1>9. toServer' \in Seq(Requests) /\ ~Has(toServer', "call") /\ (~connected => toServer' = <<>>)
  <2>1. hangup \in Requests /\ hangup.type # "call"
    BY DEF Requests
  <2> HIDE DEF hangup
  <2> QED BY <1>1, <1>2, <2>1, RequestSent
<1>10. remote' \in BOOLEAN /\ ~remote' /\ (input.over # "no" => input'.over # "no")
  BY <1>1, <1>3
<1>11. UNCHANGED <<outcome, call, source, local, connected>> /\ UNCHANGED out
  BY <1>1
<1> QED BY <1>2, <1>3, <1>7, <1>8, <1>9, <1>10, <1>11, ClientSide

-----------------------------------------------------------------------------
(* The call. *)

\* The server takes the call and answers it, before anything of its stream.
LEMMA OnCallKeeps == ASSUME StreamInv, OnCall PROVE StreamInv'
<1> USE FollowsType
<1> DEFINE m == [type |-> "answer"]
<1>1. /\ toServer # <<>> /\ Head(toServer).type = "call" /\ toServer' = Tail(toServer)
      /\ out' = Emit(out, m)
      /\ source' = IF outcome = "stream" THEN [source EXCEPT !.state = "open"] ELSE source
      /\ local' = (outcome = "stream")
      /\ UNCHANGED <<outcome, call, input, remote, connected>>
  BY DEF OnCall
<1>2. CallOnItsWay
  BY <1>1, HasTail DEF CallOnItsWay
<1>3. /\ Len(toServer) = 1 /\ out.wire = <<>> /\ Untouched /\ ~remote /\ call # "done"
      /\ source.state = "none" /\ source.next = 1 /\ out.buffer = <<>> /\ connected
  BY <1>1, <1>2 DEF StreamInv, InOrder
<1>4. m \in Messages /\ <<m>> \in Seq(Messages)
  BY DEF Messages
<1>5. /\ out' \in Outputs /\ out'.wire = <<m>> /\ out'.finished = out.finished
      /\ out'.buffer = out.buffer /\ out'.unacked = out.unacked /\ out'.packets = out.packets
      /\ out'.pending = out.pending /\ out'.writing = out.writing /\ out'.ended = out.ended
  <2> DEFINE wire == <<m>>
  <2>1. out' = [out EXCEPT !.wire = wire] /\ wire \in Seq(Messages)
    BY <1>1, <1>3, <1>4 DEF Emit
  <2> HIDE DEF wire
  <2>2. /\ out' \in Outputs /\ out'.wire = wire /\ out'.finished = out.finished
        /\ out'.buffer = out.buffer /\ out'.unacked = out.unacked /\ out'.packets = out.packets
        /\ out'.pending = out.pending /\ out'.writing = out.writing /\ out'.ended = out.ended
    BY <2>1 DEF Outputs
  <2> QED BY <2>2 DEF wire
<1>6. /\ source' \in Sources /\ source'.next = 1
      /\ source'.state = IF outcome = "stream" THEN "open" ELSE "none"
  BY <1>1, <1>3 DEF Sources
<1>7. toServer' = <<>>
  BY <1>1, <1>3
<1>8. StreamTypeOK'
  BY <1>1, <1>5, <1>6, <1>7 DEF StreamInv, StreamTypeOK
<1>9. OutputOK(out, source.next, source.state = "ended")'
  <2>1. (source'.state = "ended") = FALSE /\ (source.state = "ended") = FALSE
    BY <1>3, <1>6
  <2>2. connected' /\ source'.next = source.next
    BY <1>1, <1>3, <1>6
  <2> QED BY <1>5, <2>1, <2>2 DEF OutputOK
<1>10. InputOK'
  <2>1. ItemsInOrder(input) /\ Queue(input) = 0 /\ input.over = "no"
    BY <1>3, QueueIsNat DEF StreamInv, InputOK, Untouched
  <2>2. ItemsInOrder(input') /\ Queue(input') = 0 /\ input'.over = "no"
    BY <1>1, <2>1 DEF ItemsInOrder, Queue
  <2>3. Eof # 0
    BY RpcAssumption DEF Eof
  <2> QED BY <2>2, <2>3 DEF InputOK
<1>11. InOrder'
  <2>1. ~CallOnItsWay'
    BY <1>7, HasNone DEF CallOnItsWay
  <2>2. ToSend(out', source'.next) = 1
    <3>1. ~out.finished
      BY <1>3 DEF OutputOK
    <3> QED BY <1>3, <1>5, <1>6, <3>1 DEF ToSend
  <2>3. Chain(out'.wire, 1, 1)
    <3>1. 1 \in 1 .. Eof + 1
      BY RpcAssumption DEF Eof
    <3>2. Chain(Append(<<>>, m), 1, 1)
      <4> DEFINE none == <<>>
      <4>1. none \in Seq(Messages) /\ Chain(none, 1, 1)
        BY <3>1, ChainEmpty
      <4>2. Carries(m, 1, 1)
        BY DEF Carries
      <4> HIDE DEF none, m
      <4>3. Chain(Append(none, m), 1, 1)
        BY <1>4, <3>1, <4>1, <4>2, ChainAppend
      <4> QED BY <4>3 DEF none
    <3>3. Append(<<>>, m) = <<m>>
      OBVIOUS
    <3> QED BY <1>5, <3>2, <3>3, Zenon
  <2>4. Queue(input') + 1 = 1
    <3>1. Queue(input) = 0 /\ input' = input
      BY <1>1, <1>3, QueueIsNat
    <3> QED BY <3>1
  <2>5. Len(out'.wire) = 1 /\ out'.wire[1] = m /\ m.type = "answer"
    BY <1>5
  <2>6. ~Has(out'.wire, "end")
    BY <2>5 DEF Has
  <2>7. \A i \in 1 .. Len(out'.wire) : out'.wire[i].type = "answer" => i = 1
    BY <2>5
  <2>8. Untouched' /\ ~remote' /\ call' # "done" /\ connected'
    BY <1>1, <1>3 DEF Untouched
  <2> QED BY <2>1, <2>2, <2>3, <2>4, <2>6, <2>7, <2>8 DEF InOrder
<1>12. Registered'
  <2>1. ~out'.finished
    BY <1>3, <1>5 DEF OutputOK
  <2>2. ~Has(toServer', "hangup") /\ ~remote'
    BY <1>1, <1>3, <1>7, HasNone
  <2>3. local' => source'.state = "open"
    BY <1>1, <1>6
  <2>4. (AnswerOnItsWay' /\ outcome' = "stream") => source'.state # "none"
    BY <1>1, <1>6
  <2>5. source'.state # "destroyed"
    BY <1>6
  <2> QED BY <2>1, <2>2, <2>3, <2>4, <2>5 DEF Registered
<1> QED BY <1>8, <1>9, <1>10, <1>11, <1>12 DEF StreamInv

\* The client gets its answer, and the stream, even when the call has timed out.
LEMMA ReceiveAnswerKeeps == ASSUME StreamInv, ReceiveAnswer PROVE StreamInv'
<1> USE FollowsType
<1>1. /\ out.wire # <<>> /\ Head(out.wire).type = "answer" /\ out' = [out EXCEPT !.wire = Tail(@)]
      /\ remote' = (outcome = "stream") /\ call' = IF call = "sent" THEN "done" ELSE call
      /\ UNCHANGED <<outcome, source, input, toServer, local, connected>>
  BY DEF ReceiveAnswer
<1>2. ~CallOnItsWay /\ connected
  BY <1>1, WireNotCall
<1>3. /\ out' \in Outputs /\ out'.wire = Tail(out.wire) /\ out'.finished = out.finished
      /\ OutputOK(out, source.next, source.state = "ended")' /\ ToSend(out', source.next) = ToSend(out, source.next)
      /\ \A type : Has(out.wire, type) <=> Head(out.wire).type = type \/ Has(out'.wire, type)
      /\ ~AnswerOnItsWay'
  BY <1>1, WireTaken
<1>4. AnswerOnItsWay
  BY <1>1, <1>3 DEF AnswerOnItsWay
<1>5. Untouched /\ ~remote
  BY <1>4 DEF StreamInv, InOrder
<1>6. StreamTypeOK'
  BY <1>1, <1>3 DEF StreamInv, StreamTypeOK
<1>7. Queue(input) = 0 /\ Eof # 0 /\ input.over = "no"
  <2>1. Eof # 0
    BY RpcAssumption DEF Eof
  <2> QED BY <1>5, <2>1, QueueIsNat DEF Untouched
<1>8. InputOK'
  <2>1. ItemsInOrder(input') /\ Queue(input') = 0 /\ input'.over = "no"
    BY <1>1, <1>7 DEF StreamInv, InputOK
  <2> QED BY <1>7, <2>1 DEF InputOK
<1>9. ~CallOnItsWay'
  BY <1>1, <1>2 DEF CallOnItsWay
<1>10. InOrder'
  <2>1. Chain(out'.wire, Queue(input') + 1, ToSend(out', source'.next))
    <3>1. Chain(out.wire, Queue(input) + 1, ToSend(out, source.next))
      BY <1>2, <1>4 DEF StreamInv, InOrder, Expecting
    <3>2. PICK d \in 1 .. Eof + 1 : /\ Carries(Head(out.wire), Queue(input) + 1, d)
                                    /\ Chain(Tail(out.wire), d, ToSend(out, source.next))
      BY <1>1, <3>1, ChainTail
    <3>3. d = Queue(input) + 1 /\ Queue(input') = Queue(input)
      BY <1>1, <3>2 DEF Carries
    <3> QED BY <1>1, <1>3, <3>2, <3>3
  <2>2. \A i \in 1 .. Len(out'.wire) : out'.wire[i].type = "answer" => i = 1
    BY <1>3 DEF AnswerOnItsWay, Has
  <2>3. Has(out'.wire, "end") => source'.state = "ended"
    BY <1>1, <1>3 DEF StreamInv, InOrder
  <2> QED BY <1>1, <1>2, <1>3, <1>9, <2>1, <2>2, <2>3 DEF InOrder
<1>11. Registered'
  <2>1. remote' => outcome' = "stream" /\ ~input'.destroyed
    BY <1>1, <1>5 DEF Untouched
  <2>2. remote' => source'.state # "none"
    BY <1>1, <1>4 DEF StreamInv, Registered
  <2>3. connected' /\ out'.finished => Has(out'.wire, "end")
    BY <1>1, <1>3, <1>4 DEF StreamInv, Registered, Expecting
  <2>4. connected' /\ source'.state = "destroyed" => Has(out'.wire, "error") \/ input'.over # "no"
    BY <1>1, <1>3, <1>4 DEF StreamInv, Registered, Expecting
  <2> QED BY <1>1, <1>3, <2>1, <2>2, <2>3, <2>4 DEF StreamInv, Registered
<1> QED BY <1>3, <1>6, <1>8, <1>10, <1>11 DEF StreamInv

\* A call that times out leaves the streams as they are.
LEMMA CallTimesOutKeeps == ASSUME StreamInv, CallTimesOut PROVE StreamInv'
<1>1. /\ call' = "timedOut"
      /\ UNCHANGED <<outcome, source, out, input, toServer, local, remote, connected>>
  BY DEF CallTimesOut
<1>2. StreamTypeOK' /\ OutputOK(out, source.next, source.state = "ended")' /\ InputOK'
  BY <1>1 DEF StreamInv, StreamTypeOK, OutputOK, InputOK, ItemsInOrder, Queue
<1>3. /\ CallOnItsWay' = CallOnItsWay /\ AnswerOnItsWay' = AnswerOnItsWay /\ Expecting' = Expecting
      /\ Untouched' = Untouched
  BY <1>1 DEF CallOnItsWay, AnswerOnItsWay, Expecting, Untouched
<1>4. InOrder'
  BY <1>1, <1>3 DEF StreamInv, InOrder, Queue
<1>5. Registered'
  BY <1>1, <1>3 DEF StreamInv, Registered
<1> QED BY <1>2, <1>4, <1>5 DEF StreamInv

\* A disconnection loses what is on its way both ways.
LEMMA DisconnectKeeps == ASSUME StreamInv, Disconnect PROVE StreamInv'
<1> USE FollowsType
<1>1. /\ connected' = FALSE /\ toServer' = <<>> /\ out' = [out EXCEPT !.wire = <<>>]
      /\ UNCHANGED <<outcome, call, source, input, local, remote>>
  BY DEF Disconnect
<1>2. /\ out' \in Outputs /\ out'.wire = <<>> /\ out'.finished = out.finished
      /\ out'.buffer = out.buffer /\ out'.unacked = out.unacked /\ out'.packets = out.packets
      /\ out'.pending = out.pending /\ out'.writing = out.writing /\ out'.ended = out.ended
  <2> DEFINE none == <<>>
  <2>1. out' = [out EXCEPT !.wire = none] /\ none \in Seq(Messages)
    BY <1>1
  <2> HIDE DEF none
  <2>2. /\ out' \in Outputs /\ out'.wire = none /\ out'.finished = out.finished
        /\ out'.buffer = out.buffer /\ out'.unacked = out.unacked /\ out'.packets = out.packets
        /\ out'.pending = out.pending /\ out'.writing = out.writing /\ out'.ended = out.ended
    BY <2>1 DEF Outputs
  <2> QED BY <2>2 DEF none
<1>3. StreamTypeOK'
  <2>1. toServer' \in Seq(Requests)
    <3> DEFINE none == <<>>
    <3>1. none \in Seq(Requests)
      OBVIOUS
    <3> QED BY <1>1, <3>1
  <2>2. connected' \in BOOLEAN
    BY <1>1
  <2> QED BY <1>1, <1>2, <2>1, <2>2 DEF StreamInv, StreamTypeOK
<1>4. OutputOK(out, source.next, source.state = "ended")'
  BY <1>1, <1>2 DEF OutputOK
<1>5. InputOK'
  BY <1>1 DEF StreamInv, InputOK, ItemsInOrder, Queue
<1>6. ~CallOnItsWay' /\ ~AnswerOnItsWay' /\ ~Has(out'.wire, "end") /\ ~Has(toServer', "hangup")
  BY <1>1, <1>2, HasNone DEF CallOnItsWay, AnswerOnItsWay
<1>7. InOrder'
  BY <1>1, <1>2, <1>6 DEF InOrder
<1>8. Registered'
  BY <1>1, <1>6 DEF StreamInv, Registered
<1> QED BY <1>3, <1>4, <1>5, <1>7, <1>8 DEF StreamInv

-----------------------------------------------------------------------------
(* The specification. *)

\* The call is on its way, and nothing of its stream exists.
LEMMA InitEstablishes == RpInit => StreamInv
<1> SUFFICES ASSUME RpInit PROVE StreamInv
  OBVIOUS
<1> DEFINE none == <<>>
           request == [type |-> "call"]
<1>1. /\ call = "sent" /\ source = [state |-> "none", next |-> 1]
      /\ out = [buffer |-> none, writing |-> FALSE, ended |-> FALSE, finished |-> FALSE,
                packets |-> 0, unacked |-> {}, pending |-> 0, wire |-> none]
      /\ input = [buffer |-> none, readable |-> FALSE, destroyed |-> FALSE, got |-> none, over |-> "no"]
      /\ toServer = <<request>>
      /\ local = FALSE /\ remote = FALSE /\ connected = TRUE
  BY DEF RpInit
<1>2. /\ none \in Seq(1 .. Items) /\ none \in Seq(1 .. Eof) /\ none \in Seq(Messages)
      /\ request \in Requests /\ <<request>> \in Seq(Requests) /\ 1 \in 1 .. Eof /\ Items \in Nat
      /\ Eof = Items + 1
  BY RpcAssumption DEF Requests, Eof
<1>3. Len(none) = 0 /\ 1 .. Len(none) = {}
  OBVIOUS
<1>4. StreamTypeOK
  <2> HIDE DEF none, request
  <2>1. source \in Sources /\ input \in Inputs
    BY <1>1, <1>2 DEF Sources, Inputs
  <2>2. out \in Outputs
    BY <1>1, <1>2 DEF Outputs
  <2> QED BY <1>1, <1>2, <2>1, <2>2 DEF StreamTypeOK
<1>5. OutputOK(out, source.next, source.state = "ended")
  <2>1. IsFiniteSet({}) /\ Cardinality({}) = 0 /\ MaxPendingAck \in Nat \ {0}
    BY FS_EmptySet, RpcAssumption
  <2>2. /\ out.buffer = none /\ out.wire = none /\ out.unacked = {} /\ out.pending = 0 /\ source.next = 1
        /\ ~out.writing /\ out.ended = FALSE /\ ~out.finished /\ (source.state = "ended") = FALSE
    BY <1>1
  <2>3. Len(out.buffer) = 0
    BY <1>3, <2>2
  <2> HIDE DEF none
  <2>4. \A i \in 1 .. Len(out.buffer) : out.buffer[i] = source.next - Len(out.buffer) - 1 + i
    BY <2>3
  <2>5. out.buffer = <<>>
    BY <2>2 DEF none
  <2>6. out.pending <= MaxPendingAck /\ (out.writing <=> out.pending = MaxPendingAck) /\ Len(out.buffer) < source.next
    BY <2>1, <2>2, <2>3
  <2> QED BY <1>1, <2>1, <2>2, <2>4, <2>5, <2>6 DEF OutputOK
<1>6. ItemsInOrder(input) /\ Queue(input) = 0
  <2>1. Queue(input) = 0
    BY <1>1, <1>3 DEF Queue
  <2> QED BY <1>1, <1>2, <1>3, <2>1 DEF ItemsInOrder
<1>7. InputOK
  BY <1>1, <1>2, <1>6 DEF InputOK
<1>8. InOrder
  <2>1. Untouched
    BY <1>1 DEF Untouched
  <2>2. ~AnswerOnItsWay /\ ~Has(out.wire, "end") /\ 1 .. Len(out.wire) = {}
    BY <1>1, <1>3, HasNone DEF AnswerOnItsWay
  <2>3. Chain(out.wire, Queue(input) + 1, ToSend(out, source.next))
    <3>1. ToSend(out, source.next) = 1
      BY <1>1, <1>3 DEF ToSend
    <3>2. Chain(none, 1, 1)
      BY <1>2, ChainEmpty
    <3> QED BY <1>1, <1>6, <3>1, <3>2
  <2>4. Len(toServer) = 1
    BY <1>1
  <2> QED BY <1>1, <2>1, <2>2, <2>3, <2>4 DEF InOrder
<1>9. Registered
  <2>1. ~Has(toServer, "hangup") /\ ~AnswerOnItsWay
    BY <1>1, <1>3, HasNone DEF AnswerOnItsWay, Has
  <2> QED BY <1>1, <2>1 DEF Registered
<1> QED BY <1>4, <1>5, <1>7, <1>8, <1>9 DEF StreamInv

\* Whatever step is taken.
LEMMA StepPreserves == StreamInv /\ [RpNext]_rpVars => StreamInv'
<1> SUFFICES ASSUME StreamInv, [RpNext]_rpVars PROVE StreamInv'
  OBVIOUS
<1>1. CASE Deliver
  BY <1>1, OnCallKeeps, ReceiveAnswerKeeps, ReceiveAckKeeps, ReceiveHangupKeeps, ReceiveDataKeeps,
     ReceiveEndPreserves, ReceiveErrorKeeps DEF Deliver
<1>2. CASE Timer
  BY <1>2, CallTimesOutKeeps, AckTimesOutKeeps DEF Timer
<1>3. CASE Produce \/ SourceEnds \/ SourceFails
  BY <1>3, ProduceKeeps, SourceEndsKeeps, SourceFailsKeeps
<1>4. CASE Read \/ Destroy \/ Disconnect
  BY <1>4, ReadKeeps, DestroyKeeps, DisconnectKeeps
<1>5. CASE UNCHANGED rpVars
  <2>1. UNCHANGED <<outcome, call, source, out, input, toServer, local, remote, connected>>
    BY <1>5 DEF rpVars
  <2>2. StreamTypeOK' /\ OutputOK(out, source.next, source.state = "ended")' /\ InputOK'
    BY <2>1 DEF StreamInv, StreamTypeOK, OutputOK, InputOK, ItemsInOrder, Queue
  <2>3. /\ CallOnItsWay' = CallOnItsWay /\ AnswerOnItsWay' = AnswerOnItsWay /\ Expecting' = Expecting
        /\ Untouched' = Untouched
    BY <2>1 DEF CallOnItsWay, AnswerOnItsWay, Expecting, Untouched
  <2>4. InOrder'
    BY <2>1, <2>3 DEF StreamInv, InOrder, Queue
  <2>5. Registered'
    BY <2>1, <2>3 DEF StreamInv, Registered
  <2> QED BY <2>2, <2>4, <2>5 DEF StreamInv
<1> QED BY <1>1, <1>2, <1>3, <1>4, <1>5 DEF RpNext

\* The messages on the wire go on where what the client has queued ends, and end where what
\* the output still has to send begins; the call and its answer come before them.
THEOREM StreamInvariant == RpSafety => []StreamInv
<1> QED BY InitEstablishes, StepPreserves, PTL DEF RpSafety

\* The consumer gets the items of the source in order, each once and with none left out, and
\* is told of the end after the last one, however acknowledgements time out, streams are
\* destroyed, sources fail and sockets disconnect (SIOOutputStream, SIOInputStream).
THEOREM StreamsAreFaithful == RpSafety => []StreamIsFaithful
<1>1. StreamInv => StreamIsFaithful
  <2> SUFFICES ASSUME StreamInv PROVE StreamIsFaithful
    OBVIOUS
  <2> DEFINE all == [i \in 1 .. Items |-> i]
             got == input.got
             n == Len(got)
  <2>1. got \in Seq(1 .. Items) /\ n \in Nat /\ n <= Items /\ Items \in Nat
    BY FollowsType, RpcAssumption DEF Inputs, StreamInv, InputOK, ItemsInOrder
  <2>2. \A i \in 1 .. n : got[i] = i
    BY DEF StreamInv, InputOK, ItemsInOrder
  <2>3. all \in Seq(1 .. Items) /\ Len(all) = Items
    BY <2>1
  <2>4. IsPrefix(got, all)
    <3> HIDE DEF all
    <3>1. \A i \in 1 .. Items : all[i] = i
      BY DEF all
    <3>2. SubSeq(got, 1, n) = got
      BY <2>1
    <3>3. SubSeq(all, 1, n) \in Seq(1 .. Items) /\ Len(SubSeq(all, 1, n)) = n
          /\ \A i \in 1 .. n : SubSeq(all, 1, n)[i] = all[i]
      BY <2>1, <2>3
    <3>4. SubSeq(all, 1, n) = got
      BY <2>1, <2>2, <3>1, <3>3, SeqEqual
    <3> QED BY <2>1, <2>3, <3>2, <3>4 DEF IsPrefix
  <2>5. input.over = "end" => source.state = "ended" /\ Len(input.got) = Items
    BY DEF StreamInv, InputOK
  <2> QED BY <2>4, <2>5 DEF StreamIsFaithful
<1> QED BY <1>1, StreamInvariant, PTL

\* The server forgets a stream when its source ends, fails or is destroyed, and the client when
\* its consumer destroys it. When the source has ended or was destroyed and nothing is on its
\* way, the client has forgotten it as well, unless it ended with an error: an end that the
\* client still waits for is on the wire, and so is the error of a source that was destroyed.
\* Nothing is sent of a source that fails: then the client keeps its end until it is destroyed.
THEOREM StreamsAreForgotten == RpSafety => []StreamsAreReleased
<1>1. StreamInv => StreamsAreReleased
  <2> SUFFICES ASSUME StreamInv PROVE StreamsAreReleased
    OBVIOUS
  <2>1. (local => source.state = "open") /\ (remote => ~input.destroyed)
    BY DEF StreamInv, Registered
  <2>2. ASSUME Quiet, source.state # "open", source.state # "failed", input.over # "error", remote
        PROVE  FALSE
    <3>1. out.wire = <<>> /\ out.unacked = {} /\ connected /\ Expecting
      BY <2>2 DEF Quiet, Expecting
    <3>2. ~Has(out.wire, "end") /\ ~Has(out.wire, "error")
      BY <3>1, HasNone
    <3>3. input.over \in {"no", "error", "end"} /\ input.over # "end" /\ input.over # "error"
      BY <2>2, FollowsType DEF Inputs, StreamInv, InputOK, Registered
    <3>4. source.state # "destroyed" /\ source.state # "none"
      BY <2>2, <3>1, <3>2, <3>3 DEF StreamInv, Registered
    <3>5. source.state = "ended"
      BY <2>2, <3>4, FollowsType DEF Sources
    <3>6. out.pending = 0 /\ MaxPendingAck # 0
      BY <3>1, FollowsType, FS_EmptySet, RpcAssumption DEF OutputOK
    <3>7. out.finished
      BY <3>5, <3>6, FollowsType DEF OutputOK
    <3> QED BY <3>1, <3>2, <3>7 DEF StreamInv, Registered
  <2> QED BY <2>1, <2>2 DEF StreamsAreReleased
<1> QED BY <1>1, StreamInvariant, PTL

-----------------------------------------------------------------------------
(* The bounds of the output. *)

\* Sending leaves what is buffered.
LEMMA BufferKept ==
  ASSUME NEW o, "buffer" \in DOMAIN o, NEW items, NEW msg
  PROVE  /\ "buffer" \in DOMAIN Emit(o, msg) /\ Emit(o, msg).buffer = o.buffer
         /\ "buffer" \in DOMAIN FinishIfDone(o) /\ FinishIfDone(o).buffer = o.buffer
         /\ "buffer" \in DOMAIN Writev(o, items) /\ Writev(o, items).buffer = o.buffer
<1>1. ASSUME NEW p, "buffer" \in DOMAIN p, NEW m
      PROVE  "buffer" \in DOMAIN Emit(p, m) /\ Emit(p, m).buffer = p.buffer
  BY <1>1 DEF Emit
<1>2. ASSUME NEW p, "buffer" \in DOMAIN p
      PROVE  "buffer" \in DOMAIN FinishIfDone(p) /\ FinishIfDone(p).buffer = p.buffer
  <2> DEFINE q == [p EXCEPT !.finished = TRUE]
  <2>1. "buffer" \in DOMAIN q /\ q.buffer = p.buffer
    BY <1>2
  <2>2. "buffer" \in DOMAIN Emit(q, [type |-> "end"]) /\ Emit(q, [type |-> "end"]).buffer = p.buffer
    BY <1>1, <2>1
  <2> QED BY <1>2, <2>2 DEF FinishIfDone
<1>3. "buffer" \in DOMAIN Writev(o, items) /\ Writev(o, items).buffer = o.buffer
  <2> DEFINE sent == Emit(o, [type |-> "data", items |-> items, id |-> o.packets + 1])
             q == [sent EXCEPT !.packets = @ + 1, !.unacked = @ \cup {o.packets + 1},
                               !.pending = @ + 1, !.writing = o.pending + 1 >= MaxPendingAck]
  <2>1. "buffer" \in DOMAIN sent /\ sent.buffer = o.buffer
    BY <1>1
  <2>2. "buffer" \in DOMAIN q /\ q.buffer = o.buffer
    <3> HIDE DEF sent
    <3> QED BY <2>1
  <2>3. Writev(o, items) = FinishIfDone(q)
    BY DEF Writev
  <2> HIDE DEF q
  <2> QED BY <1>2, <2>2, <2>3
<1> QED BY <1>1, <1>2, <1>3

\* The end of the wait for a packet empties the buffer, or leaves it.
LEMMA BufferEmptied ==
  ASSUME NEW o, "buffer" \in DOMAIN o, NEW id, NEW msg
  PROVE  /\ PacketDone(o, id).buffer \in {o.buffer, <<>>}
         /\ Emit(PacketDone(o, id), msg).buffer \in {o.buffer, <<>>}
<1> DEFINE free == [o EXCEPT !.writing = FALSE]
           empty == [o EXCEPT !.buffer = <<>>]
           next == IF o.pending = MaxPendingAck THEN WriteDone(o) ELSE o
           p == [next EXCEPT !.pending = @ - 1, !.unacked = @ \ {id}]
<1>1. /\ "buffer" \in DOMAIN free /\ free.buffer = o.buffer
      /\ "buffer" \in DOMAIN empty /\ empty.buffer = <<>>
  OBVIOUS
<1>2. "buffer" \in DOMAIN WriteDone(o) /\ WriteDone(o).buffer \in {o.buffer, <<>>}
  <2>1. WriteDone(o) = IF o.buffer = <<>> THEN FinishIfDone(free) ELSE Writev(empty, o.buffer)
    BY DEF WriteDone
  <2> HIDE DEF free, empty
  <2>2. "buffer" \in DOMAIN FinishIfDone(free) /\ FinishIfDone(free).buffer = o.buffer
    BY <1>1, BufferKept
  <2>3. "buffer" \in DOMAIN Writev(empty, o.buffer) /\ Writev(empty, o.buffer).buffer = <<>>
    BY <1>1, BufferKept
  <2> QED BY <2>1, <2>2, <2>3
<1>3. "buffer" \in DOMAIN next /\ next.buffer \in {o.buffer, <<>>}
  BY <1>2
<1>4. "buffer" \in DOMAIN p /\ p.buffer \in {o.buffer, <<>>}
  <2> HIDE DEF next
  <2> QED BY <1>3
<1>5. PacketDone(o, id) = p
  BY DEF PacketDone
<1> HIDE DEF p
<1> QED BY <1>4, <1>5, BufferKept

\* The buffer is never longer than the high water mark, and a call is answered once.
Bounded == Len(out.buffer) <= HighWaterMark /\ (answer # "none" => call # "sent")

\* Only the source fills the buffer, as long as there is room.
LEMMA BoundedKept == StreamInv /\ Bounded /\ [RpNext]_rpVars => Bounded'
<1> SUFFICES ASSUME StreamInv, Bounded, [RpNext]_rpVars PROVE Bounded'
  OBVIOUS
<1> DEFINE Kept == out'.buffer \in {out.buffer, <<>>}
<1>1. "buffer" \in DOMAIN out /\ out.buffer \in Seq(1 .. Items)
  BY FollowsType DEF Outputs
<1>2. HighWaterMark \in Nat \ {0}
  BY RpcAssumption
<1>3. CASE UNCHANGED <<call, answer>>
  <2>1. Kept => Bounded'
    BY <1>1, <1>2, <1>3 DEF Bounded
  <2>2. CASE Produce
    <3>1. CASE out.writing
      <4>1. /\ Len(out.buffer) < HighWaterMark /\ out' = [out EXCEPT !.buffer = Append(@, source.next)]
            /\ source.next \in 1 .. Items
        BY <2>2, <3>1, FollowsType, RpcAssumption DEF Produce, Eof
      <4>2. out'.buffer = Append(out.buffer, source.next)
        BY <1>1, <4>1
      <4> DEFINE n == Len(out.buffer)
      <4>3. Len(out'.buffer) = n + 1 /\ n \in Nat /\ n < HighWaterMark
        BY <1>1, <4>1, <4>2
      <4> HIDE DEF n
      <4>4. Len(out'.buffer) <= HighWaterMark
        BY <1>2, <4>3
      <4> QED BY <1>3, <4>4 DEF Bounded
    <3>2. CASE ~out.writing
      <4>1. out' = Writev(out, <<source.next>>)
        BY <2>2, <3>2 DEF Produce
      <4> QED BY <1>1, <2>1, <4>1, BufferKept
    <3> QED BY <3>1, <3>2
  <2>3. CASE SourceEnds
    <3> DEFINE o == [out EXCEPT !.ended = TRUE]
    <3>1. out' = FinishIfDone(o) /\ "buffer" \in DOMAIN o /\ o.buffer = out.buffer
      BY <1>1, <2>3 DEF SourceEnds
    <3> HIDE DEF o
    <3> QED BY <2>1, <3>1, BufferKept
  <2>4. CASE ReceiveAck
    <3>1. out' = PacketDone(out, Head(toServer).id) \/ out' = out
      BY <2>4 DEF ReceiveAck
    <3> QED BY <1>1, <2>1, <3>1, BufferEmptied
  <2>5. ASSUME NEW id \in out.unacked, AckTimesOut(id) PROVE Kept
    <3>1. out' = Emit(PacketDone(out, id), [type |-> "error"])
      BY <2>5 DEF AckTimesOut
    <3> QED BY <1>1, <3>1, BufferEmptied
  <2>6. CASE OnCall
    <3>1. out' = Emit(out, [type |-> "answer"])
      BY <2>6 DEF OnCall
    <3> QED BY <1>1, <2>1, <3>1, BufferKept
  <2>7. CASE ReceiveData \/ ReceiveEnd \/ ReceiveError
    BY <1>1, <2>1, <2>7 DEF ReceiveData, ReceiveEnd, ReceiveError, NextMessage
  <2>8. CASE Disconnect
    BY <1>1, <2>1, <2>8 DEF Disconnect
  <2>9. CASE ReceiveHangup \/ SourceFails \/ Read \/ Destroy \/ CallTimesOut \/ UNCHANGED rpVars
    BY <2>1, <2>9 DEF ReceiveHangup, SourceFails, Read, Destroy, CallTimesOut, rpVars
  <2>10. CASE ReceiveAnswer
    BY <1>1, <2>1, <2>10 DEF ReceiveAnswer
  <2> QED BY <2>1, <2>2, <2>3, <2>4, <2>5, <2>6, <2>7, <2>8, <2>9, <2>10 DEF RpNext, Deliver, Timer
<1>4. CASE ReceiveAnswer
  <2>1. out'.buffer = out.buffer /\ (answer' # "none" => call' # "sent")
    BY <1>1, <1>4 DEF ReceiveAnswer, Bounded
  <2> QED BY <2>1 DEF Bounded
<1>5. CASE CallTimesOut
  BY <1>5 DEF CallTimesOut, Bounded
<1>6. ReceiveAnswer \/ CallTimesOut \/ UNCHANGED <<call, answer>>
  BY DEF RpNext, Deliver, Timer, OnCall, ReceiveAck, ReceiveHangup, ReceiveData, ReceiveEnd,
     ReceiveError, AckTimesOut, Produce, SourceEnds, SourceFails, Read, Destroy, Disconnect, rpVars
<1> QED BY <1>3, <1>4, <1>5, <1>6

\* nPendingAck is the number of packets that are not acknowledged, and never more than
\* maxPendingAck, whatever acknowledgements come after their timeout.
THEOREM RpTypeCorrect == RpSafety => []RpTypeOK
<1>1. RpInit => Bounded
  BY RpcAssumption DEF RpInit, Bounded
<1>2. StreamInv /\ Bounded => RpTypeOK
  <2> SUFFICES ASSUME StreamInv, Bounded PROVE RpTypeOK
    OBVIOUS
  <2>1. out.pending = Cardinality(out.unacked) /\ out.pending \in 0 .. MaxPendingAck
    BY FollowsType, RpcAssumption DEF OutputOK, Outputs
  <2>2. out.finished => out.ended /\ out.buffer = <<>>
    BY FollowsType DEF OutputOK
  <2> QED BY <2>1, <2>2 DEF RpTypeOK, Bounded, StreamInv, Registered
<1> QED BY <1>1, <1>2, BoundedKept, StreamInvariant, PTL DEF RpSafety

-----------------------------------------------------------------------------
(* What a turn of the KMIP client keeps.                                   *)

\* A request of a call or of the handshake of a socket.
Request == [of : KmipCalls \cup Nat, step : Nat]

\* The requests that ticks send; a tick that reports an error sends none.
TickRequests(ticks) ==
    [i \in DOMAIN ticks |-> IF "error" \in DOMAIN ticks[i] THEN [of |-> 0, step |-> 0]
                            ELSE ticks[i].request]

IsTick(tick) ==
    \/ DOMAIN tick = {"error"}
    \/ "error" \notin DOMAIN tick /\ tick.request \in Request

\* A request of a call that waits: its steps before were answered, in order, and the call
\* was not unless the request comes after the step that answers it.
Due(r, x) ==
    /\ x.result # "none"
    /\ r.step = Len(x.proof) + 1
    /\ r.step <= Len(Steps(KindOf[r.of]))
    /\ r.step <= AnswerStep(KindOf[r.of]) => x.answers = 0

\* What is known of a call: how often it was answered, and by which responses.
ResultOK(c, x) ==
    /\ x = [answers |-> x.answers, result |-> x.result, proof |-> x.proof]
    /\ x.answers \in {0, 1}
    /\ x.proof \in Seq([of : {c}, step : Nat])
    /\ \A i \in DOMAIN x.proof : x.proof[i] = [of |-> c, step |-> i]
    /\ x.result = "none" => x.answers = 0 /\ x.proof = <<>>
    /\ x.result = "success" => x.answers = 1 /\ Len(x.proof) >= AnswerStep(KindOf[c])

\* The results of all calls.
ResultsOK(R) ==
    /\ R = [c \in KmipCalls |-> R[c]]
    /\ \A c \in KmipCalls : ResultOK(c, R[c])

\* The queue s holds a request of c.
Holds(s, c) == \E i \in DOMAIN s : s[i].of = c

\* A queue: the requests of calls in it are due, and each call has one of them at most.
Good(s, R) ==
    /\ s \in Seq(Request)
    /\ \A i \in DOMAIN s : s[i].of \in KmipCalls =>
        /\ Due(s[i], R[s[i].of])
        /\ \A j \in DOMAIN s : s[j].of = s[i].of => i = j

\* No call has a request in both queues.
Apart(s, u) == \A c \in KmipCalls : ~(Holds(s, c) /\ Holds(u, c))

\* A record of a turn.
IsTurn(t) == t = [socket |-> t.socket, conv |-> t.conv, pipeline |-> t.pipeline,
                  defered |-> t.defered, drained |-> t.drained,
                  ticks |-> t.ticks, results |-> t.results]

\* The ticks of a turn.
TicksOK(ticks) ==
    /\ ticks \in Seq(Range(ticks))
    /\ \A i \in DOMAIN ticks : IsTick(ticks[i])

\* A turn that is well typed.
TurnType(t) ==
    /\ IsTurn(t)
    /\ t.pipeline \in Seq(Request)
    /\ t.defered \in Seq(Request)
    /\ TicksOK(t.ticks)
    /\ ResultsOK(t.results)

\* The invariant: the requests that wait are due, and a call has one of them at most.
TurnOK(t) ==
    /\ TurnType(t)
    /\ Good(t.pipeline, t.results)
    /\ Good(t.defered, t.results)
    /\ Good(TickRequests(t.ticks), t.results)
    /\ Apart(t.pipeline, t.defered)
    /\ Apart(t.pipeline, TickRequests(t.ticks))
    /\ Apart(t.defered, TickRequests(t.ticks))

KmInv == TurnOK(CurrentTurn)

\* A request of c waits.
Waits(t, c) ==
    Holds(t.pipeline, c) \/ Holds(t.defered, c) \/ Holds(TickRequests(t.ticks), c)
\* A set of natural numbers that is not empty has a least element: what stands for induction
\* here.
LEMMA KmLeastNumber ==
    ASSUME NEW T \in SUBSET Nat, T # {}
    PROVE  \E i \in T : \A j \in T : i <= j
<1>1. IsWellFoundedOn(OpToRel(<, Nat), Nat)
  BY NatLessThanWellFounded
<1>2. PICK i \in T : \A j \in T : ~ (<<j, i>> \in OpToRel(<, Nat))
  BY <1>1, WFMin
<1>3. ASSUME NEW j \in T PROVE i <= j
  <2>1. ~(j < i)
    BY <1>2 DEF OpToRel
  <2> QED BY <2>1
<1> QED BY <1>3

\* The queue s may have become u: what was added at its end is no request of a call.
Grown(s, u) ==
    /\ u \in Seq(Request)
    /\ \A i \in DOMAIN u : u[i].of \in KmipCalls => i \in DOMAIN s /\ u[i] = s[i]

\* A request that is no call's, put at the end.
LEMMA GrownAppend ==
    ASSUME NEW s \in Seq(Request), NEW r \in Request, r.of \notin KmipCalls
    PROVE  Grown(s, Append(s, r))
<1>1. /\ Append(s, r) \in Seq(Request)
      /\ DOMAIN Append(s, r) = 1 .. Len(s) + 1 /\ DOMAIN s = 1 .. Len(s) /\ Len(s) \in Nat
      /\ \A i \in 1 .. Len(s) : Append(s, r)[i] = s[i]
      /\ Append(s, r)[Len(s) + 1] = r
  BY AppendProperties, LenProperties
<1> QED BY <1>1 DEF Grown

\* A queue to which nothing was added.
LEMMA GrownSame ==
    ASSUME NEW s \in Seq(Request)
    PROVE  Grown(s, s)
  BY DEF Grown

\* A queue that grew twice.
LEMMA GrownTwice ==
    ASSUME NEW s, NEW u, NEW v, Grown(s, u), Grown(u, v)
    PROVE  Grown(s, v)
  BY DEF Grown

\* What a queue that has grown holds of the calls, it held before.
LEMMA GrownGood ==
    ASSUME NEW s, NEW u, NEW R, NEW Q, Good(s, R), Grown(s, u),
           \A c \in KmipCalls : Holds(s, c) => Q[c] = R[c]
    PROVE  Good(u, Q) /\ \A c \in KmipCalls : Holds(u, c) => Holds(s, c)
<1>1. \A c \in KmipCalls : Holds(u, c) => Holds(s, c)
  BY DEF Grown, Holds
<1>2. u \in Seq(Request)
  BY DEF Grown
<1>3. ASSUME NEW i \in DOMAIN u, u[i].of \in KmipCalls
      PROVE  Due(u[i], Q[u[i].of]) /\ \A j \in DOMAIN u : u[j].of = u[i].of => i = j
  <2>1. i \in DOMAIN s /\ u[i] = s[i]
    BY <1>3 DEF Grown
  <2>2. Due(s[i], R[s[i].of]) /\ \A j \in DOMAIN s : s[j].of = s[i].of => i = j
    BY <1>3, <2>1 DEF Good
  <2>3. Q[s[i].of] = R[s[i].of]
    BY <1>3, <2>1 DEF Holds
  <2>4. ASSUME NEW j \in DOMAIN u, u[j].of = u[i].of PROVE i = j
    <3>1. j \in DOMAIN s /\ u[j] = s[j]
      BY <1>3, <2>4 DEF Grown
    <3> QED BY <2>1, <2>2, <2>4, <3>1
  <2> QED BY <2>1, <2>2, <2>3, <2>4
<1> QED BY <1>1, <1>2, <1>3 DEF Good

\* A request put at the end of a queue that holds no other one of its call.
LEMMA GoodAppend ==
    ASSUME NEW s, NEW R, Good(s, R), NEW r \in Request,
           r.of \in KmipCalls => ~Holds(s, r.of) /\ Due(r, R[r.of])
    PROVE  /\ Good(Append(s, r), R)
           /\ \A c : Holds(Append(s, r), c) <=> Holds(s, c) \/ r.of = c
<1> DEFINE u == Append(s, r)
<1>0. s \in Seq(Request)
  BY DEF Good
<1>1. /\ u \in Seq(Request)
      /\ DOMAIN u = 1 .. Len(s) + 1 /\ DOMAIN s = 1 .. Len(s) /\ Len(s) \in Nat
      /\ \A i \in 1 .. Len(s) : u[i] = s[i]
      /\ u[Len(s) + 1] = r
  BY <1>0, AppendProperties, LenProperties
<1> HIDE DEF u
<1>2. \A i \in DOMAIN u : (i \in DOMAIN s /\ u[i] = s[i]) \/ (i = Len(s) + 1 /\ u[i] = r)
  BY <1>1
<1>3. \A i \in DOMAIN s : i \in DOMAIN u /\ u[i] = s[i]
  BY <1>1
<1>4. Len(s) + 1 \in DOMAIN u /\ u[Len(s) + 1] = r
  BY <1>1
<1>5. \A c : Holds(u, c) <=> Holds(s, c) \/ r.of = c
  BY <1>2, <1>3, <1>4 DEF Holds
<1>6. ASSUME NEW i \in DOMAIN u, u[i].of \in KmipCalls
      PROVE  Due(u[i], R[u[i].of]) /\ \A j \in DOMAIN u : u[j].of = u[i].of => i = j
  <2>1. CASE i \in DOMAIN s /\ u[i] = s[i]
    <3>1. Due(s[i], R[s[i].of]) /\ \A j \in DOMAIN s : s[j].of = s[i].of => i = j
      BY <1>6, <2>1 DEF Good
    <3>2. r.of # u[i].of
      BY <1>6, <2>1 DEF Holds
    <3> QED BY <1>2, <2>1, <3>1, <3>2
  <2>2. CASE i = Len(s) + 1 /\ u[i] = r
    <3>1. \A j \in DOMAIN s : s[j].of # r.of
      BY <1>6, <2>2 DEF Holds
    <3> QED BY <1>2, <1>6, <2>2, <3>1
  <2> QED BY <1>2, <2>1, <2>2
<1> QED BY <1>1, <1>5, <1>6 DEF Good, u

\* The first request of a queue is the only one of its call.
LEMMA GoodTail ==
    ASSUME NEW s, NEW R, Good(s, R), s # <<>>
    PROVE  /\ Good(Tail(s), R)
           /\ \A c : Holds(Tail(s), c) => Holds(s, c)
           /\ Head(s) \in Request
           /\ Holds(s, Head(s).of)
           /\ Head(s).of \in KmipCalls =>
                ~Holds(Tail(s), Head(s).of) /\ Due(Head(s), R[Head(s).of])
<1> DEFINE u == Tail(s)
           r == Head(s)
<1>0. s \in Seq(Request)
  BY DEF Good
<1>1. /\ u \in Seq(Request) /\ r \in Request
      /\ DOMAIN u = 1 .. Len(s) - 1 /\ DOMAIN s = 1 .. Len(s) /\ Len(s) \in Nat
      /\ \A i \in DOMAIN u : u[i] = s[i + 1]
      /\ r = s[1]
  <2>1. /\ u \in Seq(Request) /\ Len(u) = Len(s) - 1 /\ r \in Request
        /\ \A i \in 1 .. Len(u) : u[i] = s[i + 1]
        /\ r = s[1]
    BY <1>0, HeadTailProperties
  <2>2. DOMAIN u = 1 .. Len(u) /\ DOMAIN s = 1 .. Len(s) /\ Len(s) \in Nat
    BY <1>0, <2>1, LenProperties
  <2> QED BY <2>1, <2>2
<1>2. Len(s) # 0
  BY <1>0, EmptySeq
<1> HIDE DEF u, r
<1>3. 1 \in DOMAIN s /\ \A i \in DOMAIN u : i + 1 \in DOMAIN s /\ i + 1 # 1 /\ u[i] = s[i + 1]
  BY <1>1, <1>2
<1>4. \A i, j \in DOMAIN u : i + 1 = j + 1 => i = j
  BY <1>1
<1>5. \A c : Holds(u, c) => Holds(s, c)
  BY <1>3 DEF Holds
<1>6. Holds(s, r.of) /\ (r.of \in KmipCalls => ~Holds(u, r.of) /\ Due(r, R[r.of]))
  BY <1>1, <1>3 DEF Holds, Good
<1>7. Good(u, R)
  BY <1>1, <1>3, <1>4 DEF Good
<1> QED BY <1>1, <1>5, <1>6, <1>7 DEF u, r

\* An empty queue.
LEMMA GoodEmpty ==
    ASSUME NEW R
    PROVE  <<>> \in Seq(Request) /\ Good(<<>>, R) /\ \A c : ~Holds(<<>>, c)
<1>1. DOMAIN <<>> = {} /\ <<>> \in Seq(Request)
  BY EmptySeq
<1> QED BY <1>1 DEF Good, Holds
-----------------------------------------------------------------------------
(* The ticks.                                                              *)

\* A sequence is one of the elements that it has.
LEMMA RangeSequence ==
    ASSUME NEW S, NEW s \in Seq(S)
    PROVE  s \in Seq(Range(s)) /\ DOMAIN s = 1 .. Len(s) /\ Len(s) \in Nat
<1>1. s = [i \in 1 .. Len(s) |-> s[i]] /\ Len(s) \in Nat /\ DOMAIN s = 1 .. Len(s)
  BY LenProperties
<1>2. \A i \in 1 .. Len(s) : s[i] \in Range(s)
  BY <1>1 DEF Range
<1>3. s \in [1 .. Len(s) -> Range(s)]
  BY <1>1, <1>2
<1> QED BY <1>1, <1>3

\* The requests of the ticks are a sequence, one for each tick.
LEMMA TickTypes ==
    ASSUME NEW ticks, TicksOK(ticks)
    PROVE  /\ TickRequests(ticks) \in Seq(Request)
           /\ DOMAIN TickRequests(ticks) = DOMAIN ticks
           /\ DOMAIN ticks = 1 .. Len(ticks)
           /\ Len(ticks) \in Nat
<1>1. DOMAIN ticks = 1 .. Len(ticks) /\ Len(ticks) \in Nat
  BY RangeSequence DEF TicksOK
<1>2. ASSUME NEW i \in DOMAIN ticks
      PROVE  (IF "error" \in DOMAIN ticks[i] THEN [of |-> 0, step |-> 0]
              ELSE ticks[i].request) \in Request
  BY <1>2 DEF TicksOK, IsTick, Request
<1>3. TickRequests(ticks) \in [1 .. Len(ticks) -> Request]
  BY <1>1, <1>2 DEF TickRequests
<1> QED BY <1>1, <1>3

\* A tick at the end of the others.
LEMMA TickAppend ==
    ASSUME NEW ticks, TicksOK(ticks), NEW tick, IsTick(tick)
    PROVE  /\ TicksOK(Append(ticks, tick))
           /\ TickRequests(Append(ticks, tick)) =
                Append(TickRequests(ticks),
                       IF "error" \in DOMAIN tick THEN [of |-> 0, step |-> 0] ELSE tick.request)
<1> DEFINE u == Append(ticks, tick)
           S == Range(ticks) \cup {tick}
           Sent(x) == IF "error" \in DOMAIN x THEN [of |-> 0, step |-> 0] ELSE x.request
           q == TickRequests(ticks)
<1>1. ticks \in Seq(S) /\ tick \in S
  <2>1. ticks \in Seq(Range(ticks)) /\ Range(ticks) \subseteq S
    BY DEF TicksOK
  <2> HIDE DEF S
  <2>2. ticks \in Seq(S)
    BY <2>1
  <2> QED BY <2>2 DEF S
<1>2. /\ u \in Seq(S) /\ Len(u) = Len(ticks) + 1
      /\ \A i \in 1 .. Len(ticks) : u[i] = ticks[i]
      /\ u[Len(ticks) + 1] = tick
  <2> HIDE DEF S
  <2> QED BY <1>1, AppendProperties
<1>3. u \in Seq(Range(u)) /\ DOMAIN u = 1 .. Len(u)
  <2> HIDE DEF S, u
  <2> QED BY <1>2, RangeSequence
<1>4. q \in Seq(Request) /\ DOMAIN q = 1 .. Len(ticks) /\ Len(ticks) \in Nat /\ DOMAIN ticks = DOMAIN q
  BY TickTypes
<1>5. Len(q) = Len(ticks)
  BY <1>4, LenProperties
<1> HIDE DEF S, u
<1>6. \A i \in DOMAIN u : IsTick(u[i])
  <2>1. \A i \in DOMAIN u : (i \in DOMAIN ticks /\ u[i] = ticks[i]) \/ u[i] = tick
    BY <1>2, <1>3, <1>4
  <2> QED BY <2>1 DEF TicksOK
<1>7. Sent(tick) \in Request
  BY DEF IsTick, Request
<1> DEFINE v == Append(q, Sent(tick))
<1>8. /\ v \in Seq(Request) /\ Len(v) = Len(ticks) + 1
      /\ \A i \in 1 .. Len(ticks) : v[i] = q[i]
      /\ v[Len(ticks) + 1] = Sent(tick)
  <2> HIDE DEF Sent, q
  <2> QED BY <1>4, <1>5, <1>7, AppendProperties
<1>9. v = [i \in 1 .. Len(ticks) + 1 |-> v[i]]
  <2> HIDE DEF v
  <2> QED BY <1>8, LenProperties
<1>10. TickRequests(u) = [i \in 1 .. Len(ticks) + 1 |-> Sent(u[i])]
  BY <1>2, <1>3 DEF TickRequests
<1>11. \A i \in 1 .. Len(ticks) : q[i] = Sent(ticks[i])
  BY <1>4 DEF TickRequests
<1> HIDE DEF v, q, Sent
<1>12. \A i \in 1 .. Len(ticks) + 1 : v[i] = Sent(u[i])
  BY <1>2, <1>4, <1>8, <1>11
<1>13. TickRequests(u) = v
  BY <1>9, <1>10, <1>12
<1> QED BY <1>3, <1>6, <1>13 DEF TicksOK, u, v, q, Sent

\* The first tick is taken away.
LEMMA TickTail ==
    ASSUME NEW ticks, TicksOK(ticks), ticks # <<>>
    PROVE  /\ TicksOK(Tail(ticks))
           /\ TickRequests(ticks) # <<>>
           /\ TickRequests(Tail(ticks)) = Tail(TickRequests(ticks))
           /\ IsTick(Head(ticks))
           /\ Head(TickRequests(ticks)) =
                IF "error" \in DOMAIN Head(ticks) THEN [of |-> 0, step |-> 0]
                ELSE Head(ticks).request
<1> DEFINE u == Tail(ticks)
           Sent(x) == IF "error" \in DOMAIN x THEN [of |-> 0, step |-> 0] ELSE x.request
           q == TickRequests(ticks)
           S == Range(ticks)
<1>1. ticks \in Seq(S)
  BY DEF TicksOK
<1>2. /\ u \in Seq(S) /\ Len(u) = Len(ticks) - 1
      /\ \A i \in 1 .. Len(u) : u[i] = ticks[i + 1]
      /\ Head(ticks) = ticks[1]
  <2> HIDE DEF S
  <2> QED BY <1>1, HeadTailProperties
<1>3. u \in Seq(Range(u)) /\ DOMAIN u = 1 .. Len(u) /\ Len(u) \in Nat
  <2> HIDE DEF S, u
  <2> QED BY <1>2, RangeSequence
<1>4. q \in Seq(Request) /\ DOMAIN q = 1 .. Len(ticks) /\ Len(ticks) \in Nat /\ DOMAIN ticks = DOMAIN q
  BY TickTypes
<1>5. Len(q) = Len(ticks) /\ Len(ticks) # 0
  <2>1. Len(q) = Len(ticks)
    BY <1>4, LenProperties
  <2>2. Len(ticks) # 0
    <3> HIDE DEF S
    <3> QED BY <1>1, EmptySeq
  <2> QED BY <2>1, <2>2
<1> HIDE DEF S, u
<1>6. \A i \in DOMAIN u : i + 1 \in DOMAIN ticks /\ u[i] = ticks[i + 1]
  BY <1>2, <1>3, <1>4
<1>7. TicksOK(u) /\ IsTick(Head(ticks))
  <2>1. 1 \in DOMAIN ticks
    BY <1>4, <1>5
  <2> QED BY <1>2, <1>3, <1>6, <2>1 DEF TicksOK
<1>8. q # <<>>
  BY <1>4, <1>5, EmptySeq
<1> DEFINE v == Tail(q)
<1>9. /\ v \in Seq(Request) /\ Len(v) = Len(ticks) - 1
      /\ \A i \in 1 .. Len(v) : v[i] = q[i + 1]
      /\ Head(q) = q[1]
  <2> HIDE DEF q
  <2> QED BY <1>4, <1>5, <1>8, HeadTailProperties
<1>10. \A i \in 1 .. Len(ticks) : q[i] = Sent(ticks[i])
  BY <1>4 DEF TickRequests
<1>11. Head(q) = Sent(Head(ticks))
  BY <1>2, <1>4, <1>5, <1>9, <1>10
<1>12. v = [i \in 1 .. Len(u) |-> v[i]]
  <2> HIDE DEF v
  <2> QED BY <1>2, <1>9, LenProperties
<1>13. TickRequests(u) = [i \in 1 .. Len(u) |-> Sent(u[i])]
  BY <1>3 DEF TickRequests
<1> HIDE DEF v, q, Sent
<1>14. \A i \in 1 .. Len(u) : v[i] = Sent(u[i])
  BY <1>2, <1>3, <1>4, <1>6, <1>9, <1>10
<1>15. TickRequests(u) = v
  BY <1>12, <1>13, <1>14
<1> QED BY <1>7, <1>8, <1>11, <1>15 DEF u, v, q, Sent
-----------------------------------------------------------------------------
(* What is sent.                                                           *)

\* The ticks s, or with one more that reports an error.
Ticked(s, u) == u = s \/ \E x : DOMAIN x = {"error"} /\ u = Append(s, x)

\* The turn u may come of t by what a socket did.
Kept(t, u) ==
    /\ IsTurn(u)
    /\ u.pipeline = t.pipeline
    /\ u.defered = t.defered
    /\ u.results = t.results
    /\ Ticked(t.ticks, u.ticks)

\* The turn u may come of t by sending r.
Put(t, u, r) ==
    /\ IsTurn(u)
    /\ u.results = t.results
    /\ Ticked(t.ticks, u.ticks)
    /\ \/ u.pipeline = Append(t.pipeline, r) /\ u.defered = t.defered
       \/ u.pipeline = t.pipeline /\ u.defered = Append(t.defered, r)

\* Writing to a socket leaves the queues and the results as they are; it may add a tick.
LEMMA WriteToKept ==
    ASSUME NEW t, IsTurn(t), NEW n, NEW r
    PROVE  Kept(t, WriteTo(t, n, r))
<1> DEFINE written == [t.conv EXCEPT ![n].wire = Append(@, r)]
           closed == [t.conv EXCEPT ![n].state = "destroyed", ![n].wire = <<>>]
           tick == [error |-> n]
<1>1. CASE t.conv[n].state \in {"connecting", "open"}
  <2>1. WriteTo(t, n, r) = [t EXCEPT !.conv = written]
    BY <1>1, Zenon DEF WriteTo
  <2> HIDE DEF written
  <2> QED BY <2>1 DEF Kept, Ticked, IsTurn
<1>2. CASE t.conv[n].state = "ending"
  <2>1. WriteTo(t, n, r) = [t EXCEPT !.conv = closed, !.ticks = Append(@, tick)]
    BY <1>2, ZenonT(40) DEF WriteTo
  <2>2. DOMAIN tick = {"error"}
    OBVIOUS
  <2> HIDE DEF closed, tick
  <2> QED BY <2>1, <2>2 DEF Kept, Ticked, IsTurn
<1>3. CASE t.conv[n].state \notin {"connecting", "open", "ending"}
  BY <1>3 DEF WriteTo, Kept, Ticked
<1> QED BY <1>1, <1>2, <1>3

\* Ending a socket does, too.
LEMMA EndSocketKept ==
    ASSUME NEW t, IsTurn(t), NEW n
    PROVE  Kept(t, EndSocket(t, n))
<1> DEFINE ended == [t.conv EXCEPT ![n].state = "ending"]
<1>1. EndSocket(t, n) = t \/ EndSocket(t, n) = [t EXCEPT !.conv = ended]
  BY Zenon DEF EndSocket
<1> HIDE DEF ended
<1> QED BY <1>1 DEF Kept, Ticked, IsTurn

\* The pipeline of a turn is set.
LEMMA WithPipeline ==
    ASSUME NEW t, IsTurn(t), NEW p
    PROVE  LET u == [t EXCEPT !.pipeline = p]
           IN  /\ IsTurn(u) /\ u.pipeline = p /\ u.defered = t.defered
               /\ u.results = t.results /\ u.ticks = t.ticks
  BY DEF IsTurn

\* The fields of a turn that the callbacks see, when another one is set.
Same(t, u) ==
    /\ IsTurn(u) /\ u.pipeline = t.pipeline /\ u.defered = t.defered
    /\ u.results = t.results /\ u.ticks = t.ticks

\* The socket of a turn and the sockets' states are set.
LEMMA WithSocket ==
    ASSUME NEW t, IsTurn(t), NEW n, NEW k
    PROVE  Same(t, [t EXCEPT !.socket = n, !.conv = k])
<1> DEFINE s == [t EXCEPT !.socket = n]
           u == [s EXCEPT !.conv = k]
<1>1. [t EXCEPT !.socket = n, !.conv = k] = u
  BY DEF IsTurn
<1>2. Same(t, s)
  BY DEF Same, IsTurn
<1> HIDE DEF s
<1>3. Same(s, u)
  BY <1>2 DEF Same, IsTurn
<1> HIDE DEF u
<1>4. Same(t, u)
  BY <1>2, <1>3 DEF Same
<1> QED BY <1>1, <1>4

\* A request that is sent is put in a queue.
LEMMA SendPut ==
    ASSUME NEW t, IsTurn(t), NEW r
    PROVE  Put(t, SendRequest(t, r), r)
<1>1. CASE Len(t.pipeline) >= PipelineDepth
  BY <1>1 DEF SendRequest, Put, Ticked, IsTurn
<1>2. CASE ~(Len(t.pipeline) >= PipelineDepth)
  <2> DEFINE queued == [t EXCEPT !.pipeline = Append(@, r)]
             n == Min(Unused(queued))
             opened == [queued.conv EXCEPT ![n].state = "connecting"]
             created == [queued EXCEPT !.socket = n, !.conv = opened]
  <2>1. CreateConversation(queued) = created
    BY Zenon DEF CreateConversation
  <2>2. \E u \in {queued, created} : SendRequest(t, r) = WriteTo(u, u.socket, r)
    BY <1>2, <2>1 DEF SendRequest, DoSend
  <2>3. /\ IsTurn(queued) /\ queued.pipeline = Append(t.pipeline, r)
        /\ queued.defered = t.defered /\ queued.results = t.results /\ queued.ticks = t.ticks
    BY ONLY IsTurn(t), WithPipeline
  <2> HIDE DEF n, opened, queued
  <2>4. /\ IsTurn(created) /\ created.pipeline = Append(t.pipeline, r)
        /\ created.defered = t.defered /\ created.results = t.results
        /\ created.ticks = t.ticks
    <3>1. IsTurn(queued)
      BY <2>3
    <3>2. Same(queued, created)
      BY ONLY <3>1, WithSocket
    <3> HIDE DEF created
    <3> QED BY <2>3, <3>2 DEF Same
  <2> HIDE DEF created
  <2>5. PICK u \in {queued, created} : SendRequest(t, r) = WriteTo(u, u.socket, r)
    BY <2>2
  <2>6. Kept(u, SendRequest(t, r))
    BY <2>3, <2>4, <2>5, WriteToKept
  <2> QED BY <2>3, <2>4, <2>6 DEF Kept, Put
<1> QED BY <1>1, <1>2

-----------------------------------------------------------------------------
(* What a turn keeps.                                                      *)

\* A tick that reports an error adds no request of a call.
LEMMA TickedGrown ==
    ASSUME NEW s, TicksOK(s), NEW u, Ticked(s, u)
    PROVE  TicksOK(u) /\ Grown(TickRequests(s), TickRequests(u))
<1>1. TickRequests(s) \in Seq(Request)
  BY TickTypes
<1>2. CASE u = s
  BY <1>1, <1>2, GrownSame
<1>3. CASE u # s
  <2>1. PICK x : DOMAIN x = {"error"} /\ u = Append(s, x)
    BY <1>3 DEF Ticked
  <2> DEFINE none == [of |-> 0, step |-> 0]
  <2>2. IsTick(x) /\ "error" \in DOMAIN x
    BY <2>1 DEF IsTick
  <2>3. TicksOK(u) /\ TickRequests(u) = Append(TickRequests(s), none)
    BY <2>1, <2>2, TickAppend
  <2>4. none \in Request /\ none.of \notin KmipCalls
    BY KmipAssumption DEF Request
  <2> HIDE DEF none
  <2>5. Grown(TickRequests(s), Append(TickRequests(s), none))
    BY <1>1, <2>4, GrownAppend
  <2> QED BY <2>3, <2>5
<1> QED BY <1>2, <1>3

\* The turn u comes of t by callbacks of requests of the calls cs.
Moved(t, u, cs) ==
    /\ Grown(t.pipeline, u.pipeline)
    /\ Grown(t.defered, u.defered)
    /\ Grown(TickRequests(t.ticks), TickRequests(u.ticks))
    /\ \A c \in KmipCalls : c \notin cs => u.results[c] = t.results[c]

\* A turn in which nothing was called back.
LEMMA MovedSame ==
    ASSUME NEW t, TurnType(t), NEW cs
    PROVE  Moved(t, t, cs)
  BY TickTypes, GrownSame DEF Moved, TurnType

\* Callbacks after callbacks.
LEMMA MovedTwice ==
    ASSUME NEW t, NEW u, NEW v, NEW cs, NEW ds, Moved(t, u, cs), Moved(u, v, ds)
    PROVE  Moved(t, v, cs \cup ds)
  BY GrownTwice DEF Moved

\* Callbacks of requests that no queue holds keep the invariant.
LEMMA MovedOK ==
    ASSUME NEW t, TurnOK(t), NEW u, TurnType(u), NEW cs, Moved(t, u, cs),
           \A c \in KmipCalls : Waits(t, c) => c \notin cs
    PROVE  TurnOK(u) /\ \A c \in KmipCalls : Waits(u, c) => Waits(t, c)
<1>1. \A c \in KmipCalls : Waits(t, c) => u.results[c] = t.results[c]
  BY DEF Moved
<1>2. /\ Good(u.pipeline, u.results)
      /\ \A c \in KmipCalls : Holds(u.pipeline, c) => Holds(t.pipeline, c)
  BY <1>1, GrownGood DEF TurnOK, Moved, Waits
<1>3. /\ Good(u.defered, u.results)
      /\ \A c \in KmipCalls : Holds(u.defered, c) => Holds(t.defered, c)
  BY <1>1, GrownGood DEF TurnOK, Moved, Waits
<1>4. /\ Good(TickRequests(u.ticks), u.results)
      /\ \A c \in KmipCalls :
            Holds(TickRequests(u.ticks), c) => Holds(TickRequests(t.ticks), c)
  <2>1. /\ Good(TickRequests(t.ticks), t.results)
        /\ Grown(TickRequests(t.ticks), TickRequests(u.ticks))
        /\ \A c \in KmipCalls : Holds(TickRequests(t.ticks), c) => u.results[c] = t.results[c]
    BY <1>1 DEF TurnOK, Moved, Waits
  <2> QED BY ONLY <2>1, GrownGood
<1> QED BY <1>2, <1>3, <1>4 DEF TurnOK, Apart, Waits

\* What a socket does.
LEMMA KeptOK ==
    ASSUME NEW t, TurnOK(t), NEW u, Kept(t, u)
    PROVE  TurnOK(u) /\ \A c \in KmipCalls : Waits(u, c) => Waits(t, c)
<1>1. TicksOK(u.ticks) /\ Grown(TickRequests(t.ticks), TickRequests(u.ticks))
  BY TickedGrown DEF Kept, TurnOK, TurnType
<1>2. TurnType(u)
  BY <1>1 DEF Kept, TurnOK, TurnType
<1>3. Moved(t, u, {})
  BY <1>1, GrownSame DEF Kept, Moved, TurnOK, TurnType
<1> QED BY <1>2, <1>3, MovedOK

\* A request that is no call's is sent.
LEMMA PutMoved ==
    ASSUME NEW t, TurnType(t), NEW r \in Request, r.of \notin KmipCalls, NEW u, Put(t, u, r)
    PROVE  TurnType(u) /\ Moved(t, u, {})
<1>1. TicksOK(u.ticks) /\ Grown(TickRequests(t.ticks), TickRequests(u.ticks))
  BY TickedGrown DEF Put, TurnType
<1>2. t.pipeline \in Seq(Request) /\ t.defered \in Seq(Request)
  BY DEF TurnType
<1>3. /\ Grown(t.pipeline, Append(t.pipeline, r)) /\ Grown(t.defered, Append(t.defered, r))
      /\ Grown(t.pipeline, t.pipeline) /\ Grown(t.defered, t.defered)
  BY <1>2, GrownAppend, GrownSame
<1>4. Grown(t.pipeline, u.pipeline) /\ Grown(t.defered, u.defered)
  BY <1>3 DEF Put
<1>5. u.pipeline \in Seq(Request) /\ u.defered \in Seq(Request)
  BY <1>4 DEF Grown
<1> QED BY <1>1, <1>4, <1>5 DEF Put, Moved, TurnType

\* The request r is in hand: no queue of t has another one of its call.
Hand(t, r) ==
    /\ TurnOK(t)
    /\ r \in Request
    /\ r.of \in KmipCalls => ~Waits(t, r.of) /\ Due(r, t.results[r.of])

\* A request that is in hand is sent.
LEMMA PutOK ==
    ASSUME NEW t, NEW r, Hand(t, r), NEW u, Put(t, u, r)
    PROVE  TurnOK(u)
<1>1. CASE r.of \notin KmipCalls
  BY <1>1, PutMoved, MovedOK DEF Hand, TurnOK
<1>2. CASE r.of \in KmipCalls
  <2>1. TicksOK(u.ticks) /\ Grown(TickRequests(t.ticks), TickRequests(u.ticks))
    BY TickedGrown DEF Put, Hand, TurnOK, TurnType
  <2>2. /\ Good(TickRequests(u.ticks), u.results)
        /\ \A c \in KmipCalls :
              Holds(TickRequests(u.ticks), c) => Holds(TickRequests(t.ticks), c)
    BY <2>1, GrownGood DEF Put, Hand, TurnOK
  <2>3. CASE u.pipeline = Append(t.pipeline, r) /\ u.defered = t.defered
    <3>1. /\ Good(u.pipeline, u.results)
          /\ \A c : Holds(u.pipeline, c) <=> Holds(t.pipeline, c) \/ r.of = c
      BY <2>3, GoodAppend DEF Put, Hand, TurnOK, Waits
    <3>2. u.pipeline \in Seq(Request)
      BY <3>1 DEF Good
    <3>3. TurnType(u)
      BY <2>1, <2>3, <3>2 DEF Put, Hand, TurnOK, TurnType
    <3> QED BY <1>2, <2>2, <2>3, <3>1, <3>3 DEF Put, Hand, TurnOK, Apart, Waits
  <2>4. CASE u.pipeline = t.pipeline /\ u.defered = Append(t.defered, r)
    <3>1. /\ Good(u.defered, u.results)
          /\ \A c : Holds(u.defered, c) <=> Holds(t.defered, c) \/ r.of = c
      BY <2>4, GoodAppend DEF Put, Hand, TurnOK, Waits
    <3>2. u.defered \in Seq(Request)
      BY <3>1 DEF Good
    <3>3. TurnType(u)
      BY <2>1, <2>4, <3>2 DEF Put, Hand, TurnOK, TurnType
    <3> QED BY <1>2, <2>2, <2>4, <3>1, <3>3 DEF Put, Hand, TurnOK, Apart, Waits
  <2> QED BY <2>3, <2>4 DEF Put
<1> QED BY <1>1, <1>2
-----------------------------------------------------------------------------
(* The answers.                                                            *)

\* The results R when c has been answered by x.
GivenAnswer(R, c, x) ==
    [d \in KmipCalls |->
        IF d = c THEN [answers |-> R[c].answers + 1, result |-> x, proof |-> R[c].proof]
        ELSE R[d]]

\* The turn t with the results Q.
WithResults(t, Q) ==
    [socket |-> t.socket, conv |-> t.conv, pipeline |-> t.pipeline, defered |-> t.defered,
     drained |-> t.drained, ticks |-> t.ticks, results |-> Q]

\* The results of a turn are set.
LEMMA SetResults ==
    ASSUME NEW t, IsTurn(t), NEW Q
    PROVE  [t EXCEPT !.results = Q] = WithResults(t, Q)
  BY DEF IsTurn, WithResults

\* What the answer of a call does to a turn.
LEMMA AnswerFields ==
    ASSUME NEW t, IsTurn(t), ResultsOK(t.results), NEW c \in KmipCalls, NEW x
    PROVE  AnswerCall(t, c, x) = WithResults(t, GivenAnswer(t.results, c, x))
<1> DEFINE R == t.results
           counted == [R EXCEPT ![c].answers = @ + 1]
           given == [counted EXCEPT ![c].result = x]
           s == [t EXCEPT !.results = counted]
<1>1. AnswerCall(t, c, x) = [s EXCEPT !.results[c].result = x]
  BY DEF AnswerCall, IsTurn
<1>2. s = WithResults(t, counted)
  BY SetResults
<1> HIDE DEF s, counted
<1>3. IsTurn(s) /\ s.results = counted
  BY <1>2 DEF IsTurn, WithResults
<1>4. [s EXCEPT !.results[c].result = x] = [s EXCEPT !.results = given]
  BY <1>3
<1>5. [s EXCEPT !.results = given] = WithResults(s, given)
  BY <1>3, SetResults
<1>6. WithResults(s, given) = WithResults(t, given)
  BY <1>2 DEF WithResults
<1>7. given = GivenAnswer(R, c, x)
  <2>1. /\ R = [d \in KmipCalls |-> R[d]]
        /\ R[c] = [answers |-> R[c].answers, result |-> R[c].result, proof |-> R[c].proof]
    BY DEF ResultsOK, ResultOK
  <2>2. counted = [d \in KmipCalls |->
                    IF d = c THEN [answers |-> R[c].answers + 1, result |-> R[c].result,
                                   proof |-> R[c].proof]
                    ELSE R[d]]
    <3> HIDE DEF R
    <3> QED BY <2>1 DEF counted
  <2>3. /\ counted = [d \in KmipCalls |-> counted[d]]
        /\ \A d \in KmipCalls : d # c => counted[d] = R[d]
        /\ counted[c] = [answers |-> R[c].answers + 1, result |-> R[c].result,
                         proof |-> R[c].proof]
    BY <2>2
  <2> HIDE DEF R
  <2> QED BY <2>3 DEF GivenAnswer
<1> QED BY <1>1, <1>4, <1>5, <1>6, <1>7

\* A call that was not answered yet may be, with an error or with enough proof.
LEMMA AnswersOK ==
    ASSUME NEW R, ResultsOK(R), NEW c \in KmipCalls, NEW x \in {"error", "success"},
           R[c].answers = 0, R[c].result # "none",
           x = "success" => Len(R[c].proof) >= AnswerStep(KindOf[c])
    PROVE  /\ ResultsOK(GivenAnswer(R, c, x))
           /\ \A d \in KmipCalls : d # c => GivenAnswer(R, c, x)[d] = R[d]
           /\ GivenAnswer(R, c, x)[c] = [answers |-> 1, result |-> x, proof |-> R[c].proof]
<1> DEFINE Q == GivenAnswer(R, c, x)
<1>1. /\ Q = [d \in KmipCalls |-> Q[d]]
      /\ \A d \in KmipCalls : d # c => Q[d] = R[d]
      /\ Q[c] = [answers |-> 1, result |-> x, proof |-> R[c].proof]
  BY DEF GivenAnswer
<1> HIDE DEF Q
<1>2. /\ Q[c].answers = 1 /\ Q[c].result = x /\ Q[c].proof = R[c].proof
      /\ Q[c] = [answers |-> Q[c].answers, result |-> Q[c].result, proof |-> Q[c].proof]
  BY <1>1
<1>3. ResultOK(c, R[c])
  BY DEF ResultsOK
<1>4. ResultOK(c, Q[c])
  BY <1>2, <1>3 DEF ResultOK
<1>5. \A d \in KmipCalls : ResultOK(d, Q[d])
  BY <1>1, <1>4 DEF ResultsOK
<1> QED BY <1>1, <1>5 DEF Q, ResultsOK

\* The fields of a turn whose results are set.
LEMMA WithResultsFields ==
    ASSUME NEW t, NEW Q
    PROVE  LET u == WithResults(t, Q)
           IN  /\ IsTurn(u) /\ u.pipeline = t.pipeline /\ u.defered = t.defered
               /\ u.ticks = t.ticks /\ u.results = Q
  BY DEF IsTurn, WithResults

-----------------------------------------------------------------------------
(* What fails.                                                             *)

\* The callback of a request that fails answers its call, or sends the last request of the
\* handshake.
LEMMA FailStep ==
    ASSUME NEW t, TurnType(t), NEW r \in Request,
           r.of \in KmipCalls => Due(r, t.results[r.of])
    PROVE  TurnType(RequestFailed(t, r)) /\ Moved(t, RequestFailed(t, r), {r.of})
<1> DEFINE u == RequestFailed(t, r)
           c == r.of
<1>1. CASE c \in KmipCalls /\ r.step <= AnswerStep(KindOf[c])
  <2> DEFINE Q == GivenAnswer(t.results, c, "error")
  <2>1. u = AnswerCall(t, c, "error")
    BY <1>1 DEF RequestFailed
  <2>2. u = WithResults(t, Q)
    BY <1>1, <2>1, AnswerFields DEF TurnType
  <2>3. ResultsOK(Q) /\ \A d \in KmipCalls : d # c => Q[d] = t.results[d]
    BY <1>1, AnswersOK DEF TurnType, Due
  <2> HIDE DEF Q, u
  <2>4. /\ IsTurn(u) /\ u.pipeline = t.pipeline /\ u.defered = t.defered
        /\ u.ticks = t.ticks /\ u.results = Q
    BY <2>2, WithResultsFields
  <2>5. TurnType(u)
    BY <2>3, <2>4 DEF TurnType
  <2>6. Moved(t, u, {c})
    BY <2>3, <2>4, TickTypes, GrownSame DEF Moved, TurnType
  <2> QED BY <2>5, <2>6 DEF u
<1>2. CASE c \notin KmipCalls /\ r.step = 3
  <2> DEFINE last == [r EXCEPT !.step = 4]
  <2>1. u = SendRequest(t, last)
    BY <1>2 DEF RequestFailed
  <2>2. last \in Request /\ last.of = r.of
    BY DEF Request
  <2> HIDE DEF last, u
  <2>3. Put(t, u, last)
    BY <2>1, SendPut DEF TurnType
  <2>4. TurnType(u) /\ Moved(t, u, {})
    BY <1>2, <2>2, <2>3, PutMoved
  <2>5. Moved(t, u, {c})
    BY <2>4 DEF Moved
  <2> QED BY <2>4, <2>5 DEF u
<1>3. CASE /\ ~(c \in KmipCalls /\ r.step <= AnswerStep(KindOf[c]))
           /\ ~(c \notin KmipCalls /\ r.step = 3)
  <2>1. u = t
    BY <1>3 DEF RequestFailed
  <2> QED BY <2>1, MovedSame
<1> QED BY <1>1, <1>2, <1>3

\* The callback of a request that is in hand and fails.
LEMMA FailOK ==
    ASSUME NEW t, NEW r, Hand(t, r)
    PROVE  TurnOK(RequestFailed(t, r))
<1>1. TurnType(RequestFailed(t, r)) /\ Moved(t, RequestFailed(t, r), {r.of})
  BY FailStep DEF Hand, TurnOK
<1>2. \A c \in KmipCalls : Waits(t, c) => c \notin {r.of}
  BY DEF Hand
<1> QED BY <1>1, <1>2, MovedOK DEF Hand
\* The callbacks of a queue are called one after the other. The function that the recursion
\* defines exists: there is no first number of callbacks for which none exists.
LEMMA FailAllBySteps ==
    ASSUME NEW begin, NEW requests, Len(requests) \in Nat
    PROVE  \E run : /\ run[0] = begin
                    /\ \A i \in 1 .. Len(requests) : run[i] = RequestFailed(run[i - 1], requests[i])
                    /\ FailAll(requests, begin) = run[Len(requests)]
<1> DEFINE n == Len(requests)
           Of(m, f) == [i \in 0 .. m |-> IF i = 0 THEN begin
                                         ELSE RequestFailed(f[i - 1], requests[i])]
           T == {m \in 0 .. n : ~ \E f : f = Of(m, f)}
           run == CHOOSE f : f = Of(n, f)
<1>0. n \in Nat
  OBVIOUS
<1>1. FailAll(requests, begin) = run[n]
  BY Zenon DEF FailAll
<1> HIDE DEF n
<1>2. T = {}
  <2>1. SUFFICES ASSUME T # {} PROVE FALSE
    OBVIOUS
  <2>2. PICK m \in T : \A i \in T : m <= i
    <3>1. T \in SUBSET Nat
      BY <1>0
    <3> HIDE DEF T
    <3> QED BY <2>1, <3>1, KmLeastNumber
  <2>3. m \in Nat /\ m <= n
    BY <1>0
  <2>4. \A f : f # Of(m, f)
    OBVIOUS
  <2>5. CASE m = 0
    <3> DEFINE f == [i \in 0 .. 0 |-> begin]
    <3>1. f = Of(m, f)
      BY <2>5
    <3> QED BY <2>4, <3>1
  <2>6. CASE m # 0
    <3>1. m - 1 \in 0 .. n /\ ~ (m <= m - 1)
      BY <1>0, <2>3, <2>6
    <3>2. PICK f : f = Of(m - 1, f)
      BY <2>2, <3>1
    <3> DEFINE g == [i \in 0 .. m |-> IF i = m THEN RequestFailed(f[m - 1], requests[m])
                                      ELSE f[i]]
    <3>3. \A i \in 0 .. m - 1 :
              f[i] = IF i = 0 THEN begin ELSE RequestFailed(f[i - 1], requests[i])
      BY <3>2
    <3>4. \A i \in 0 .. m - 1 : i \in 0 .. m /\ i # m
      BY <2>3
    <3>5. \A i \in 0 .. m - 1 : g[i] = f[i]
      BY <3>4
    <3>6. \A i \in 0 .. m : i # 0 => i - 1 \in 0 .. m - 1
      BY <2>3
    <3>7. g[m] = RequestFailed(f[m - 1], requests[m]) /\ m - 1 \in 0 .. m - 1
      BY <2>3, <2>6
    <3> HIDE DEF g
    <3>8. \A i \in 0 .. m : g[i] = IF i = 0 THEN begin ELSE RequestFailed(g[i - 1], requests[i])
      <4>1. ASSUME NEW i \in 0 .. m, i # m
            PROVE  g[i] = IF i = 0 THEN begin ELSE RequestFailed(g[i - 1], requests[i])
        <5>1. i \in 0 .. m - 1
          BY <2>3, <4>1
        <5>2. f[i] = IF i = 0 THEN begin ELSE RequestFailed(f[i - 1], requests[i])
          BY <3>3, <5>1
        <5>3. g[i] = f[i] /\ (i # 0 => g[i - 1] = f[i - 1])
          BY <3>5, <3>6, <5>1
        <5> QED BY <5>2, <5>3
      <4>2. g[m] = IF m = 0 THEN begin ELSE RequestFailed(g[m - 1], requests[m])
        BY <2>6, <3>5, <3>7
      <4> QED BY <4>1, <4>2
    <3>9. g = Of(m, g)
      BY <3>8 DEF g
    <3> QED BY <2>4, <3>9
  <2> QED BY <2>5, <2>6
<1>3. \E f : f = Of(n, f)
  BY <1>0, <1>2
<1>4. run = Of(n, run)
  <2> HIDE DEF Of
  <2> QED BY <1>3
<1> HIDE DEF run
<1>5. run[0] = begin
  BY <1>0, <1>4
<1>6. \A i \in 1 .. n : run[i] = RequestFailed(run[i - 1], requests[i])
  BY <1>0, <1>4
<1> QED BY <1>1, <1>5, <1>6 DEF n

\* The calls of the first k requests.
CallsOf(requests, k) == {requests[i].of : i \in 1 .. k}

\* All of the requests of a queue fail: only their calls are answered, each of them once.
LEMMA FailAllMoved ==
    ASSUME NEW t, TurnType(t), NEW requests, Good(requests, t.results)
    PROVE  /\ TurnType(FailAll(requests, t))
           /\ Moved(t, FailAll(requests, t), {c \in KmipCalls : Holds(requests, c)})
<1> DEFINE n == Len(requests)
<1>1. requests \in Seq(Request)
  BY DEF Good
<1>2. /\ n \in Nat /\ DOMAIN requests = 1 .. n
      /\ \A i \in 1 .. n : requests[i] \in Request
  BY <1>1, LenProperties, ElementOfSeq
<1>3. \E run : /\ run[0] = t
               /\ \A i \in 1 .. Len(requests) : run[i] = RequestFailed(run[i - 1], requests[i])
               /\ FailAll(requests, t) = run[Len(requests)]
  <2>1. Len(requests) \in Nat
    BY <1>2
  <2> QED BY ONLY <2>1, FailAllBySteps
<1>4. PICK run : /\ run[0] = t
                 /\ \A i \in 1 .. n : run[i] = RequestFailed(run[i - 1], requests[i])
                 /\ FailAll(requests, t) = run[n]
  BY <1>3
<1> DEFINE Failed(i) == TurnType(run[i]) /\ Moved(t, run[i], CallsOf(requests, i))
           T == {i \in 0 .. n : ~Failed(i)}
<1>5. Failed(0)
  BY <1>4, MovedSame
<1>6. ASSUME NEW i \in 1 .. n, Failed(i - 1) PROVE Failed(i)
  <2> DEFINE u == run[i - 1]
             r == requests[i]
             cs == CallsOf(requests, i - 1)
  <2>1. run[i] = RequestFailed(u, r) /\ r \in Request /\ TurnType(u) /\ Moved(t, u, cs)
    BY <1>2, <1>4, <1>6
  <2>2. ASSUME r.of \in KmipCalls PROVE Due(r, u.results[r.of])
    <3>1. /\ Due(r, t.results[r.of])
          /\ \A j \in DOMAIN requests : requests[j].of = r.of => i = j
      BY <1>2, <2>2 DEF Good
    <3>2. r.of \notin cs
      <4>1. \A j \in 1 .. i - 1 : j \in DOMAIN requests /\ i # j
        BY <1>2
      <4> QED BY <3>1, <4>1 DEF CallsOf
    <3>3. u.results[r.of] = t.results[r.of]
      <4> HIDE DEF u, r, cs
      <4> QED BY <2>1, <2>2, <3>2 DEF Moved
    <3> QED BY <3>1, <3>3
  <2>3. cs \cup {r.of} = CallsOf(requests, i)
    <3>1. \A j : j \in 1 .. i <=> j \in 1 .. i - 1 \/ j = i
      BY <1>2
    <3> QED BY <3>1 DEF CallsOf
  <2> HIDE DEF u, r, cs
  <2>4. TurnType(run[i]) /\ Moved(u, run[i], {r.of})
    BY <2>1, <2>2, FailStep
  <2>5. Moved(t, run[i], cs \cup {r.of})
    BY <2>1, <2>4, MovedTwice
  <2> QED BY <2>3, <2>4, <2>5
<1> HIDE DEF Failed, n
<1>7. T = {}
  <2>1. SUFFICES ASSUME T # {} PROVE FALSE
    OBVIOUS
  <2>2. PICK i \in T : \A j \in T : i <= j
    <3>1. T \in SUBSET Nat
      BY <1>2
    <3> HIDE DEF T
    <3> QED BY <2>1, <3>1, KmLeastNumber
  <2>3. i \in 1 .. n /\ i - 1 \in 0 .. n /\ ~(i <= i - 1)
    BY <1>2, <1>5, <2>2
  <2>4. Failed(i - 1)
    BY <2>2, <2>3
  <2> QED BY <1>6, <2>2, <2>3, <2>4
<1>8. Failed(n)
  BY <1>2, <1>7
<1>9. TurnType(run[n]) /\ Moved(t, run[n], CallsOf(requests, n))
  BY <1>8 DEF Failed
<1>10. \A c \in KmipCalls : Holds(requests, c) <=> c \in CallsOf(requests, n)
  BY <1>2 DEF Holds, CallsOf
<1> QED BY <1>4, <1>9, <1>10 DEF Moved

\* The two queues fail and are emptied.
LEMMA DrainOK ==
    ASSUME NEW t, TurnOK(t)
    PROVE  TurnOK(DrainQueuesWithError(t))
<1> DEFINE u == FailAll(t.pipeline, t)
           v == FailAll(u.defered, u)
           w == DrainQueuesWithError(t)
           ps == {c \in KmipCalls : Holds(t.pipeline, c)}
           ds == {c \in KmipCalls : Holds(u.defered, c)}
<1>1. TurnType(t) /\ Good(t.pipeline, t.results)
  BY DEF TurnOK
<1>2. TurnType(u) /\ Moved(t, u, ps)
  BY <1>1, FailAllMoved
<1> HIDE DEF u
<1>3. /\ Good(u.defered, u.results)
      /\ \A c \in KmipCalls : Holds(u.defered, c) => Holds(t.defered, c)
  <2>1. Good(t.defered, t.results) /\ Grown(t.defered, u.defered)
    BY <1>2 DEF TurnOK, Moved
  <2>2. \A c \in KmipCalls : Holds(t.defered, c) => u.results[c] = t.results[c]
    BY <1>2 DEF TurnOK, Moved, Apart
  <2> QED BY ONLY <2>1, <2>2, GrownGood
<1>4. TurnType(v) /\ Moved(u, v, ds)
  BY <1>2, <1>3, FailAllMoved
<1>5. w = [v EXCEPT !.pipeline = <<>>, !.defered = <<>>]
  BY Zenon DEF DrainQueuesWithError, u
<1> HIDE DEF v, w
<1>6. Moved(t, v, ps \cup ds)
  BY <1>2, <1>4, MovedTwice
<1>7. /\ IsTurn(w) /\ w.pipeline = <<>> /\ w.defered = <<>>
      /\ w.ticks = v.ticks /\ w.results = v.results
  <2> DEFINE x == [v EXCEPT !.pipeline = <<>>]
  <2>1. IsTurn(v)
    BY <1>4 DEF TurnType
  <2>2. w = [x EXCEPT !.defered = <<>>]
    BY <1>5, <2>1 DEF IsTurn
  <2>3. IsTurn(x) /\ x.pipeline = <<>> /\ x.ticks = v.ticks /\ x.results = v.results
    BY <2>1 DEF IsTurn
  <2> HIDE DEF x
  <2> QED BY <2>2, <2>3 DEF IsTurn
<1>8. TurnType(w)
  BY <1>4, <1>7, GoodEmpty DEF TurnType
<1>9. Good(TickRequests(v.ticks), v.results)
  <2>1. /\ Good(TickRequests(t.ticks), t.results)
        /\ Grown(TickRequests(t.ticks), TickRequests(v.ticks))
    BY <1>6 DEF TurnOK, Moved
  <2>2. \A c \in KmipCalls : Holds(TickRequests(t.ticks), c) => v.results[c] = t.results[c]
    BY <1>3, <1>6 DEF TurnOK, Moved, Apart
  <2> QED BY ONLY <2>1, <2>2, GrownGood
<1>10. /\ Good(w.pipeline, w.results) /\ Good(w.defered, w.results)
       /\ \A c : ~Holds(w.pipeline, c) /\ ~Holds(w.defered, c)
  BY <1>7, GoodEmpty
<1>11. TurnOK(w)
  BY <1>7, <1>8, <1>9, <1>10 DEF TurnOK, Apart
<1> QED BY <1>11 DEF w
-----------------------------------------------------------------------------
(* What succeeds.                                                          *)

\* A call is answered by one of its steps.
LEMMA StepsOfKinds ==
    ASSUME NEW c \in KmipCalls
    PROVE  /\ Len(Steps(KindOf[c])) \in Nat /\ AnswerStep(KindOf[c]) \in Nat
           /\ AnswerStep(KindOf[c]) <= Len(Steps(KindOf[c]))
<1>1. KindOf[c] \in {"create", "destroy", "cipher", "healthcheck"}
  BY KmipAssumption
<1> DEFINE k == KindOf[c]
<1> HIDE DEF k
<1>2. CASE k = "create"
  BY <1>2 DEF Steps, AnswerStep, k
<1>3. CASE k = "destroy"
  BY <1>3 DEF Steps, AnswerStep, k
<1>4. CASE k = "cipher"
  BY <1>4 DEF Steps, AnswerStep, k
<1>5. CASE k = "healthcheck"
  BY <1>5 DEF Steps, AnswerStep, k
<1> QED BY <1>1, <1>2, <1>3, <1>4, <1>5 DEF k

\* The results R when a response to r, a request of the call c, is noted.
Noted(R, c, r) ==
    [d \in KmipCalls |->
        IF d = c THEN [answers |-> R[c].answers, result |-> R[c].result,
                       proof |-> Append(R[c].proof, r)]
        ELSE R[d]]

\* What noting a response does to a turn.
LEMMA NotedFields ==
    ASSUME NEW t, IsTurn(t), ResultsOK(t.results), NEW c \in KmipCalls, NEW r
    PROVE  [t EXCEPT !.results[c].proof = Append(@, r)] = WithResults(t, Noted(t.results, c, r))
<1> DEFINE R == t.results
           given == [R EXCEPT ![c].proof = Append(@, r)]
<1>1. [t EXCEPT !.results[c].proof = Append(@, r)] = [t EXCEPT !.results = given]
  OBVIOUS
<1>2. [t EXCEPT !.results = given] = WithResults(t, given)
  BY SetResults
<1>3. given = Noted(R, c, r)
  <2>1. /\ R = [d \in KmipCalls |-> R[d]]
        /\ R[c] = [answers |-> R[c].answers, result |-> R[c].result, proof |-> R[c].proof]
    BY DEF ResultsOK, ResultOK
  <2> DEFINE q == Append(R[c].proof, r)
             x == [R[c] EXCEPT !.proof = q]
  <2> HIDE DEF R
  <2>2. given = [R EXCEPT ![c] = x]
    OBVIOUS
  <2>3. Noted(R, c, r) = [d \in KmipCalls |->
            IF d = c THEN [answers |-> R[c].answers, result |-> R[c].result, proof |-> q]
            ELSE R[d]]
    BY DEF Noted
  <2> HIDE DEF q
  <2>4. x = [answers |-> R[c].answers, result |-> R[c].result, proof |-> q]
    BY <2>1
  <2> HIDE DEF x, given
  <2>5. [R EXCEPT ![c] = x] = [d \in KmipCalls |-> IF d = c THEN x ELSE R[d]]
    BY <2>1
  <2> QED BY <2>2, <2>3, <2>4, <2>5
<1> QED BY <1>1, <1>2, <1>3

\* A response to the request that is due continues the proof of its call.
LEMMA NotedOK ==
    ASSUME NEW R, ResultsOK(R), NEW c \in KmipCalls, NEW r \in Request, r.of = c, Due(r, R[c])
    PROVE  /\ ResultsOK(Noted(R, c, r))
           /\ \A d \in KmipCalls : d # c => Noted(R, c, r)[d] = R[d]
           /\ Noted(R, c, r)[c].answers = R[c].answers
           /\ Noted(R, c, r)[c].result = R[c].result
           /\ Len(Noted(R, c, r)[c].proof) = r.step
           /\ r.step \in Nat
<1> DEFINE Q == Noted(R, c, r)
           p == R[c].proof
           q == Append(p, r)
           S == [of : {c}, step : Nat]
<1>1. /\ Q = [d \in KmipCalls |-> Q[d]]
      /\ \A d \in KmipCalls : d # c => Q[d] = R[d]
      /\ Q[c] = [answers |-> R[c].answers, result |-> R[c].result, proof |-> q]
  BY DEF Noted
<1>2. ResultOK(c, R[c])
  BY DEF ResultsOK
<1>3. r.step \in Nat /\ r = [of |-> c, step |-> r.step] /\ r \in S
  BY DEF Request
<1>4. p \in Seq(S) /\ r.step = Len(p) + 1 /\ \A i \in DOMAIN p : p[i] = [of |-> c, step |-> i]
  BY <1>2 DEF ResultOK, Due
<1> HIDE DEF Q, p, S
<1>5. /\ q \in Seq(S) /\ Len(q) = Len(p) + 1
      /\ \A i \in 1 .. Len(p) : q[i] = p[i]
      /\ q[Len(p) + 1] = r
  BY <1>3, <1>4, AppendProperties
<1>6. Len(p) \in Nat /\ DOMAIN p = 1 .. Len(p) /\ DOMAIN q = 1 .. Len(q)
  BY <1>4, <1>5, LenProperties
<1> HIDE DEF q
<1>7. \A i \in DOMAIN q : q[i] = [of |-> c, step |-> i]
  BY <1>3, <1>4, <1>5, <1>6
<1>8. /\ Q[c].answers = R[c].answers /\ Q[c].result = R[c].result /\ Q[c].proof = q
      /\ Q[c] = [answers |-> Q[c].answers, result |-> Q[c].result, proof |-> Q[c].proof]
  BY <1>1
<1>9. R[c].result = "success" => Len(q) >= AnswerStep(KindOf[c])
  BY <1>2, <1>5, <1>6, StepsOfKinds DEF ResultOK, p
<1>10. ResultOK(c, Q[c])
  BY <1>2, <1>5, <1>7, <1>8, <1>9 DEF ResultOK, Due, S
<1>11. \A d \in KmipCalls : ResultOK(d, Q[d])
  BY <1>1, <1>10 DEF ResultsOK
<1> QED BY <1>1, <1>3, <1>4, <1>5, <1>8, <1>11 DEF Q, ResultsOK

\* The results of a call that is in hand change.
LEMMA ResultsInHand ==
    ASSUME NEW t, TurnOK(t), NEW c \in KmipCalls, ~Waits(t, c), NEW Q, ResultsOK(Q),
           \A d \in KmipCalls : d # c => Q[d] = t.results[d]
    PROVE  TurnOK(WithResults(t, Q)) /\ ~Waits(WithResults(t, Q), c)
<1> DEFINE u == WithResults(t, Q)
<1>1. /\ IsTurn(u) /\ u.pipeline = t.pipeline /\ u.defered = t.defered
      /\ u.ticks = t.ticks /\ u.results = Q
  BY WithResultsFields
<1> HIDE DEF u
<1>2. TurnType(u)
  BY <1>1 DEF TurnOK, TurnType
<1>3. Moved(t, u, {c})
  BY <1>1, TickTypes, GrownSame DEF Moved, TurnOK, TurnType
<1>4. TurnOK(u) /\ \A d \in KmipCalls : Waits(u, d) => Waits(t, d)
  BY <1>2, <1>3, MovedOK
<1> QED BY <1>4 DEF u

\* A request is sent and a call answered: the order of the two makes no difference.
LEMMA PutResults ==
    ASSUME NEW t, NEW u, NEW r, Put(t, u, r), NEW Q
    PROVE  Put(WithResults(t, Q), WithResults(u, Q), r)
<1> DEFINE s == WithResults(t, Q)
           v == WithResults(u, Q)
<1>1. /\ s.pipeline = t.pipeline /\ s.defered = t.defered
      /\ s.ticks = t.ticks /\ s.results = Q
  BY WithResultsFields
<1>2. /\ IsTurn(v) /\ v.pipeline = u.pipeline /\ v.defered = u.defered
      /\ v.ticks = u.ticks /\ v.results = Q
  BY WithResultsFields
<1> HIDE DEF s, v
<1>3. Put(s, v, r)
  BY <1>1, <1>2 DEF Put
<1> QED BY <1>3 DEF s, v

\* The callback of a request of a call that succeeds.
LEMMA CallSucceeds ==
    ASSUME NEW t, NEW r, Hand(t, r), r.of \in KmipCalls
    PROVE  TurnOK(RequestSucceeded(t, r, r))
<1> DEFINE c == r.of
           N == Noted(t.results, c, r)
           A == GivenAnswer(N, c, "success")
           noted == WithResults(t, N)
           told == WithResults(noted, A)
           r2 == [r EXCEPT !.step = @ + 1]
           next == SendRequest(noted, r2)
           steps == Len(Steps(KindOf[c]))
           lastStep == AnswerStep(KindOf[c])
<1>1. /\ TurnOK(t) /\ r \in Request /\ ~Waits(t, c) /\ Due(r, t.results[c])
      /\ IsTurn(t) /\ ResultsOK(t.results)
  BY DEF Hand, TurnOK, TurnType
<1>2. /\ ResultsOK(N) /\ \A d \in KmipCalls : d # c => N[d] = t.results[d]
      /\ N[c].answers = t.results[c].answers /\ N[c].result = t.results[c].result
      /\ Len(N[c].proof) = r.step /\ r.step \in Nat
  BY <1>1, NotedOK
<1>3. /\ r.step <= steps /\ (r.step <= lastStep => N[c].answers = 0) /\ N[c].result # "none"
      /\ steps \in Nat /\ lastStep \in Nat /\ lastStep <= steps
  BY <1>1, <1>2, StepsOfKinds DEF Due
<1>4. RequestSucceeded(t, r, r) =
        IF r.step = steps
        THEN IF lastStep = r.step THEN AnswerCall(noted, c, "success") ELSE noted
        ELSE IF lastStep = r.step THEN AnswerCall(next, c, "success") ELSE next
  <2>1. [t EXCEPT !.results[c].proof = Append(@, r)] = noted
    BY <1>1, NotedFields
  <2> QED BY <2>1, Zenon DEF RequestSucceeded
<1> HIDE DEF N
<1>5. TurnOK(noted) /\ ~Waits(noted, c)
  BY <1>1, <1>2, ResultsInHand
<1>6. IsTurn(noted) /\ noted.results = N
  BY WithResultsFields
<1> HIDE DEF noted
<1>7. ASSUME lastStep = r.step
      PROVE  /\ ResultsOK(A) /\ TurnOK(told) /\ ~Waits(told, c)
             /\ A[c].result = "success" /\ A[c].proof = N[c].proof
  <2>1. /\ ResultsOK(A) /\ \A d \in KmipCalls : d # c => A[d] = N[d]
        /\ A[c] = [answers |-> 1, result |-> "success", proof |-> N[c].proof]
    <3>1. /\ ResultsOK(N) /\ c \in KmipCalls /\ "success" \in {"error", "success"}
          /\ N[c].answers = 0 /\ N[c].result # "none" /\ Len(N[c].proof) >= lastStep
      BY <1>2, <1>3, <1>7
    <3> HIDE DEF c
    <3> QED BY ONLY <3>1, AnswersOK
  <2> HIDE DEF A
  <2>2. TurnOK(told) /\ ~Waits(told, c)
    BY <1>5, <1>6, <2>1, ResultsInHand
  <2> QED BY <2>1, <2>2
<1>8. r2 \in Request /\ r2.of = c /\ r2.step = r.step + 1
  BY <1>1 DEF Request
<1> HIDE DEF r2
<1>9. Put(noted, next, r2)
  BY <1>6, SendPut
<1> HIDE DEF next
<1>10. CASE r.step = steps
  <2>1. CASE lastStep = r.step
    <3>1. AnswerCall(noted, c, "success") = told
      BY <1>2, <1>6, AnswerFields
    <3> QED BY <1>4, <1>7, <1>10, <2>1, <3>1
  <2>2. CASE lastStep # r.step
    BY <1>4, <1>5, <1>10, <2>2
  <2> QED BY <2>1, <2>2
<1>11. CASE r.step # steps
  <2>0. r2.step <= steps /\ r2.step = Len(N[c].proof) + 1
    BY <1>2, <1>3, <1>8, <1>11
  <2>1. CASE lastStep = r.step
    <3> DEFINE last == WithResults(next, A)
    <3>1. AnswerCall(next, c, "success") = last
      <4>1. IsTurn(next) /\ next.results = N
        BY <1>6, <1>9 DEF Put
      <4> QED BY <1>2, <4>1, AnswerFields
    <3>2. Put(told, last, r2)
      BY <1>9, PutResults
    <3>3. Hand(told, r2)
      <4>1. told.results = A
        BY WithResultsFields
      <4>2. Due(r2, A[c])
        BY <1>2, <1>3, <1>7, <1>8, <2>0, <2>1 DEF Due
      <4> HIDE DEF A, told
      <4> QED BY <1>7, <1>8, <2>1, <4>1, <4>2 DEF Hand
    <3> HIDE DEF told, last
    <3>4. TurnOK(last)
      BY <3>2, <3>3, PutOK
    <3> QED BY <1>4, <1>11, <2>1, <3>1, <3>4
  <2>2. CASE lastStep # r.step
    <3>1. Due(r2, N[c])
      BY <1>2, <1>3, <1>8, <2>0, <2>2 DEF Due
    <3>2. Hand(noted, r2)
      BY <1>5, <1>6, <1>8, <3>1 DEF Hand
    <3>3. TurnOK(next)
      BY <1>9, <3>2, PutOK
    <3> QED BY <1>4, <1>11, <2>2, <3>3
  <2> QED BY <2>1, <2>2
<1> QED BY <1>10, <1>11

\* The callback of a request that is in hand and succeeds.
LEMMA SucceedOK ==
    ASSUME NEW t, NEW r, Hand(t, r)
    PROVE  TurnOK(RequestSucceeded(t, r, r))
<1>1. CASE r.of \in KmipCalls
  BY <1>1, CallSucceeds
<1>2. CASE r.of \notin KmipCalls
  <2> DEFINE r2 == [r EXCEPT !.step = @ + 1]
  <2>1. RequestSucceeded(t, r, r) = t \/ RequestSucceeded(t, r, r) = SendRequest(t, r2)
    BY <1>2, Zenon DEF RequestSucceeded
  <2>2. r2 \in Request /\ r2.of = r.of
    BY DEF Hand, Request
  <2> HIDE DEF r2
  <2>3. TurnOK(t) /\ IsTurn(t)
    BY DEF Hand, TurnOK, TurnType
  <2>4. Hand(t, r2)
    BY <1>2, <2>2, <2>3 DEF Hand
  <2>5. TurnOK(SendRequest(t, r2))
    BY <2>3, <2>4, SendPut, PutOK
  <2> QED BY <2>1, <2>3, <2>5
<1> QED BY <1>1, <1>2

\* The response that comes for the request in hand.
LEMMA ResponseOK ==
    ASSUME NEW t, NEW r, Hand(t, r), NEW n, NEW response, NEW status
    PROVE  TurnOK(Response(t, n, r, response, status))
<1> DEFINE u == EndSocket(t, n)
<1>1. TurnOK(t) /\ IsTurn(t)
  BY DEF Hand, TurnOK, TurnType
<1>2. Kept(t, u)
  BY <1>1, EndSocketKept
<1> HIDE DEF u
<1>3. TurnOK(u) /\ (\A c \in KmipCalls : Waits(u, c) => Waits(t, c)) /\ u.results = t.results
  BY <1>1, <1>2, KeptOK DEF Kept
<1>4. Hand(u, r)
  BY <1>3 DEF Hand
<1>5. TurnOK(RequestFailed(u, r)) /\ TurnOK(RequestFailed(t, r))
  BY <1>4, FailOK
<1>6. TurnOK(RequestSucceeded(t, r, r))
  BY SucceedOK
<1> QED BY <1>5, <1>6 DEF Response, u
-----------------------------------------------------------------------------
(* The invariant.                                                          *)

\* The state after a turn is what the turn has made.
LEMMA FinishInv ==
    ASSUME NEW u, TurnOK(u), Finish(u)
    PROVE  KmInv'
<1>1. IsTurn(u)
  BY DEF TurnOK, TurnType
<1>2. /\ socket' = u.socket /\ conv' = u.conv /\ callbackPipeline' = u.pipeline
      /\ deferedRequests' = u.defered /\ pipelineDrained' = u.drained
      /\ nextTicks' = u.ticks /\ results' = u.results
  BY DEF Finish
<1>3. CurrentTurn' = u
  BY <1>1, <1>2 DEF CurrentTurn, IsTurn
<1> QED BY <1>3 DEF KmInv

\* The fields of the turn that begins.
LEMMA CurrentFields ==
    /\ IsTurn(CurrentTurn)
    /\ CurrentTurn.socket = socket /\ CurrentTurn.conv = conv
    /\ CurrentTurn.pipeline = callbackPipeline /\ CurrentTurn.defered = deferedRequests
    /\ CurrentTurn.drained = pipelineDrained /\ CurrentTurn.ticks = nextTicks
    /\ CurrentTurn.results = results
  BY DEF CurrentTurn, IsTurn

\* What the callbacks see is the same.
LEMMA SameOK ==
    ASSUME NEW t, TurnOK(t), NEW u, Same(t, u)
    PROVE  TurnOK(u)
<1>1. Kept(t, u)
  BY DEF Same, Kept, Ticked
<1> QED BY <1>1, KeptOK

\* The sockets' states are set.
LEMMA WithConv ==
    ASSUME NEW t, IsTurn(t), NEW k
    PROVE  Same(t, [t EXCEPT !.conv = k])
  BY DEF Same, IsTurn

\* The ticks of a turn are set.
LEMMA WithTicks ==
    ASSUME NEW t, IsTurn(t), NEW k
    PROVE  LET u == [t EXCEPT !.ticks = k]
           IN  /\ IsTurn(u) /\ u.pipeline = t.pipeline /\ u.defered = t.defered
               /\ u.ticks = k /\ u.results = t.results
  BY DEF IsTurn

\* The deferred requests of a turn are set.
LEMMA WithDefered ==
    ASSUME NEW t, IsTurn(t), NEW k
    PROVE  LET u == [t EXCEPT !.defered = k]
           IN  /\ IsTurn(u) /\ u.pipeline = t.pipeline /\ u.defered = k
               /\ u.ticks = t.ticks /\ u.results = t.results
  BY DEF IsTurn

\* The first tick is taken.
LEMMA TickTaken ==
    ASSUME NEW t, TurnOK(t), t.ticks # <<>>
    PROVE  LET u == [t EXCEPT !.ticks = Tail(@)]
               tick == Head(t.ticks)
           IN  TurnOK(u) /\ ("error" \notin DOMAIN tick => Hand(u, tick.request))
<1> DEFINE u == [t EXCEPT !.ticks = Tail(@)]
           tick == Head(t.ticks)
           q == TickRequests(t.ticks)
           r == Head(q)
<1>1. IsTurn(t) /\ TicksOK(t.ticks) /\ Good(q, t.results)
  BY DEF TurnOK, TurnType
<1>2. /\ IsTurn(u) /\ u.pipeline = t.pipeline /\ u.defered = t.defered
      /\ u.ticks = Tail(t.ticks) /\ u.results = t.results
  BY ONLY <1>1, WithTicks
<1> HIDE DEF u
<1>3. /\ TicksOK(u.ticks) /\ q # <<>> /\ TickRequests(u.ticks) = Tail(q)
      /\ ("error" \notin DOMAIN tick => tick.request = r)
  BY <1>1, <1>2, TickTail
<1> HIDE DEF q
<1>4. /\ Good(Tail(q), t.results) /\ (\A c : Holds(Tail(q), c) => Holds(q, c))
      /\ r \in Request /\ Holds(q, r.of)
      /\ r.of \in KmipCalls => ~Holds(Tail(q), r.of) /\ Due(r, t.results[r.of])
  BY <1>1, <1>3, GoodTail
<1> HIDE DEF r
<1>5. TurnOK(u)
  BY <1>2, <1>3, <1>4 DEF TurnOK, TurnType, Apart, q
<1>6. Hand(u, r)
  BY <1>2, <1>3, <1>4, <1>5 DEF Hand, TurnOK, Apart, Waits, q
<1> QED BY <1>3, <1>5, <1>6 DEF u

\* The first request of the pipeline is taken.
LEMMA PipelineTaken ==
    ASSUME NEW t, TurnOK(t), t.pipeline # <<>>
    PROVE  Hand([t EXCEPT !.pipeline = Tail(@)], Head(t.pipeline))
<1> DEFINE u == [t EXCEPT !.pipeline = Tail(@)]
           r == Head(t.pipeline)
<1>1. IsTurn(t) /\ Good(t.pipeline, t.results)
  BY DEF TurnOK, TurnType
<1>2. /\ IsTurn(u) /\ u.pipeline = Tail(t.pipeline) /\ u.defered = t.defered
      /\ u.ticks = t.ticks /\ u.results = t.results
  BY ONLY <1>1, WithPipeline
<1> HIDE DEF u
<1> DEFINE p == t.pipeline
           v == Tail(p)
<1>3. /\ Good(u.pipeline, t.results) /\ (\A c : Holds(u.pipeline, c) => Holds(t.pipeline, c))
      /\ r \in Request /\ Holds(t.pipeline, r.of)
      /\ r.of \in KmipCalls => ~Holds(u.pipeline, r.of) /\ Due(r, t.results[r.of])
  <2>1. Good(p, t.results) /\ p # <<>>
    BY <1>1
  <2>2. /\ Good(v, t.results) /\ (\A c : Holds(v, c) => Holds(p, c))
        /\ r \in Request /\ Holds(p, r.of)
        /\ r.of \in KmipCalls => ~Holds(v, r.of) /\ Due(r, t.results[r.of])
    <3> HIDE DEF p
    <3> QED BY ONLY <2>1, GoodTail DEF v, r, p
  <2>3. v = u.pipeline
    BY <1>2
  <2> HIDE DEF v
  <2> QED BY <2>2, <2>3
<1> HIDE DEF r
<1>4. u.pipeline \in Seq(Request)
  BY <1>3 DEF Good
<1>5. TurnOK(u)
  BY <1>2, <1>3, <1>4 DEF TurnOK, TurnType, Apart
<1>6. Hand(u, r)
  BY <1>2, <1>3, <1>5 DEF Hand, TurnOK, Apart, Waits
<1> QED BY <1>6 DEF u, r

\* The first request that was deferred is given to a tick.
LEMMA DeferedTicked ==
    ASSUME NEW t, TurnOK(t), t.defered # <<>>
    PROVE  TurnOK([t EXCEPT !.defered = Tail(@),
                            !.ticks = Append(@, [request |-> Head(t.defered)])])
<1> DEFINE r == Head(t.defered)
           tick == [request |-> r]
           s == [t EXCEPT !.defered = Tail(@)]
           u == [s EXCEPT !.ticks = Append(@, tick)]
           q == TickRequests(t.ticks)
<1>1. IsTurn(t) /\ Good(t.defered, t.results) /\ TicksOK(t.ticks)
  BY DEF TurnOK, TurnType
<1>2. /\ IsTurn(s) /\ s.pipeline = t.pipeline /\ s.defered = Tail(t.defered)
      /\ s.ticks = t.ticks /\ s.results = t.results
  BY ONLY <1>1, WithDefered
<1>3. [t EXCEPT !.defered = Tail(@), !.ticks = Append(@, [request |-> Head(t.defered)])] = u
  BY <1>1 DEF IsTurn
<1> HIDE DEF s
<1>4. /\ IsTurn(u) /\ u.pipeline = t.pipeline /\ u.defered = Tail(t.defered)
      /\ u.ticks = Append(t.ticks, tick) /\ u.results = t.results
  <2>1. IsTurn(s)
    BY <1>2
  <2>2. /\ IsTurn(u) /\ u.pipeline = s.pipeline /\ u.defered = s.defered
        /\ u.ticks = Append(s.ticks, tick) /\ u.results = s.results
    BY ONLY <2>1, WithTicks
  <2> HIDE DEF u, tick
  <2> QED BY <1>2, <2>2
<1> HIDE DEF u
<1>5. /\ Good(u.defered, t.results) /\ (\A c : Holds(u.defered, c) => Holds(t.defered, c))
      /\ r \in Request /\ Holds(t.defered, r.of)
      /\ r.of \in KmipCalls => ~Holds(u.defered, r.of) /\ Due(r, t.results[r.of])
  BY <1>1, <1>4, GoodTail
<1> HIDE DEF r
<1>6. "error" \notin DOMAIN tick /\ tick.request = r /\ IsTick(tick)
  BY <1>5 DEF IsTick
<1> HIDE DEF tick
<1>7. TicksOK(u.ticks) /\ TickRequests(u.ticks) = Append(q, r)
  BY <1>1, <1>4, <1>6, TickAppend
<1>8. Good(q, t.results) /\ (r.of \in KmipCalls => ~Holds(q, r.of))
  BY <1>5 DEF TurnOK, Apart
<1> HIDE DEF q
<1>9. /\ Good(Append(q, r), t.results)
      /\ \A c : Holds(Append(q, r), c) <=> Holds(q, c) \/ r.of = c
  BY <1>5, <1>8, GoodAppend
<1>10. u.defered \in Seq(Request)
  BY <1>5 DEF Good
<1>11. TurnOK(u)
  BY <1>4, <1>5, <1>7, <1>9, <1>10 DEF TurnOK, TurnType, Apart, q
<1> QED BY <1>3, <1>11

\* The initial state.
LEMMA InitInv == KmInit => KmInv
<1> SUFFICES ASSUME KmInit PROVE KmInv
  OBVIOUS
<1> DEFINE t == CurrentTurn
<1>1. /\ IsTurn(t) /\ t.pipeline = <<>> /\ t.defered = <<>> /\ t.ticks = <<>>
      /\ t.results = [c \in KmipCalls |-> [answers |-> 0, result |-> "none", proof |-> <<>>]]
  BY CurrentFields DEF KmInit
<1> HIDE DEF t
<1>2. TickRequests(<<>>) = <<>> /\ TicksOK(<<>>)
  <2>1. DOMAIN <<>> = {} /\ <<>> \in Seq({})
    BY EmptySeq
  <2>2. <<>> \in Seq(Range(<<>>)) /\ DOMAIN <<>> = {}
    BY <2>1, RangeSequence
  <2>3. <<>> = [i \in DOMAIN <<>> |-> <<>>[i]]
    OBVIOUS
  <2> QED BY <2>2 DEF TickRequests, TicksOK
<1>3. ResultsOK(t.results)
  <2> DEFINE x == [answers |-> 0, result |-> "none", proof |-> <<>>]
  <2>1. /\ x = [answers |-> x.answers, result |-> x.result, proof |-> x.proof]
        /\ x.answers = 0 /\ x.result = "none" /\ x.proof = <<>>
    OBVIOUS
  <2> HIDE DEF x
  <2>2. \A c \in KmipCalls : ResultOK(c, x)
    BY <2>1, EmptySeq DEF ResultOK
  <2>3. t.results = [c \in KmipCalls |-> x]
    BY <1>1 DEF x
  <2> QED BY <2>2, <2>3 DEF ResultsOK
<1>4. TurnOK(t)
  BY <1>1, <1>2, <1>3, GoodEmpty DEF TurnOK, TurnType, Apart
<1> QED BY <1>4 DEF KmInv, t
-----------------------------------------------------------------------------
(* The actions.                                                            *)

\* A call is made.
LEMMA CallInv ==
    ASSUME KmInv, NEW c \in KmipCalls, Call(c)
    PROVE  KmInv'
<1> DEFINE t == CurrentTurn
           R == t.results
           x == [answers |-> 0, result |-> "pending", proof |-> <<>>]
           Q == [d \in KmipCalls |-> IF d = c THEN x ELSE R[d]]
           made == WithResults(t, Q)
           r == [of |-> c, step |-> 1]
<1>1. TurnOK(t) /\ IsTurn(t) /\ ResultsOK(R) /\ R = results
  BY CurrentFields DEF KmInv, TurnOK, TurnType
<1>2. R[c] = [answers |-> 0, result |-> "none", proof |-> <<>>]
  BY <1>1 DEF Call, Made, ResultsOK, ResultOK
<1>3. [t EXCEPT !.results[c].result = "pending"] = made
  <2> DEFINE given == [R EXCEPT ![c].result = "pending"]
  <2>1. [t EXCEPT !.results[c].result = "pending"] = [t EXCEPT !.results = given]
    OBVIOUS
  <2>2. [t EXCEPT !.results = given] = WithResults(t, given)
    BY <1>1, SetResults
  <2>3. given = Q
    <3>1. R = [d \in KmipCalls |-> R[d]]
      BY <1>1 DEF ResultsOK
    <3> HIDE DEF R
    <3>2. [R[c] EXCEPT !.result = "pending"] = x
      BY <1>2
    <3> HIDE DEF x
    <3> QED BY <3>1, <3>2
  <2> QED BY <2>1, <2>2, <2>3
<1>4. Finish(SendRequest(made, r))
  BY <1>3, Zenon DEF Call
<1>5. ~Waits(t, c)
  <2>1. \A s : Good(s, R) => ~Holds(s, c)
    BY <1>2 DEF Good, Holds, Due
  <2> QED BY <1>1, <2>1 DEF TurnOK, Waits
<1>6. ResultsOK(Q) /\ (\A d \in KmipCalls : d # c => Q[d] = R[d]) /\ Q[c] = x
  <2>1. /\ x = [answers |-> x.answers, result |-> x.result, proof |-> x.proof]
        /\ x.answers = 0 /\ x.result = "pending" /\ x.proof = <<>>
    OBVIOUS
  <2>2. /\ Q = [d \in KmipCalls |-> Q[d]] /\ Q[c] = x
        /\ \A d \in KmipCalls : d # c => Q[d] = R[d]
    OBVIOUS
  <2> HIDE DEF x, Q
  <2>3. ResultOK(c, x)
    BY <2>1, EmptySeq DEF ResultOK
  <2> QED BY <1>1, <2>2, <2>3 DEF ResultsOK
<1> HIDE DEF Q
<1>7. TurnOK(made) /\ ~Waits(made, c) /\ IsTurn(made) /\ made.results = Q
  BY <1>1, <1>5, <1>6, ResultsInHand, WithResultsFields
<1> HIDE DEF made
<1>8. r \in Request /\ r.of = c /\ r.step = 1
  BY DEF Request
<1>9. Due(r, Q[c])
  <2>1. Q[c].result = "pending" /\ Q[c].answers = 0 /\ Q[c].proof = <<>> /\ Len(Q[c].proof) = 0
    BY <1>6
  <2>2. 1 <= Len(Steps(KindOf[c]))
    BY KmipAssumption DEF Steps
  <2> QED BY <1>8, <2>1, <2>2 DEF Due
<1> HIDE DEF r
<1>10. Hand(made, r)
  BY <1>7, <1>8, <1>9 DEF Hand
<1>11. TurnOK(SendRequest(made, r))
  BY <1>7, <1>10, SendPut, PutOK
<1> QED BY <1>4, <1>11, FinishInv

\* A tick: an error of a socket, or a request that had been deferred.
LEMMA NextTickInv ==
    ASSUME KmInv, NextTick
    PROVE  KmInv'
<1> DEFINE t == CurrentTurn
           u == [t EXCEPT !.ticks = Tail(@)]
           tick == Head(nextTicks)
           closed == [u.conv EXCEPT ![tick.error].state = "closed"]
           v == [u EXCEPT !.conv = closed]
<1>1. TurnOK(t) /\ t.ticks = nextTicks /\ nextTicks # <<>>
  BY CurrentFields DEF KmInv, NextTick
<1>2. IF "error" \in DOMAIN tick THEN Finish(DrainQueuesWithError(v))
      ELSE Finish(SendRequest(u, tick.request))
  BY Zenon DEF NextTick
<1> HIDE DEF t, closed, v
<1>3. TurnOK(u) /\ ("error" \notin DOMAIN tick => Hand(u, tick.request))
  BY <1>1, TickTaken
<1> HIDE DEF u, tick
<1>4. IsTurn(u)
  BY <1>3 DEF TurnOK, TurnType
<1>5. CASE "error" \in DOMAIN tick
  <2>1. TurnOK(v)
    BY <1>3, <1>4, WithConv, SameOK DEF v
  <2> QED BY <1>2, <1>5, <2>1, DrainOK, FinishInv
<1>6. CASE "error" \notin DOMAIN tick
  <2>1. TurnOK(SendRequest(u, tick.request))
    BY <1>3, <1>4, <1>6, SendPut, PutOK
  <2> QED BY <1>2, <1>6, <2>1, FinishInv
<1> QED BY <1>5, <1>6

\* A socket is connected, and the handshake begins.
LEMMA ConnectedInv ==
    ASSUME KmInv, NEW n \in Sockets, Connected(n)
    PROVE  KmInv'
<1> DEFINE t == CurrentTurn
           opened == [t.conv EXCEPT ![n].state = "open"]
           u == [t EXCEPT !.conv = opened]
           r == [of |-> n, step |-> 1]
<1>1. TurnOK(t) /\ IsTurn(t)
  BY CurrentFields DEF KmInv
<1>2. Finish(SendRequest(u, r))
  BY Zenon DEF Connected
<1> HIDE DEF t, opened
<1>3. TurnOK(u) /\ IsTurn(u)
  BY <1>1, WithConv, SameOK DEF TurnOK, TurnType
<1>4. r \in Request /\ r.of \notin KmipCalls
  BY KmipAssumption DEF Request
<1> HIDE DEF u, r
<1>5. Hand(u, r)
  BY <1>3, <1>4 DEF Hand
<1>6. TurnOK(SendRequest(u, r))
  BY <1>3, <1>5, SendPut, PutOK
<1> QED BY <1>2, <1>6, FinishInv

\* Data of the server: the response to the first request of the pipeline.
LEMMA DataInv ==
    ASSUME KmInv, NEW n \in Sockets, NEW status, Data(n, status)
    PROVE  KmInv'
<1> DEFINE now == CurrentTurn
           read == [now.conv EXCEPT ![n].wire = Tail(@)]
           t == [now EXCEPT !.conv = read]
           response == Head(conv[n].wire)
           shifted == [t EXCEPT !.pipeline = IF @ = <<>> THEN @ ELSE Tail(@)]
           taken == [t EXCEPT !.pipeline = Tail(@)]
           called == IF t.pipeline = <<>> THEN t
                     ELSE Response(shifted, n, Head(t.pipeline), response, status)
           ticked == [called EXCEPT !.defered = Tail(@),
                                    !.ticks = Append(@, [request |-> Head(called.defered)])]
           ended == EndSocket(called, called.drained)
           drained == [ended EXCEPT !.drained = 0]
<1>1. TurnOK(now) /\ IsTurn(now)
  BY CurrentFields DEF KmInv
<1>2. \E u : /\ Finish(u)
             /\ \/ u = ticked /\ called.defered # <<>>
                \/ u = drained
                \/ u = called
  <2> DEFINE u == CASE Len(called.pipeline) < PipelineDepth /\ called.defered # <<>> -> ticked
                    [] called.pipeline = <<>> /\ called.defered = <<>> /\ called.drained # 0 ->
                            drained
                    [] OTHER -> called
  <2>1. Finish(u)
    BY Zenon DEF Data
  <2> HIDE DEF ticked, drained, called
  <2>2. (u = ticked /\ called.defered # <<>>) \/ u = drained \/ u = called
    OBVIOUS
  <2> QED BY <2>1, <2>2
<1> HIDE DEF now, read
<1>3. TurnOK(t)
  BY <1>1, WithConv, SameOK
<1> HIDE DEF t, response
<1>4. TurnOK(called)
  <2>1. CASE t.pipeline = <<>>
    BY <1>3, <2>1
  <2>2. CASE t.pipeline # <<>>
    <3>1. Hand(taken, Head(t.pipeline))
      BY <1>3, <2>2, PipelineTaken
    <3>2. shifted = taken
      BY <2>2
    <3> HIDE DEF shifted, taken
    <3> QED BY <2>2, <3>1, <3>2, ResponseOK
  <2> QED BY <2>1, <2>2
<1> HIDE DEF called
<1>5. called.defered # <<>> => TurnOK(ticked)
  BY <1>4, DeferedTicked
<1>6. TurnOK(drained)
  <2>1. IsTurn(called)
    BY <1>4 DEF TurnOK, TurnType
  <2>2. TurnOK(ended) /\ IsTurn(ended)
    BY <1>4, <2>1, EndSocketKept, KeptOK DEF Kept
  <2> HIDE DEF ended
  <2>3. Same(ended, drained)
    BY <2>2 DEF Same, IsTurn
  <2> QED BY <2>2, <2>3, SameOK
<1> QED BY <1>2, <1>4, <1>5, <1>6, FinishInv

\* The other side ends the conversation.
LEMMA ServerEndsInv ==
    ASSUME KmInv, NEW n \in Sockets, ServerEnds(n)
    PROVE  KmInv'
<1> DEFINE t == CurrentTurn
           late == conv[n].state = "open" /\ conv[n].wire # <<>>
           cut == [t.conv EXCEPT ![n].wire = <<>>,
                                 ![n].state = IF late THEN "halfOpen" ELSE "closed"]
           u == [t EXCEPT !.socket = 0, !.conv = cut]
<1>1. TurnOK(t) /\ IsTurn(t)
  BY CurrentFields DEF KmInv
<1>2. Finish(DrainQueuesWithError(u))
  BY DEF ServerEnds
<1> HIDE DEF t, cut
<1>3. TurnOK(u)
  BY <1>1, WithSocket, SameOK
<1> QED BY <1>2, <1>3, DrainOK, FinishInv

\* A socket fails: the next tick reports the error.
LEMMA SocketFailsInv ==
    ASSUME KmInv, NEW n \in Sockets, SocketFails(n)
    PROVE  KmInv'
<1> DEFINE t == CurrentTurn
           cut == [t.conv EXCEPT ![n].state = "destroyed", ![n].wire = <<>>]
           tick == [error |-> n]
           s == [t EXCEPT !.conv = cut]
           u == [s EXCEPT !.ticks = Append(@, tick)]
<1>1. TurnOK(t) /\ IsTurn(t)
  BY CurrentFields DEF KmInv
<1>2. Finish([t EXCEPT !.conv = cut, !.ticks = Append(@, tick)])
  BY ZenonT(40) DEF SocketFails
<1>3. DOMAIN tick = {"error"}
  OBVIOUS
<1> HIDE DEF t, cut, tick
<1>4. [t EXCEPT !.conv = cut, !.ticks = Append(@, tick)] = u
  BY <1>1 DEF IsTurn
<1>5. Same(t, s)
  BY <1>1, WithConv
<1> HIDE DEF s
<1>6. /\ IsTurn(u) /\ u.pipeline = s.pipeline /\ u.defered = s.defered
      /\ u.ticks = Append(s.ticks, tick) /\ u.results = s.results
  <2>1. IsTurn(s)
    BY <1>5 DEF Same
  <2> QED BY ONLY <2>1, WithTicks
<1> HIDE DEF u
<1>7. Kept(t, u)
  BY <1>3, <1>5, <1>6 DEF Same, Kept, Ticked
<1>8. TurnOK(u)
  BY <1>1, <1>7, KeptOK
<1> QED BY <1>2, <1>4, <1>8, FinishInv

\* The transport's end().
LEMMA EndConversationInv ==
    ASSUME KmInv, EndConversation
    PROVE  KmInv'
<1> DEFINE t == CurrentTurn
           n == socket
           u == [t EXCEPT !.drained = n]
<1>1. TurnOK(t) /\ IsTurn(t)
  BY CurrentFields DEF KmInv
<1>2. Finish(u) \/ Finish(EndSocket(t, n))
  BY Zenon DEF EndConversation
<1> HIDE DEF t, n
<1>3. TurnOK(u)
  <2>1. Same(t, u)
    BY <1>1 DEF Same, IsTurn
  <2> QED BY <1>1, <2>1, SameOK
<1>4. TurnOK(EndSocket(t, n))
  BY <1>1, EndSocketKept, KeptOK
<1> QED BY <1>2, <1>3, <1>4, FinishInv

\* Every step keeps the invariant.
LEMMA KmNextInv == KmInv /\ [KmNext]_kmVars => KmInv'
<1> SUFFICES ASSUME KmInv, [KmNext]_kmVars PROVE KmInv'
  OBVIOUS
<1>1. CASE \E c \in KmipCalls : Call(c)
  BY <1>1, CallInv
<1>2. CASE \E n \in Sockets : Connected(n)
  BY <1>2, ConnectedInv
<1>3. CASE \E n \in Sockets : ServerEnds(n)
  BY <1>3, ServerEndsInv
<1>4. CASE \E n \in Sockets : SocketFails(n)
  BY <1>4, SocketFailsInv
<1>5. CASE \E n \in Sockets : \E status \in {"Success", "Operation Failed"} : Data(n, status)
  BY <1>5, DataInv
<1>6. CASE NextTick
  BY <1>6, NextTickInv
<1>7. CASE EndConversation
  BY <1>7, EndConversationInv
<1>8. CASE UNCHANGED kmVars
  <2>1. CurrentTurn' = CurrentTurn
    BY <1>8 DEF CurrentTurn, kmVars
  <2> QED BY <2>1 DEF KmInv
<1> QED BY <1>1, <1>2, <1>3, <1>4, <1>5, <1>6, <1>7, <1>8 DEF KmNext

-----------------------------------------------------------------------------
(* The theorems.                                                           *)

\* What a KMIP client keeps between two turns of its event loop: a call has at most one request
\* in the pipeline, among the deferred requests and in the ticks together; that request is the
\* step after those whose responses were taken, and the call is not answered before the step
\* that answers it.
THEOREM KmInvariant == KmSpec => []KmInv
<1>1. KmInit => KmInv
  BY InitInv
<1>2. KmInv /\ [KmNext]_kmVars => KmInv'
  BY KmNextInv
<1> QED BY <1>1, <1>2, PTL DEF KmSpec

\* A call that succeeds was answered by the responses to its own requests, in order, and no call
\* is answered twice, whatever the sockets do and however the requests are deferred.
THEOREM AnswersStayOwn == KmSpec => []AnswersAreOwn
<1>1. KmInv => AnswersAreOwn
  <2> SUFFICES ASSUME KmInv, NEW c \in KmipCalls
               PROVE  /\ results[c].answers <= 1
                      /\ results[c].proof =
                            [i \in DOMAIN results[c].proof |-> [of |-> c, step |-> i]]
                      /\ results[c].result = "success" =>
                            Len(results[c].proof) >= AnswerStep(KindOf[c])
    BY DEF AnswersAreOwn
  <2> DEFINE x == results[c]
  <2>1. ResultOK(c, x)
    BY CurrentFields DEF KmInv, TurnOK, TurnType, ResultsOK
  <2> HIDE DEF x
  <2>2. /\ x.answers <= 1 /\ (\A i \in DOMAIN x.proof : x.proof[i] = [of |-> c, step |-> i])
        /\ x.result = "success" => Len(x.proof) >= AnswerStep(KindOf[c])
    BY <2>1 DEF ResultOK
  <2>3. x.proof = [i \in DOMAIN x.proof |-> x.proof[i]]
    BY <2>1, LenProperties DEF ResultOK
  <2> QED BY <2>2, <2>3 DEF x
<1> QED BY <1>1, KmInvariant, PTL
================================================================================
