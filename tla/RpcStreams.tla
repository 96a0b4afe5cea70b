------------------------------- MODULE RpcStreams ------------------------------
(***************************************************************************)
(* A remote call whose result is a stream: rpc.ts and sio-stream.ts.       *)
(*                                                                         *)
(* The server encodes the source (encodeStreams): an SIOOutputStream that  *)
(* the source is piped into sends packets of items, and waits when         *)
(* maxPendingAck of them are not acknowledged. The client decodes an       *)
(* SIOInputStream, which acknowledges a packet when it has queued its      *)
(* items. Each side registers its end of the stream. A step is the         *)
(* reception of a message, a timer, or a turn of the source or of the      *)
(* consumer. The socket keeps the order of messages, until it disconnects. *)
(***************************************************************************)
EXTENDS Integers, Sequences, FiniteSets, SequencesExt

CONSTANTS
    Items,          \* the source has the items 1 .. Items
    MaxPendingAck,  \* maxPendingAck
    HighWaterMark,  \* items that a Writable buffers before its source pauses
    Outcomes,       \* how the remote function ends: "stream", "value", "error" or "unknown"
    MaxTimeouts,    \* how many acknowledgements, and how many answers, come too late
    MaxFailures,    \* how often a source fails
    MaxDisconnects

ASSUME RpcAssumption ==
    /\ Items \in Nat /\ MaxPendingAck \in Nat \ {0} /\ HighWaterMark \in Nat \ {0}
    /\ MaxTimeouts \in Nat /\ MaxFailures \in Nat /\ MaxDisconnects \in Nat
    /\ Outcomes \subseteq {"stream", "value", "error", "unknown"}

VARIABLES
    outcome,        \* what the remote function does
    call,           \* the call at the client: "sent", "done" or "timedOut"
    answer,         \* what its callback was given
    source,         \* the stream that the server returns: its state and its next item
    out,            \* the SIOOutputStream: Writable state, packets without acknowledgement,
                    \* and the messages on their way to the client
    input,          \* the SIOInputStream, and what the consumer has got from it
    toServer,       \* the messages on their way to the server
    local, remote,  \* whether the stream is registered: localStreams, remoteStreams
    connected, timeouts, failures

rpVars == <<outcome, call, answer, source, out, input, toServer, local, remote, connected, timeouts, failures>>

RpInit ==
    /\ outcome \in Outcomes
    /\ call = "sent" /\ answer = "none"
    /\ source = [state |-> "none", next |-> 1]
    /\ out = [buffer |-> <<>>, writing |-> FALSE, ended |-> FALSE, finished |-> FALSE,
              packets |-> 0, unacked |-> {}, pending |-> 0, wire |-> <<>>]
    /\ input = [buffer |-> <<>>, readable |-> FALSE, destroyed |-> FALSE, got |-> <<>>, over |-> "no"]
    /\ toServer = <<[type |-> "call"]>>
    /\ local = FALSE /\ remote = FALSE
    /\ connected = TRUE /\ timeouts = 0 /\ failures = 0

\* socket.emit(): what is sent on a socket that is disconnected is lost.
Emit(o, msg) == IF connected THEN [o EXCEPT !.wire = Append(@, msg)] ELSE o

ToServer(msg) == toServer' = IF connected THEN Append(toServer, msg) ELSE toServer

-----------------------------------------------------------------------------
(* The call. *)

\* _onCall(): the result is encoded when the function calls back; a stream among it is
\* registered and begins to flow. An unknown call and an exception are errors.
OnCall ==
    /\ toServer # <<>> /\ Head(toServer).type = "call"
    /\ toServer' = Tail(toServer)
    /\ out' = Emit(out, [type |-> "answer"])
    /\ source' = IF outcome = "stream" THEN [source EXCEPT !.state = "open"] ELSE source
    /\ local' = (outcome = "stream")
    /\ UNCHANGED <<outcome, call, answer, input, remote, connected, timeouts, failures>>

\* wrapCb of _call(): the streams are decoded, and registered, although the call may have
\* timed out (async.timeout) and nobody is called back.
ReceiveAnswer ==
    /\ out.wire # <<>> /\ Head(out.wire).type = "answer"
    /\ out' = [out EXCEPT !.wire = Tail(@)]
    /\ remote' = (outcome = "stream")
    /\ call' = IF call = "sent" THEN "done" ELSE call
    /\ answer' = IF call = "sent" THEN outcome ELSE answer
    /\ UNCHANGED <<outcome, source, input, toServer, local, connected, timeouts, failures>>

CallTimesOut ==
    /\ call = "sent"
    /\ \/ ~connected /\ UNCHANGED timeouts
       \/ connected /\ timeouts < MaxTimeouts /\ timeouts' = timeouts + 1
    /\ call' = "timedOut" /\ answer' = "ETIMEDOUT"
    /\ UNCHANGED <<outcome, source, out, input, toServer, local, remote, connected, failures>>

-----------------------------------------------------------------------------
(* SIOOutputStream: a Writable that sends what it has buffered as one packet. *)

FinishIfDone(o) ==
    IF o.ended /\ ~o.writing /\ o.buffer = <<>> /\ ~o.finished
    THEN Emit([o EXCEPT !.finished = TRUE], [type |-> "end"]) ELSE o

\* _writev(): the callback is called at once while there is room for another packet.
Writev(o, items) ==
    LET sent == Emit(o, [type |-> "data", items |-> items, id |-> o.packets + 1])
    IN  FinishIfDone([sent EXCEPT !.packets = @ + 1, !.unacked = @ \cup {o.packets + 1},
                                  !.pending = @ + 1, !.writing = o.pending + 1 >= MaxPendingAck])

\* Mutant: the end of the output is forgotten when its last write is done.
WriteDoneOnly(o) ==
    IF o.buffer = <<>> THEN [o EXCEPT !.writing = FALSE] ELSE Writev([o EXCEPT !.buffer = <<>>], o.buffer)

\* The callback of a write: what was buffered meanwhile is written.
WriteDone(o) ==
    IF o.buffer = <<>> THEN FinishIfDone([o EXCEPT !.writing = FALSE])
    ELSE Writev([o EXCEPT !.buffer = <<>>], o.buffer)

\* The end of the wait for a packet, before the error if there is one.
PacketDone(o, id) ==
    LET next == IF o.pending = MaxPendingAck THEN WriteDone(o) ELSE o
    IN  [next EXCEPT !.pending = @ - 1, !.unacked = @ \ {id}]

\* The source writes its next item, until the buffer is full.
Produce ==
    /\ source.state = "open" /\ source.next <= Items
    /\ Len(out.buffer) < HighWaterMark
    /\ source' = [source EXCEPT !.next = @ + 1]
    /\ out' = IF out.writing THEN [out EXCEPT !.buffer = Append(@, source.next)]
              ELSE Writev(out, <<source.next>>)
    /\ UNCHANGED <<outcome, call, answer, input, toServer, local, remote, connected, timeouts, failures>>

\* pipe() ends the output with its source, which closes.
SourceEnds ==
    /\ source.state = "open" /\ source.next > Items
    /\ source' = [source EXCEPT !.state = "ended"]
    /\ out' = FinishIfDone([out EXCEPT !.ended = TRUE])
    /\ local' = FALSE
    /\ UNCHANGED <<outcome, call, answer, input, toServer, remote, connected, timeouts, failures>>

\* A source that fails closes; pipe() does not end the output.
SourceFails ==
    /\ source.state = "open" /\ failures < MaxFailures
    /\ failures' = failures + 1
    /\ source' = [source EXCEPT !.state = "failed"]
    /\ local' = FALSE
    /\ UNCHANGED <<outcome, call, answer, out, input, toServer, remote, connected, timeouts>>

\* destroyStream(): only what is still registered.
DestroyStream ==
    /\ source' = IF local THEN [source EXCEPT !.state = "destroyed"] ELSE source
    /\ local' = FALSE

ReceiveAck ==
    /\ toServer # <<>> /\ Head(toServer).type = "ack"
    /\ toServer' = Tail(toServer)
    /\ out' = IF Head(toServer).id \in out.unacked THEN PacketDone(out, Head(toServer).id) ELSE out
    /\ UNCHANGED <<outcome, call, answer, source, input, local, remote, connected, timeouts, failures>>

\* The packet or its acknowledgement is on its way no more.
IsLost(id) ==
    /\ ~\E i \in DOMAIN out.wire : out.wire[i].type = "data" /\ out.wire[i].id = id
    /\ ~\E i \in DOMAIN toServer : toServer[i].type = "ack" /\ toServer[i].id = id

\* The remote is notified and the producer stopped.
AckTimesOut(id) ==
    /\ id \in out.unacked
    /\ \/ IsLost(id) /\ UNCHANGED timeouts
       \/ ~IsLost(id) /\ timeouts < MaxTimeouts /\ timeouts' = timeouts + 1
    /\ out' = Emit(PacketDone(out, id), [type |-> "error"])
    /\ DestroyStream
    /\ UNCHANGED <<outcome, call, answer, input, toServer, remote, connected, failures>>

ReceiveHangup ==
    /\ toServer # <<>> /\ Head(toServer).type = "hangup"
    /\ toServer' = Tail(toServer)
    /\ DestroyStream
    /\ UNCHANGED <<outcome, call, answer, out, input, remote, connected, timeouts, failures>>

-----------------------------------------------------------------------------
(* SIOInputStream. *)

Eof == Items + 1

\* What push() was given: a null, which is queued last, ends the stream and is no item.
ItemsOf(given) == IF Last(given) = Eof THEN Front(given) ELSE given

\* Mutant: the item that push() refuses is lost.
PushedButOne(in, n) ==
    [in EXCEPT !.buffer = SubSeq(@, n + 1, Len(@)),
               !.got = @ \o (IF n < Len(in.buffer) THEN SubSeq(in.buffer, 1, n - 1) ELSE ItemsOf(in.buffer)),
               !.over = IF in.buffer[n] = Eof /\ @ = "no" THEN "end" ELSE @]

\* _pushData() pushes what is queued, until push() says that the consumer has enough.
Pushed(in, n) ==
    [in EXCEPT !.buffer = SubSeq(@, n + 1, Len(@)),
               !.got = @ \o ItemsOf(SubSeq(in.buffer, 1, n)),
               !.over = IF in.buffer[n] = Eof /\ @ = "no" THEN "end" ELSE @]

\* The outcomes of _pushData(): all is pushed, or the rest waits for the next _read().
PushData(in) ==
    IF in.destroyed \/ in.buffer = <<>> THEN {in}
    ELSE {Pushed(in, Len(in.buffer))}
         \cup {[Pushed(in, n) EXCEPT !.readable = FALSE] : n \in 1 .. Len(in.buffer)}

\* _read(): the consumer wants more.
Read ==
    /\ call = "done" /\ answer = "stream" /\ ~input.destroyed /\ input.over # "end"
    /\ ~input.readable
    /\ input' \in PushData([input EXCEPT !.readable = TRUE])
    /\ UNCHANGED <<outcome, call, answer, source, out, toServer, local, remote, connected, timeouts, failures>>

Queued(items) ==
    LET in == [input EXCEPT !.buffer = @ \o items]
    IN  IF in.readable THEN PushData(in) ELSE {in}

NextMessage(type) ==
    /\ out.wire # <<>> /\ Head(out.wire).type = type
    /\ out' = [out EXCEPT !.wire = Tail(@)]

\* 'stream-data': what is for a stream that is not registered is neither queued nor
\* acknowledged.
ReceiveData ==
    /\ NextMessage("data")
    /\ IF remote
       THEN /\ input' \in Queued(Head(out.wire).items)
            /\ ToServer([type |-> "ack", id |-> Head(out.wire).id])
       ELSE UNCHANGED <<input, toServer>>
    /\ UNCHANGED <<outcome, call, answer, source, local, remote, connected, timeouts, failures>>

\* Mutant: the stream is closed when its consumer has read all of it.
ReceiveEndKeeps ==
    /\ NextMessage("end")
    /\ IF remote THEN input' \in Queued(<<Eof>>) ELSE UNCHANGED input
    /\ UNCHANGED <<outcome, call, answer, source, toServer, local, remote, connected, timeouts, failures>>

\* 'stream-end': the end is queued, and the stream is closed.
ReceiveEnd ==
    /\ NextMessage("end")
    /\ IF remote THEN input' \in Queued(<<Eof>>) ELSE UNCHANGED input
    /\ remote' = FALSE
    /\ UNCHANGED <<outcome, call, answer, source, toServer, local, connected, timeouts, failures>>

\* 'stream-error': the stream stays registered until its consumer destroys it.
ReceiveError ==
    /\ NextMessage("error")
    /\ input' = IF remote /\ input.over = "no" THEN [input EXCEPT !.over = "error"] ELSE input
    /\ UNCHANGED <<outcome, call, answer, source, toServer, local, remote, connected, timeouts, failures>>

\* destroy(), by the consumer: the producer is hung up on.
Destroy ==
    /\ call = "done" /\ answer = "stream" /\ ~input.destroyed
    /\ input' = [input EXCEPT !.destroyed = TRUE, !.buffer = <<>>, !.readable = FALSE]
    /\ remote' = FALSE
    /\ ToServer([type |-> "hangup"])
    /\ UNCHANGED <<outcome, call, answer, source, out, local, connected, timeouts, failures>>

\* What is on its way is lost; neither end of the stream takes notice.
Disconnect ==
    /\ MaxDisconnects > 0 /\ connected
    /\ connected' = FALSE
    /\ toServer' = <<>> /\ out' = [out EXCEPT !.wire = <<>>]
    /\ UNCHANGED <<outcome, call, answer, source, input, local, remote, timeouts, failures>>

-----------------------------------------------------------------------------
Deliver == OnCall \/ ReceiveAnswer \/ ReceiveAck \/ ReceiveHangup \/ ReceiveData \/ ReceiveEnd \/ ReceiveError

Timer == CallTimesOut \/ \E id \in out.unacked : AckTimesOut(id)

RpNext ==
    \/ Deliver \/ Timer \/ Produce \/ SourceEnds \/ SourceFails \/ Read \/ Destroy \/ Disconnect

LostTimer == (call = "sent" /\ ~connected /\ CallTimesOut) \/ \E id \in out.unacked : IsLost(id) /\ AckTimesOut(id)

\* The socket delivers, timers fire, the source goes on and the consumer reads.
RpFairness ==
    WF_rpVars(Deliver) /\ WF_rpVars(LostTimer) /\ WF_rpVars(Produce \/ SourceEnds) /\ WF_rpVars(Read)

RpSpec == RpInit /\ [][RpNext]_rpVars /\ RpFairness

-----------------------------------------------------------------------------
(* Properties. *)

\* The counter of packets that are not acknowledged (nPendingAck) is their number, and
\* never more than maxPendingAck, across acknowledgements that come after their timeout.
RpTypeOK ==
    /\ out.pending = Cardinality(out.unacked) /\ out.pending \in 0 .. MaxPendingAck
    /\ Len(out.buffer) <= HighWaterMark
    /\ out.finished => out.ended /\ out.buffer = <<>>
    /\ remote => outcome = "stream" /\ ~input.destroyed
    /\ answer # "none" => call # "sent"

\* The consumer gets the items of the source in order, each once, with none left out,
\* whatever is buffered on both sides, destroyed or timed out (_writev, _pushData), and all
\* of them before it is told of the end (_onend).
StreamIsFaithful ==
    /\ IsPrefix(input.got, [i \in 1 .. Items |-> i])
    /\ input.over = "end" => source.state = "ended" /\ Len(input.got) = Items

Quiet == out.wire = <<>> /\ toServer = <<>> /\ out.unacked = {} /\ connected

\* The server has a stream registered (localStreams) only as long as its source goes on, and
\* the client (remoteStreams) only until its consumer destroys it. When the source is over
\* and nothing is on its way any more, the client has it registered in two cases only, and
\* until the consumer destroys it: the source failed, of which the client is told nothing,
\* or the stream ended with an error.
StreamsAreReleased ==
    /\ local => source.state = "open"
    /\ remote => ~input.destroyed
    /\ Quiet /\ call # "sent" /\ source.state # "open" /\ remote =>
           source.state = "failed" \/ input.over = "error"

\* A stream that the caller was given ends, with or without an error, or is destroyed, as
\* long as its source does not fail and the socket stays connected.
StreamSettles ==
    (answer = "stream") ~> (input.over # "no" \/ input.destroyed \/ ~connected \/ failures > 0)
================================================================================
