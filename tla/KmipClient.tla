------------------------------ MODULE KmipClient ------------------------------
(***************************************************************************)
(* The KMIP client: its calls (network/kmip/Client), the requests they are *)
(* made of (network/kmip/index) and the transport that pipelines requests  *)
(* over one TLS socket at a time (network/kmip/transport).  A request is   *)
(* [of, step]: a step of a call, or of the handshake of a socket.          *)
(***************************************************************************)
EXTENDS Integers, Sequences, FiniteSetsExt

CONSTANTS
    KmipCalls,       \* the calls made
    KindOf,          \* KindOf[call]: which function of the client
    PipelineDepth,
    Sockets,         \* the numbers of the sockets (bound)
    MaxBreaks,       \* bound: sockets that the other side ends or that fail
    MaxEnds          \* bound: calls of the transport's end()

ASSUME KmipAssumption ==
    /\ PipelineDepth \in Nat \ {0}
    /\ Sockets \subseteq Nat \ {0}
    /\ KmipCalls \cap Nat = {}
    /\ KindOf \in [KmipCalls -> {"create", "destroy", "cipher", "healthcheck"}]

VARIABLES
    socket,          \* the current socket, 0 if none
    conv,            \* conv[socket]: [state, wire, drained]
    callbackPipeline,
    deferedRequests, \* (sic)
    pipelineDrained, \* the socket that is to be ended when the pipeline is empty, or 0
    nextTicks,       \* what process.nextTick() was given
    results,         \* results[call]: [answers, result, proof]
    breaks,
    ends

kmVars == <<socket, conv, callbackPipeline, deferedRequests, pipelineDrained, nextTicks,
            results, breaks, ends>>

Steps(kind) ==
    CASE kind = "create"      -> <<"Create", "Activate">>
      [] kind = "destroy"     -> <<"Revoke", "Destroy">>
      [] kind = "cipher"      -> <<"Encrypt">>
      [] kind = "healthcheck" -> <<"Create", "Activate", "Revoke", "Destroy">>

\* The step whose success answers the call; a health check goes on after it.
AnswerStep(kind) == IF kind = "healthcheck" THEN 2 ELSE Len(Steps(kind))

HandshakeSteps == 4   \* versions, extensions, server information, operations

-----------------------------------------------------------------------------
(* A turn t is the state of the transport and of the calls; the functions  *)
(* below are what one turn of the event loop calls synchronously.          *)

CurrentTurn == [socket |-> socket, conv |-> conv, pipeline |-> callbackPipeline,
                defered |-> deferedRequests, drained |-> pipelineDrained,
                ticks |-> nextTicks, results |-> results]

Finish(turn) ==
    \E t \in {turn} :
        /\ socket' = t.socket
        /\ conv' = t.conv
        /\ callbackPipeline' = t.pipeline
        /\ deferedRequests' = t.defered
        /\ pipelineDrained' = t.drained
        /\ nextTicks' = t.ticks
        /\ results' = t.results

Unused(t) == {n \in Sockets : t.conv[n].state = "none"}

\* socket.write(): before the connection is there the socket keeps it; after its
\* own end the socket destroys itself and reports the error in the next tick.
WriteTo(t, n, request) ==
    CASE t.conv[n].state \in {"connecting", "open"} ->
            [t EXCEPT !.conv[n].wire = Append(@, request)]
      [] t.conv[n].state = "ending" ->
            [t EXCEPT !.conv[n].state = "destroyed", !.conv[n].wire = <<>>,
                      !.ticks = Append(@, [error |-> n])]
      [] OTHER -> t

CreateConversation(t) ==
    LET n == Min(Unused(t))
    IN  [t EXCEPT !.socket = n, !.conv[n].state = "connecting"]

DoSend(t, request) ==
    LET queued == [t EXCEPT !.pipeline = Append(@, request)]
        usable == t.socket # 0 /\ t.conv[t.socket].state \notin {"destroyed", "closed"}
        connected == IF usable THEN queued ELSE CreateConversation(queued)
    IN  WriteTo(connected, connected.socket, request)

SendRequest(t, request) ==
    IF Len(t.pipeline) >= PipelineDepth THEN [t EXCEPT !.defered = Append(@, request)]
    ELSE DoSend(t, request)

AnswerCall(t, c, result) ==
    [t EXCEPT !.results[c].answers = @ + 1, !.results[c].result = result]

EndSocket(t, n) ==
    IF n # 0 /\ t.conv[n].state \in {"connecting", "open"}
    THEN [t EXCEPT !.conv[n].state = "ending"] ELSE t

\* The callback of a request that failed. The third step of the handshake goes
\* on all the same.
RequestFailed(t, request) ==
    IF request.of \in KmipCalls
    THEN IF request.step <= AnswerStep(KindOf[request.of])
         THEN AnswerCall(t, request.of, "error") ELSE t
    ELSE IF request.step = 3 THEN SendRequest(t, [request EXCEPT !.step = 4]) ELSE t

\* The callback of a request that succeeded.
RequestSucceeded(t, request, proof) ==
    LET c == request.of
        noted == [t EXCEPT !.results[c].proof = Append(@, proof)]
        next == SendRequest(noted, [request EXCEPT !.step = @ + 1])
        answered == AnswerStep(KindOf[c]) = request.step
    IN  IF c \in KmipCalls
        THEN CASE request.step = Len(Steps(KindOf[c])) ->
                    IF answered THEN AnswerCall(noted, c, "success") ELSE noted
               [] OTHER -> IF answered THEN AnswerCall(next, c, "success") ELSE next
        ELSE IF request.step = HandshakeSteps THEN t
             ELSE SendRequest(t, [request EXCEPT !.step = @ + 1])

\* Mutant: any response of a server that succeeded is taken.
ResponseUnchecked(t, n, request, response, status) ==
    IF status # "Success" THEN RequestFailed(t, request)
    ELSE RequestSucceeded(t, request, response)

\* KMIP.request(): a response to another request ends the conversation.
Response(t, n, request, response, status) ==
    IF response # request THEN RequestFailed(EndSocket(t, n), request)
    ELSE IF status # "Success" THEN RequestFailed(t, request)
    ELSE RequestSucceeded(t, request, response)

\* The callbacks of a queue, one after the other.
FailAll(requests, begin) ==
    LET after[i \in 0 .. Len(requests)] ==
            IF i = 0 THEN begin ELSE RequestFailed(after[i - 1], requests[i])
    IN  after[Len(requests)]

\* Mutant: the deferred requests are forgotten.
DrainPipelineOnly(t) ==
    [FailAll(t.pipeline, t) EXCEPT !.pipeline = <<>>, !.defered = <<>>]

\* _drainQueuesWithError(): what the callbacks send meanwhile is forgotten,
\* unless it is deferred while the pipeline is drained.
DrainQueuesWithError(t) ==
    LET pipelineFailed == FailAll(t.pipeline, t)
        bothFailed == FailAll(pipelineFailed.defered, pipelineFailed)
    IN  [bothFailed EXCEPT !.pipeline = <<>>, !.defered = <<>>]

-----------------------------------------------------------------------------
(* Actions. *)

KmInit ==
    /\ socket = 0
    /\ conv = [n \in Sockets |-> [state |-> "none", wire |-> <<>>]]
    /\ callbackPipeline = <<>>
    /\ deferedRequests = <<>>
    /\ pipelineDrained = 0
    /\ nextTicks = <<>>
    /\ results = [c \in KmipCalls |-> [answers |-> 0, result |-> "none", proof |-> <<>>]]
    /\ breaks = 0
    /\ ends = 0

\* Whether c was made: bound by one request of it somewhere.
Made(c) == results[c].result # "none"

Call(c) ==
    /\ ~Made(c)
    /\ LET t == CurrentTurn
           made == [t EXCEPT !.results[c].result = "pending"]
       IN  Finish(SendRequest(made, [of |-> c, step |-> 1]))
    /\ UNCHANGED <<breaks, ends>>

NextTick ==
    /\ nextTicks # <<>>
    /\ LET t == [CurrentTurn EXCEPT !.ticks = Tail(@)]
           tick == Head(nextTicks)
       IN  IF "error" \in DOMAIN tick
           THEN Finish(DrainQueuesWithError([t EXCEPT !.conv[tick.error].state = "closed"]))
           ELSE Finish(SendRequest(t, tick.request))
    /\ UNCHANGED <<breaks, ends>>

\* An event of the socket n, when no tick is left.
SocketEvent(n, states) ==
    /\ nextTicks = <<>>
    /\ conv[n].state \in states

\* The handshake begins when the connection is there, after what was written before.
Connected(n) ==
    /\ SocketEvent(n, {"connecting"})
    /\ Finish(SendRequest([CurrentTurn EXCEPT !.conv[n].state = "open"], [of |-> n, step |-> 1]))
    /\ UNCHANGED <<breaks, ends>>

\* The server answers requests in order, each in one piece of data.
Data(n, status) ==
    /\ SocketEvent(n, {"open", "ending"})
    /\ conv[n].wire # <<>>
    /\ LET t == [CurrentTurn EXCEPT !.conv[n].wire = Tail(@)]
           response == Head(conv[n].wire)
           shifted == [t EXCEPT !.pipeline = IF @ = <<>> THEN @ ELSE Tail(@)]
           called == IF t.pipeline = <<>> THEN t
                     ELSE Response(shifted, n, Head(t.pipeline), response, status)
       IN  Finish(
            CASE Len(called.pipeline) < PipelineDepth /\ called.defered # <<>> ->
                    [called EXCEPT !.defered = Tail(@),
                                   !.ticks = Append(@, [request |-> Head(called.defered)])]
              [] called.pipeline = <<>> /\ called.defered = <<>> /\ called.drained # 0 ->
                    [EndSocket(called, called.drained) EXCEPT !.drained = 0]
              [] OTHER -> called)
    /\ UNCHANGED <<breaks, ends>>

\* The other side ends the conversation: for once, or because this side did.
ServerEnds(n) ==
    /\ SocketEvent(n, {"open", "ending"})
    /\ breaks' = IF conv[n].state = "open" THEN breaks + 1 ELSE breaks
    /\ breaks' <= MaxBreaks
    /\ LET late == conv[n].state = "open" /\ conv[n].wire # <<>>
       IN  Finish(DrainQueuesWithError(
                [CurrentTurn EXCEPT !.socket = 0, !.conv[n].wire = <<>>,
                                    !.conv[n].state = IF late THEN "halfOpen" ELSE "closed"]))
    /\ UNCHANGED ends

\* The socket fails. One that the other side has ended may still fail, when what
\* was written to it cannot be delivered.
SocketFails(n) ==
    /\ SocketEvent(n, {"connecting", "open", "halfOpen"})
    /\ breaks < MaxBreaks
    /\ breaks' = breaks + 1
    /\ Finish([CurrentTurn EXCEPT !.conv[n].state = "destroyed", !.conv[n].wire = <<>>,
                                  !.ticks = Append(@, [error |-> n])])
    /\ UNCHANGED ends

\* The transport's end().
EndConversation ==
    /\ ends < MaxEnds
    /\ ends' = ends + 1
    /\ socket # 0
    /\ IF callbackPipeline # <<>> \/ deferedRequests # <<>>
       THEN Finish([CurrentTurn EXCEPT !.drained = socket])
       ELSE Finish(EndSocket(CurrentTurn, socket))
    /\ UNCHANGED breaks

KmNext ==
    \/ \E c \in KmipCalls : Call(c)
    \/ \E n \in Sockets :
        \/ Connected(n) \/ ServerEnds(n) \/ SocketFails(n)
        \/ \E status \in {"Success", "Operation Failed"} : Data(n, status)
    \/ NextTick
    \/ EndConversation

\* Ticks run, connections are made or fail, and the server answers what it
\* received; it ends a conversation that the client has ended.
KmFairness ==
    /\ WF_kmVars(NextTick)
    /\ \A n \in Sockets :
        /\ WF_kmVars(Connected(n))
        /\ WF_kmVars(\E status \in {"Success", "Operation Failed"} : Data(n, status))
        /\ WF_kmVars(conv[n].state = "ending" /\ ServerEnds(n))

KmSpec == KmInit /\ [][KmNext]_kmVars /\ KmFairness

-----------------------------------------------------------------------------
(* Properties. *)

\* A call that succeeds was answered by the responses to its own requests, in
\* order, whatever the sockets did; each call is answered at most once.
AnswersAreOwn ==
    \A c \in KmipCalls :
        /\ results[c].answers <= 1
        /\ results[c].proof = [i \in DOMAIN results[c].proof |-> [of |-> c, step |-> i]]
        /\ results[c].result = "success" => Len(results[c].proof) >= AnswerStep(KindOf[c])

\* A call that is made is called back, also across failures of the socket.
EveryKmipCallEnds == \A c \in KmipCalls : Made(c) ~> results[c].answers = 1

=============================================================================
