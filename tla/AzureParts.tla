------------------------------ MODULE AzureParts ------------------------------
(***************************************************************************)
(* The upload of one part of a multipart upload to Azure: a part larger    *)
(* than maxSubPartSize is cut into blocks that are staged while the body   *)
(* arrives (putSubParts, SubStreamInterface, ResultsCollector), a smaller  *)
(* one is staged as it comes (putSinglePart). The gateway adds the size to *)
(* the metric of the location first, and takes it off at a failure.        *)
(***************************************************************************)
EXTENDS Integers, Sequences, FiniteSets, SequencesExt, FiniteSetsExt

CONSTANTS
    Sizes,          \* sizes of the parts, in units
    MaxSubPartSize,
    MaxChunk,       \* bound of the chunks of the body
    MaxBlockFailures

ASSUME AzureAssumption ==
    /\ Sizes \subseteq Nat
    /\ MaxSubPartSize \in Nat \ {0}
    /\ MaxChunk \in 1 .. MaxSubPartSize
    /\ MaxBlockFailures \in Nat

VARIABLES
    size,
    requestBody,    \* [left, gone, piped, ended]: the body, and whether it is still piped
    held,       \* chunks that hashedStream has not passed on
    streams,    \* content of the sub-part streams, and whether they ended
    interface,  \* SubStreamInterface: [lengthCounter, aborted]
    collector,  \* ResultsCollector: [queue, results, finished]
    staging,    \* sub-parts whose stageBlock() is pending
    stagedBlocks,     \* Azure: content of the staged stagedBlocks
    answer,     \* what the gateway called back first: "none", "success" or "error"
    metric,     \* what the location counts for the part
    blockFailures

apVars == <<size, requestBody, held, streams, interface, collector, staging, stagedBlocks, answer, metric,
            blockFailures>>

Body == [i \in 1 .. size |-> i]
isSingle == size <= MaxSubPartSize

\* getSubPartInfo(), getSubPartSize(); sub-parts are numbered from 1 here.
expectedNumberSubParts == (size + MaxSubPartSize - 1) \div MaxSubPartSize
SubPartSize(i) ==
    IF i # expectedNumberSubParts THEN MaxSubPartSize
    ELSE size - (expectedNumberSubParts - 1) * MaxSubPartSize

-----------------------------------------------------------------------------
PartTurn == [requestBody |-> requestBody, held |-> held, streams |-> streams, interface |-> interface,
             collector |-> collector, staging |-> staging, answer |-> answer, metric |-> metric]

FinishPart(turn) ==
    \E t \in {turn} :
        /\ requestBody' = t.requestBody
        /\ held' = t.held
        /\ streams' = t.streams
        /\ interface' = t.interface
        /\ collector' = t.collector
        /\ staging' = t.staging
        /\ answer' = t.answer
        /\ metric' = t.metric

\* The gateway calls back once, but takes the size off at every failure it hears of.
PartCallback(t, result) ==
    [t EXCEPT !.answer = IF @ = "none" THEN result ELSE @,
              !.metric = IF result = "error" THEN @ - size ELSE @]

LastStream(t) == Len(t.streams)

WriteChunk(t, chunk) ==
    IF t.interface.aborted THEN t
    ELSE [t EXCEPT !.streams[LastStream(t)].content = @ \o chunk,
                   !.interface.lengthCounter = @ + Len(chunk)]

\* putNextSubPart(), for a new stream that takes the place of the current one.
TransitionToNextStream(t) ==
    [t EXCEPT !.streams = Append([@ EXCEPT ![Len(@)].ended = TRUE], [content |-> <<>>, ended |-> FALSE]),
              !.interface.lengthCounter = 0,
              !.collector.queue = @ + 1,
              !.staging = @ \cup {Len(t.streams) + 1}]

\* The 'data' handler: the chunk that passes the limit goes to two streams.
OnData(t, chunk) ==
    LET room == MaxSubPartSize - t.interface.lengthCounter
    IN  IF Len(chunk) <= room \/ isSingle THEN WriteChunk(t, chunk)
        ELSE WriteChunk(TransitionToNextStream(WriteChunk(t, SubSeq(chunk, 1, room))),
                   SubSeq(chunk, room + 1, Len(chunk)))

\* stopStreaming(): the body is no longer piped, the current sub-part is cut.
StopStreaming(t) ==
    [t EXCEPT !.requestBody.piped = FALSE, !.interface.aborted = TRUE,
              !.streams[LastStream(t)].ended = TRUE]

\* The 'error' and 'done' events; an assertion on the number of sub-parts that fails in
\* 'done' is caught, and counts as one more result.
OnError(t) == PartCallback(StopStreaming(t), "error")

OnDone(t, error) ==
    IF error THEN PartCallback(t, "error")
    ELSE IF t.collector.results = expectedNumberSubParts THEN PartCallback(t, "success")
    ELSE OnError([t EXCEPT !.collector.queue = @ - 1, !.collector.results = @ + 1])

\* Mutant: the end of the body completes the part, whatever is still pending.
PushResultEarly(t0, error) ==
    LET t == [t0 EXCEPT !.collector.queue = @ - 1, !.collector.results = @ + 1]
    IN  IF isSingle THEN PartCallback(t, IF error THEN "error" ELSE "success")
        ELSE IF t.collector.finished
        THEN OnDone([t EXCEPT !.collector.results = expectedNumberSubParts], error)
        ELSE IF error THEN OnError(t) ELSE t

PushResult(t0, error) ==
    LET t == [t0 EXCEPT !.collector.queue = @ - 1, !.collector.results = @ + 1]
    IN  IF isSingle THEN PartCallback(t, IF error THEN "error" ELSE "success")
        ELSE IF t.collector.queue = 0 /\ t.collector.finished THEN OnDone(t, error)
        ELSE IF error THEN OnError(t) ELSE t

-----------------------------------------------------------------------------
\* uploadPart(): the metric may refuse the part; one of no bytes stores nothing.
ApInit ==
    /\ size \in Sizes
    /\ held = <<>>
    /\ streams = <<[content |-> <<>>, ended |-> FALSE]>>
    /\ interface = [lengthCounter |-> 0, aborted |-> FALSE]
    /\ collector = [queue |-> 1, results |-> 0, finished |-> FALSE]
    /\ stagedBlocks = [i \in {} |-> <<>>]
    /\ \/ answer = "error" /\ metric = 0 /\ staging = {}
       \/ /\ answer = IF size = 0 THEN "success" ELSE "none"
          /\ metric = size
          /\ staging = IF size = 0 THEN {} ELSE {1}
    /\ requestBody = [left |-> Body, gone |-> FALSE, piped |-> staging # {}, ended |-> FALSE]
    /\ blockFailures = 0

\* A chunk of the body, or its end, comes down the pipe.
Receive(n) ==
    /\ requestBody.piped /\ ~requestBody.gone
    /\ n <= Len(requestBody.left)
    /\ held' = Append(held, SubSeq(requestBody.left, 1, n))
    /\ requestBody' = [requestBody EXCEPT !.left = SubSeq(@, n + 1, Len(@))]
    /\ UNCHANGED <<size, streams, interface, collector, staging, stagedBlocks, answer, metric, blockFailures>>

ReceiveEnd ==
    /\ requestBody.piped /\ ~requestBody.gone /\ ~requestBody.ended
    /\ requestBody.left = <<>>
    /\ requestBody' = [requestBody EXCEPT !.ended = TRUE]
    /\ UNCHANGED <<size, held, streams, interface, collector, staging, stagedBlocks, answer, metric, blockFailures>>

ClientLeaves ==
    /\ ~requestBody.gone /\ ~requestBody.ended
    /\ requestBody' = [requestBody EXCEPT !.gone = TRUE]
    /\ UNCHANGED <<size, held, streams, interface, collector, staging, stagedBlocks, answer, metric, blockFailures>>

Data ==
    /\ held # <<>>
    /\ FinishPart(OnData([PartTurn EXCEPT !.held = Tail(@)], Head(held)))
    /\ UNCHANGED <<size, stagedBlocks, blockFailures>>

\* Mutant: the results are not told that no more will come.
EndUnnoticed ==
    /\ requestBody.ended /\ held = <<>> /\ ~streams[Len(streams)].ended
    /\ streams' = [streams EXCEPT ![Len(streams)].ended = TRUE]
    /\ UNCHANGED <<collector, size, requestBody, held, interface, staging, stagedBlocks, answer, metric, blockFailures>>

\* The 'end' handler; the stream may have been cut before.
End ==
    /\ requestBody.ended /\ held = <<>> /\ ~collector.finished
    /\ collector' = [collector EXCEPT !.finished = TRUE]
    /\ streams' = [streams EXCEPT ![Len(streams)].ended = TRUE]
    /\ UNCHANGED <<size, requestBody, held, interface, staging, stagedBlocks, answer, metric, blockFailures>>

\* Azure stages the block when its stream has ended with the announced size.
IsWhole(i) == streams[i].ended /\ Len(streams[i].content) = SubPartSize(i)

StageBlock(i) ==
    /\ IsWhole(i)
    /\ stagedBlocks' = [j \in DOMAIN stagedBlocks \cup {i} |-> IF j = i THEN streams[i].content ELSE stagedBlocks[j]]
    /\ FinishPart(PushResult([PartTurn EXCEPT !.staging = @ \ {i}], FALSE))
    /\ UNCHANGED <<size, blockFailures>>

\* It fails for a stream of another size, and may fail at any time.
StageFails(i) ==
    /\ IF streams[i].ended /\ ~IsWhole(i) THEN UNCHANGED blockFailures
       ELSE blockFailures < MaxBlockFailures /\ blockFailures' = blockFailures + 1
    /\ FinishPart(PushResult([PartTurn EXCEPT !.staging = @ \ {i}], TRUE))
    /\ UNCHANGED <<size, stagedBlocks>>

ApNext ==
    \/ \E n \in 1 .. MaxChunk : Receive(n)
    \/ ReceiveEnd \/ ClientLeaves \/ Data \/ End
    \/ \E i \in staging : StageBlock(i) \/ StageFails(i)

\* The body arrives, the streams move it, and Azure answers.
ApFairness ==
    /\ WF_apVars(\E n \in 1 .. MaxChunk : Receive(n)) /\ WF_apVars(ReceiveEnd)
    /\ WF_apVars(Data) /\ WF_apVars(End)
    /\ WF_apVars(\E i \in staging : StageBlock(i) \/ StageFails(i))

ApSpec == ApInit /\ [][ApNext]_apVars /\ ApFairness

-----------------------------------------------------------------------------
(* Properties. *)

\* A block is the slice of the body its number stands for, however the body is chunked and
\* whichever sub-parts fail. The part is answered with success only when all its blocks are
\* staged, and then the location counts its size; after a failure it counts nothing of it.
AzurePartIsExact ==
    /\ \A i \in DOMAIN stagedBlocks :
           stagedBlocks[i] = SubSeq(Body, (i - 1) * MaxSubPartSize + 1, Min({i * MaxSubPartSize, size}))
    /\ answer = "success" => /\ DOMAIN stagedBlocks = 1 .. expectedNumberSubParts
                             /\ metric = size
    /\ answer = "error" => metric <= 0

\* Every part whose client stays is answered.
AzurePartEnds == <>(answer # "none" \/ requestBody.gone)
================================================================================
