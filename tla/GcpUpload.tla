------------------------------ MODULE GcpUpload ------------------------------
(***************************************************************************)
(* The managed upload of an object to GCP (GcpManagedUpload), which has no *)
(* multipart uploads: the body is cut into parts that are objects of a     *)
(* second bucket, composed there in two rounds, copied to the bucket and   *)
(* removed (completeMPU, MpuHelper), or removed at a failure (abortMPU).   *)
(*                                                                         *)
(* The body is the sequence of its units; those of a stream arrive while   *)
(* requests are in flight. Every request may be served, fail, be served    *)
(* and have its answer lost, or be told to slow down.                      *)
(***************************************************************************)
EXTENDS Integers, Sequences, FiniteSets, SequencesExt, FiniteSetsExt

CONSTANTS
    Totals,         \* sizes of the bodies, in units
    PartSize,       \* minimumAllowedPartSize
    Slice,          \* how many objects one composition takes
    QueueSize,
    DeleteLimit,    \* how many objects are deleted at a time
    MaxBuffered,    \* bound of what the stream holds, its highWaterMark
    MaxFailures,    \* bound of failed requests and streams
    MaxSlow         \* bound of the answers that ask for a retry

ASSUME GcpAssumption ==
    /\ Totals \subseteq Nat \ {0}
    /\ {PartSize, Slice, QueueSize, DeleteLimit, MaxBuffered} \subseteq Nat \ {0}
    /\ {MaxFailures, MaxSlow} \subseteq Nat

VARIABLES
    totalBytes, bodyType,   \* "stream" or "buffer"
    body,       \* the stream: [left, held, eof, readable, ended, gone]
    upload,     \* the fields of GcpManagedUpload, where its completion is, and (missed) a
                \* history: the objects that the removal after a failure does not reach
    requests,   \* in flight at GCP
    mpuBucket,  \* content of the objects of the upload in the second bucket
    mainObject, \* content of the object, <<>> before
    answers,    \* what the callback was called with
    failures, slowed

guVars == <<totalBytes, bodyType, body, upload, requests, mpuBucket, mainObject, answers,
            failures, slowed>>

Whole == [i \in 1 .. totalBytes |-> i]
totalParts == (totalBytes + PartSize - 1) \div PartSize
slices == (totalParts + Slice - 1) \div Slice

\* sliceFn(), eachSlice(): the n-th piece of a sequence.
Piece(s, size, n) == SubSeq(s, (n - 1) * size + 1, Min({n * size, Len(s)}))

\* createMpuKey().
MpuKey(kind, n) == [kind |-> kind, n |-> n]
PartNumbersOf(n) == {(n - 1) * Slice + k : k \in 1 .. Slice} \cap 1 .. totalParts

-----------------------------------------------------------------------------
(* A turn t is the state that the callbacks of one event change.           *)

UploadTurn == [body |-> body, up |-> upload, requests |-> requests, mpu |-> mpuBucket,
               main |-> mainObject, answers |-> answers]

UploadTurnEnds(turn) ==
    \E t \in {turn} :
        /\ body' = t.body
        /\ upload' = t.up
        /\ requests' = t.requests
        /\ mpuBucket' = t.mpu
        /\ mainObject' = t.main
        /\ answers' = t.answers

Request(op, n, task) == [op |-> op, key |-> MpuKey(op, n), task |-> task, content |-> <<>>]
Send(t, r) == [t EXCEPT !.requests = @ \cup {r}]
SendAll(t, rs) == [t EXCEPT !.requests = @ \cup rs]
AnswerCaller(t, result) == [t EXCEPT !.answers = Append(@, result)]
IsOver(t) == t.up.failed \/ t.up.completed

\* removeParts(): all objects are listed, then deleted.
RemoveParts(t, task) == Send(t, Request("list", 0, task))

\* What is still in flight, or could not be listed or deleted, stays.
Misses(t, keys) == [t EXCEPT !.up.missed = @ \cup keys \cup {r.key : r \in t.requests}]

CleanUp(t) ==
    LET failed == [t EXCEPT !.up.failed = TRUE]
    IN  IF IsOver(t) THEN t
        ELSE IF t.up.uploadId THEN RemoveParts(failed, "abort")
        ELSE AnswerCaller(Misses(failed, {}), "error")

CopyToMain(t) == [Send(t, Request("head", 0, "complete")) EXCEPT !.up.completing = "copy"]

\* completeMPU: the slices are composed, one of a single part is copied.
CompleteUpload(t) ==
    IF IsOver(t) THEN t
    ELSE [SendAll(t, {Request("compose", n, "complete") : n \in 1 .. slices})
            EXCEPT !.up.completing = "split"]

UploadSingle(t) == IF IsOver(t) THEN t ELSE Send(t, Request("put", 0, "upload"))

\* Mutant: a part of an upload that is over is uploaded all the same.
UploadChunkAnyway(t, n, chunk) == Send(t, [Request("parts", n, "upload") EXCEPT !.content = chunk])

UploadChunk(t, n, chunk) ==
    IF IsOver(t) THEN t
    ELSE Send(t, [Request("parts", n, "upload") EXCEPT !.content = chunk])

-----------------------------------------------------------------------------
(* chunkStream() and processChunk().                                       *)

ProcessChunk(t, chunk) ==
    LET n == t.up.partNumber + 1
        numbered == [t EXCEPT !.up.partNumber = n]
        queued == [numbered EXCEPT !.up.partQueue = Append(@, [n |-> n, chunk |-> chunk])]
    IN  IF t.up.uploadId
        THEN [UploadChunk(numbered, n, chunk) EXCEPT !.up.activeParts = @ + 1]
        ELSE IF t.up.multipartReq THEN queued
        ELSE [Send(queued, Request("init", 0, "upload")) EXCEPT !.up.multipartReq = TRUE]

\* A part that is cut while the upload exists lets the next one be read at once, unless
\* QueueSize are active. After the end of the stream the rest is a part as well; without a
\* rest and an uploaded part the object is taken for an empty one.
ChunkStream(t0) ==
    LET ReadOnce(step, i) ==
            LET t == step.t
                n == Min({PartSize - Len(t.up.partBuffers), Len(t.body.held)})
                filled == t.up.partBuffers \o SubSeq(t.body.held, 1, n)
                read == [t EXCEPT !.body.held = SubSeq(@, n + 1, Len(@)), !.up.partBuffers = filled]
                processed == ProcessChunk([read EXCEPT !.up.partBuffers = <<>>], filled)
            IN  IF ~step.again THEN step
                ELSE IF Len(filled) < PartSize THEN [t |-> read, again |-> FALSE]
                ELSE [t |-> processed,
                      again |-> t.up.uploadId /\ processed.up.activeParts < QueueSize]
        cut == FoldLeft(ReadOnce, [t |-> t0, again |-> TRUE], [i \in 1 .. totalParts + 1 |-> i]).t
        last == [cut EXCEPT !.up.completeChunking = TRUE, !.up.partBuffers = <<>>]
    IN  IF ~cut.up.isDoneChunking \/ cut.up.completeChunking THEN cut
        ELSE IF cut.up.partBuffers # <<>> THEN ProcessChunk(last, cut.up.partBuffers)
        ELSE IF cut.up.uploadedParts = 0 THEN [UploadSingle(last) EXCEPT !.up.restarted = TRUE]
        ELSE last

\* uploadBufferSlices(): the next slice, QueueSize of them at a time.
UploadNextSlice(t) ==
    LET n == t.up.partNumber + 1
    IN  IF n > totalParts \/ t.up.failed THEN t
        ELSE [Send(t, [Request("parts", n, "upload") EXCEPT !.content = Piece(Whole, PartSize, n)])
                EXCEPT !.up.partNumber = n]

-----------------------------------------------------------------------------
(* What an answered request makes of the upload.                           *)

Created(t) ==
    LET known == [t EXCEPT !.up.uploadId = TRUE]
    IN  IF bodyType = "stream"
        THEN FoldLeft(LAMBDA u, p : UploadChunk(u, p.n, p.chunk), known, t.up.partQueue)
        ELSE FoldLeft(LAMBDA u, i : UploadNextSlice(u), known, [i \in 1 .. QueueSize |-> i])

PartUploaded(t, r) ==
    LET uploaded == [t EXCEPT !.up.parts = @ \cup {r.key.n}, !.up.uploadedParts = @ + 1,
                              !.up.activeParts = @ - 1]
        all == uploaded.up.uploadedParts = totalParts
    IN  IF bodyType = "buffer"
        THEN IF t.up.failed THEN uploaded
             ELSE IF all THEN CompleteUpload(uploaded) ELSE UploadNextSlice(uploaded)
        ELSE IF all /\ uploaded.up.isDoneChunking THEN CompleteUpload(uploaded)
        ELSE ChunkStream(uploaded)

\* composeFinal(): one composition of all is copied as it is.
SliceDone(t) ==
    IF t.up.completing # "split" \/ \E r \in t.requests : r.op = "compose" THEN t
    ELSE IF slices < 2 THEN CopyToMain(t)
    ELSE [Send(t, Request("final", 0, "complete")) EXCEPT !.up.completing = "final"]

\* The end of completeMPU or abortMPU.
TaskEnds(t, task, result) ==
    IF task = "abort" THEN AnswerCaller(t, "error")
    ELSE LET over == [t EXCEPT !.up.completing = "over"]
         IN  IF result = "error" THEN CleanUp(over)
             ELSE AnswerCaller([over EXCEPT !.up.completed = TRUE], "success")

IsListening(t, r) ==
    IF r.task = "abort" THEN t.up.aborting ELSE t.up.completing = "copy"

\* removeParts(): the next deletions of what is listed, DeleteLimit at a time.
DeleteNext(t, r, n) ==
    LET left == t.up.listed[r.task]
        next == {left[i] : i \in 1 .. Min({n, Len(left)})}
    IN  [SendAll(t, {[Request("delete", 0, r.task) EXCEPT !.key = k] : k \in next})
            EXCEPT !.up.listed[r.task] = SubSeq(@, Cardinality(next) + 1, Len(@))]

\* Mutant: the first deletion ends the removal.
RemovedFirst(t, r) ==
    IF ~IsListening(t, r) THEN t
    ELSE TaskEnds([t EXCEPT !.up.aborting = @ /\ r.task # "abort"], r.task, "success")

Removed(t, r) ==
    IF ~IsListening(t, r) THEN t
    ELSE IF t.up.listed[r.task] # <<>> THEN DeleteNext(t, r, 1)
    ELSE IF \E d \in t.requests : d.op = "delete" /\ d.task = r.task THEN t
    ELSE TaskEnds([t EXCEPT !.up.aborting = @ /\ r.task # "abort"], r.task, "success")

Listed(t, r) ==
    LET known  == IF r.task = "abort" THEN Misses(t, {}) ELSE t
        listed == [known EXCEPT !.up.listed[r.task] = FoldSet(LAMBDA k, ks : Append(ks, k), <<>>, DOMAIN t.mpu),
                                !.up.aborting = @ \/ r.task = "abort"]
    IN  IF DOMAIN t.mpu = {} THEN Removed(listed, r) ELSE DeleteNext(listed, r, DeleteLimit)

RequestSucceeded(t, r) ==
    CASE r.op = "init"    -> Created(t)
      [] r.op = "parts"   -> PartUploaded(t, r)
      [] r.op = "put"     -> AnswerCaller([t EXCEPT !.up.completed = TRUE], "success")
      [] r.op = "compose" -> SliceDone(t)
      [] r.op = "final"   -> CopyToMain(t)
      [] r.op = "head"    -> Send(t, Request("copy", 0, "complete"))
      [] r.op = "copy"    -> Send(t, Request("headMain", 0, "complete"))
      [] r.op = "headMain" -> RemoveParts(t, "complete")
      [] r.op = "list"    -> Listed(t, r)
      [] r.op = "delete"  -> Removed(t, r)

\* What a failure leaves in the second bucket for good.
MissedBy(t, r) ==
    CASE r.op = "init" -> {r.key}
      [] r.op = "list" /\ r.task = "abort" -> DOMAIN t.mpu
      [] r.op = "delete" /\ r.task = "abort" -> {r.key} \cup ToSet(t.up.listed.abort)
      [] OTHER -> {}

RequestFailed(u, r) ==
    LET missed == MissedBy(u, r)
        t == IF missed = {} THEN u ELSE Misses(u, missed)
    IN
    CASE r.op \in {"init", "parts", "put"} -> CleanUp(t)
      [] r.op = "compose" -> IF t.up.completing = "split" THEN TaskEnds(t, r.task, "error") ELSE t
      [] r.op = "list"    -> TaskEnds(t, r.task, "error")
      [] r.op = "delete"  -> IF IsListening(t, r)
                             THEN TaskEnds([t EXCEPT !.up.aborting = @ /\ r.task # "abort",
                                                     !.up.listed[r.task] = <<>>],
                                           r.task, "error")
                             ELSE t
      [] OTHER            -> TaskEnds(t, r.task, "error")

-----------------------------------------------------------------------------
(* GCP.                                                                    *)

Sources(r) ==
    CASE r.op = "compose" -> {MpuKey("parts", n) : n \in PartNumbersOf(r.key.n)}
      [] r.op = "final"   -> {MpuKey("compose", n) : n \in 1 .. slices}
      [] r.op = "copy"    -> {IF slices < 2 THEN MpuKey("compose", 1) ELSE MpuKey("final", 0)}
      [] r.op = "head"    -> {MpuKey("init", 0)}
      [] OTHER            -> {}

\* A stream that was read already has nothing left to put.
CanBeServed(t, r) ==
    /\ Sources(r) \subseteq DOMAIN t.mpu
    /\ r.op = "put" => ~t.up.restarted
    /\ r.op = "headMain" => t.main # <<>>

\* Sources in the order of their numbers, one after the other.
Composed(t, sources) ==
    FlattenSeq([i \in 1 .. Cardinality(sources) |->
        LET k == CHOOSE s \in sources : Cardinality({u \in sources : u.n < s.n}) = i - 1
        IN  t.mpu[k]])

WithObject(t, key, content) ==
    [t EXCEPT !.mpu = [k \in DOMAIN t.mpu \cup {key} |-> IF k = key THEN content ELSE t.mpu[k]]]

Served(t, r) ==
    CASE r.op \in {"init", "parts"}    -> WithObject(t, r.key, r.content)
      [] r.op \in {"compose", "final"} -> WithObject(t, r.key, Composed(t, Sources(r)))
      [] r.op = "put"    -> [t EXCEPT !.main = Whole]
      [] r.op = "copy"   -> [t EXCEPT !.main = Composed(t, Sources(r))]
      [] r.op = "delete" -> [t EXCEPT !.mpu = [k \in DOMAIN @ \ {r.key} |-> @[k]]]
      [] OTHER           -> t

-----------------------------------------------------------------------------
(* Actions. *)

\* send(): a small body is put at once, a buffer is sliced, a stream is read as it comes.
GuInit ==
    /\ totalBytes \in Totals
    /\ bodyType \in {"stream", "buffer"}
    /\ body = [left |-> Whole, held |-> <<>>, eof |-> FALSE, readable |-> FALSE, ended |-> FALSE,
               gone |-> FALSE]
    /\ upload = [uploadId |-> FALSE, multipartReq |-> bodyType = "buffer", partNumber |-> 0,
                 partBuffers |-> <<>>, partQueue |-> <<>>, activeParts |-> 0, uploadedParts |-> 0,
                 parts |-> {}, isDoneChunking |-> FALSE, completeChunking |-> FALSE,
                 restarted |-> FALSE, failed |-> FALSE, completed |-> FALSE,
                 completing |-> "no", aborting |-> FALSE, missed |-> {},
                 listed |-> [complete |-> <<>>, abort |-> <<>>]]
    /\ requests = IF totalBytes <= PartSize THEN {Request("put", 0, "upload")}
                  ELSE IF bodyType = "buffer" THEN {Request("init", 0, "upload")} ELSE {}
    /\ mpuBucket = [k \in {} |-> <<>>]
    /\ mainObject = <<>>
    /\ answers = <<>>
    /\ failures = 0
    /\ slowed = 0

Streaming == bodyType = "stream" /\ totalBytes > PartSize /\ ~body.gone /\ ~body.ended

Arrive(n) ==
    /\ Streaming /\ ~body.eof
    /\ n <= Len(body.left)
    /\ Len(body.held) + n <= MaxBuffered
    /\ body' = [body EXCEPT !.left = SubSeq(@, n + 1, Len(@)), !.held = @ \o SubSeq(body.left, 1, n),
                            !.eof = n = Len(body.left), !.readable = TRUE]
    /\ UNCHANGED <<totalBytes, bodyType, upload, requests, mpuBucket, mainObject, answers,
                   failures, slowed>>

Readable ==
    /\ Streaming /\ body.readable
    /\ UploadTurnEnds(ChunkStream([UploadTurn EXCEPT !.body.readable = FALSE]))
    /\ UNCHANGED <<totalBytes, bodyType, failures, slowed>>

\* The end comes when all has been read.
BodyEnd ==
    /\ Streaming /\ body.eof /\ ~body.readable /\ body.held = <<>>
    /\ LET t == ChunkStream([UploadTurn EXCEPT !.body.ended = TRUE, !.up.isDoneChunking = TRUE])
       IN  UploadTurnEnds(IF t.up.uploadedParts = totalParts THEN CompleteUpload(t) ELSE t)
    /\ UNCHANGED <<totalBytes, bodyType, failures, slowed>>

BodyError ==
    /\ Streaming /\ ~body.eof
    /\ failures < MaxFailures
    /\ failures' = failures + 1
    /\ UploadTurnEnds(CleanUp([UploadTurn EXCEPT !.body.gone = TRUE]))
    /\ UNCHANGED <<totalBytes, bodyType, slowed>>

\* The client hangs up: the stream is destroyed without an event.
ClientGone ==
    /\ Streaming /\ ~body.eof
    /\ failures < MaxFailures
    /\ failures' = failures + 1
    /\ body' = [body EXCEPT !.gone = TRUE]
    /\ UNCHANGED <<totalBytes, bodyType, upload, requests, mpuBucket, mainObject, answers, slowed>>

AnswerOk(r) ==
    /\ CanBeServed(UploadTurn, r)
    /\ LET t == [UploadTurn EXCEPT !.requests = @ \ {r}] IN UploadTurnEnds(RequestSucceeded(Served(t, r), r))
    /\ UNCHANGED <<totalBytes, bodyType, failures, slowed>>

\* A request that cannot be served fails; another may, and may have been served all the same.
AnswerError(r) ==
    /\ IF CanBeServed(UploadTurn, r) THEN failures < MaxFailures /\ failures' = failures + 1
       ELSE UNCHANGED failures
    /\ \E lost \in IF CanBeServed(UploadTurn, r) THEN BOOLEAN ELSE {FALSE} :
        LET t == [UploadTurn EXCEPT !.requests = @ \ {r}]
        IN  UploadTurnEnds(RequestFailed(IF lost THEN Served(t, r) ELSE t, r))
    /\ UNCHANGED <<totalBytes, bodyType, slowed>>

\* Compositions and copies are sent again (_retry) except the copy of a slice of one part.
SlowDown(r) ==
    /\ r.op \in {"compose", "final", "copy"}
    /\ slowed < MaxSlow
    /\ slowed' = slowed + 1
    /\ UploadTurnEnds(IF r.op = "compose" /\ Cardinality(Sources(r)) < 2
              THEN RequestFailed([UploadTurn EXCEPT !.requests = @ \ {r}], r) ELSE UploadTurn)
    /\ UNCHANGED <<totalBytes, bodyType, failures>>

GuNext ==
    \/ \E n \in 1 .. MaxBuffered : Arrive(n)
    \/ Readable \/ BodyEnd \/ BodyError \/ ClientGone
    \/ \E r \in requests : AnswerOk(r) \/ AnswerError(r) \/ SlowDown(r)

\* Bodies arrive, and GCP answers.
GuFairness ==
    /\ WF_guVars(\E n \in 1 .. MaxBuffered : Arrive(n))
    /\ WF_guVars(Readable) /\ WF_guVars(BodyEnd)
    /\ WF_guVars(\E r \in requests : AnswerOk(r) \/ AnswerError(r))

GuSpec == GuInit /\ [][GuNext]_guVars /\ GuFairness

-----------------------------------------------------------------------------
(* Properties. *)

\* An upload that succeeds has put the whole body, every part once and in order, whatever
\* the order in which the parts are uploaded and composed, and has left nothing in the
\* second bucket. An upload that fails has left there only what was in flight when the
\* objects were listed, what could not be listed or deleted, and the object of an answer that
\* was lost before the upload was known. The caller is called back once.
\* Excepted from all but the first is the upload whose stream ends before any part is
\* uploaded, which is put once more, as if it were empty (PutAtTheEndIsAll).
GcpUploadIsExact ==
    /\ answers # <<>> /\ answers[1] = "success" => mainObject = Whole
    /\ ~upload.restarted =>
           /\ answers = <<"success">> => DOMAIN mpuBucket = {}
           /\ answers = <<"error">> => DOMAIN mpuBucket \subseteq upload.missed
           /\ Len(answers) <= 1

\* "this is a 0-byte object" (chunkStream): what is put at the end of a stream without an
\* uploaded part is all of its upload, which is called back once.
PutAtTheEndIsAll == upload.restarted => Len(answers) <= 1

\* Every upload whose client stays is answered.
GcpUploadEnds == <>(answers # <<>> \/ body.gone)
================================================================================
