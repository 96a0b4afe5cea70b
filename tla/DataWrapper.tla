------------------------------ MODULE DataWrapper ------------------------------
(***************************************************************************)
(* The data wrapper in front of two locations: one keeps data under keys   *)
(* of its own ("file"), the other under the name of the object ("azure").  *)
(* Objects are put, replaced, copied and deleted by concurrent requests;   *)
(* data may be ciphered with a key of the KMS. A location has a metric     *)
(* that is checked and raised before data is put, and lowered when data    *)
(* could not be put or has been deleted. Requests to a location may fail,  *)
(* or be served and have their answer lost.                                *)
(***************************************************************************)
EXTENDS Integers, Sequences, FiniteSets, TLC, SequencesExt, FiniteSetsExt

CONSTANTS
    DataRequests,   \* the requests: numbers from 1
    Pieces,         \* sizes of the locations of the object that is there
    NewSize,        \* size of the objects that are put
    MaxRetry,       \* MAX_RETRY
    DeletesAtATime, \* 5, the limit of the deletions of a batch
    MaxDataFailures,
    MaxRefusals     \* bound of refusals by the metric's quota

ASSUME DataAssumption ==
    /\ DataRequests \subseteq Nat \ {0}
    /\ {NewSize, DeletesAtATime} \subseteq Nat \ {0}
    /\ {MaxRetry, MaxDataFailures, MaxRefusals} \subseteq Nat

VARIABLES
    source,     \* the locations of the object that is there
    data,       \* what the locations keep: key -> [content, size, cipher]
    sizeMetric, \* location -> size
    req,        \* the state of each request
    drifted,    \* the metric is off (see MetricIsExact)
    dataFailures, refusals

dwVars == <<source, data, sizeMetric, req, drifted, dataFailures, refusals>>

DataLocations == {"file", "azure"}
NoCipher == <<0, 0>>
Unreadable == <<0, 0>>

\* Keys: of the object that is there, of its copy, and those a file location gives out.
SourceKey(location, i) == IF location = "azure" THEN <<"azure", 0, 0>> ELSE <<"file", 0, i>>
NewKey(p) ==
    IF req[p].dest = "file" THEN <<"file", p, req[p].i>>
    ELSE IF req[p].kind = "copy" THEN <<"azure", 0, 1>> ELSE <<"azure", 0, 0>>

LocationOf(key) == key[1]
IsFromAzure == LocationOf(source[1].key) = "azure"

\* externalBackendCopy(): plain data between locations of one type.
IsNative(r) == r.kind = "copy" /\ r.dest = "azure" /\ IsFromAzure /\ ~r.sse /\ source[1].cipher = NoCipher

\* Mutant: what has been replaced is always deleted.
NeverSkipDelete(r) == FALSE

\* _shouldSkipDelete(): what a new object has replaced at an external location.
ShouldSkipDelete(r) == r.kind = "put" /\ r.dest = "azure" /\ IsFromAzure

PieceSize(p) == IF req[p].kind = "put" THEN NewSize ELSE source[req[p].i].size

Set(p, fields) == req' = [req EXCEPT ![p] = fields @@ @]
AnswerWith(r, result) == [answers |-> Append(r.answers, result)]
Fail(p) == Set(p, [pc |-> "done"] @@ AnswerWith(req[p], "error"))

\* batchDelete() of the object that is there.
StartDeleting ==
    LET n == Min({DeletesAtATime, Len(source)}) IN [pc |-> "delete", running |-> 1 .. n, next |-> n + 1]

-----------------------------------------------------------------------------
DwInit ==
    \E location \in DataLocations, cipher \in {NoCipher, <<0, 1>>} :
        LET count == IF location = "azure" THEN 1 ELSE Len(Pieces)
            bytes == FoldLeft(LAMBDA a, b : a + b, 0, SubSeq(Pieces, 1, count))
            Request(kind, dest, sse) ==
                [kind |-> kind, dest |-> dest, sse |-> sse, i |-> 1, read |-> Unreadable, results |-> <<>>,
                 running |-> {}, next |-> 1, tries |-> [j \in 1 .. count |-> 0], answers |-> <<>>,
                 pc |-> CASE kind = "delete" -> "start"
                          [] kind = "copy" /\ location = "file" -> "get"
                          [] OTHER -> "check"]
        IN  /\ source = [i \in 1 .. count |->
                            [key |-> SourceKey(location, i), size |-> Pieces[i], cipher |-> cipher]]
            /\ data = [k \in {SourceKey(location, i) : i \in 1 .. count} |->
                        LET i == IF location = "azure" THEN 1 ELSE k[3]
                        IN  [content |-> <<0, i>>, size |-> Pieces[i], cipher |-> cipher]]
            /\ sizeMetric = [l \in DataLocations |-> IF l = location THEN bytes ELSE 0]
            /\ req \in [DataRequests -> {Request(kind, dest, sse) : kind \in {"put", "copy", "delete"},
                                                                   dest \in DataLocations, sse \in BOOLEAN}]
            /\ drifted = FALSE
            /\ dataFailures = 0
            /\ refusals = 0

DataFails == dataFailures < MaxDataFailures /\ dataFailures' = dataFailures + 1

-----------------------------------------------------------------------------
(* put(), and copyObject() with a get() before each put().                  *)

\* get(): what is ciphered is deciphered, except that of Azure, which goes to the response
\* as it is. A read of what is not there fails.
GetOk(p) ==
    LET part == source[req[p].i]
    IN  /\ req[p].pc = "get"
        /\ part.key \in DOMAIN data
        /\ LET d == data[part.key]
               read == IF d.cipher = (IF IsFromAzure THEN NoCipher ELSE part.cipher) THEN d.content
                       ELSE Unreadable
           IN  Set(p, [pc |-> IF IsFromAzure THEN "put" ELSE "check", read |-> read])
        /\ UNCHANGED <<source, data, sizeMetric, drifted, dataFailures, refusals>>

\* From Azure the put has begun: it waits for a body that never comes, and stays counted.
GetFails(p) ==
    /\ req[p].pc = "get"
    /\ source[req[p].i].key \in DOMAIN data => DataFails
    /\ source[req[p].i].key \notin DOMAIN data => UNCHANGED dataFailures
    /\ drifted' = (drifted \/ IsFromAzure)
    /\ Fail(p)
    /\ UNCHANGED <<source, data, sizeMetric, refusals>>

\* createCipherBundle(), before the metric is asked.
KmsFails(p) ==
    /\ req[p].pc = "check" /\ req[p].sse /\ req[p].kind = "copy"
    /\ DataFails
    /\ Fail(p)
    /\ UNCHANGED <<source, data, sizeMetric, drifted, refusals>>

\* locStorageCheckFn().
Accept(p) ==
    /\ req[p].pc = "check"
    /\ sizeMetric' = [sizeMetric EXCEPT ![req[p].dest] = @ + PieceSize(p)]
    /\ Set(p, [pc |-> IF IsNative(req[p]) THEN "native"
                      ELSE IF req[p].kind = "copy" /\ IsFromAzure THEN "get" ELSE "put"])
    /\ UNCHANGED <<source, data, drifted, dataFailures, refusals>>

\* The gateway answers a refused copy between external locations, and copies all the same.
Refuse(p) ==
    /\ req[p].pc = "check"
    /\ refusals < MaxRefusals
    /\ refusals' = refusals + 1
    /\ Set(p, [pc |-> IF IsNative(req[p]) THEN "native" ELSE "done"] @@ AnswerWith(req[p], "error"))
    /\ drifted' = (drifted \/ IsNative(req[p]))
    /\ UNCHANGED <<source, data, sizeMetric, dataFailures>>

Store(key, d) ==
    /\ data' = [k \in DOMAIN data \cup {key} |-> IF k = key THEN d ELSE data[k]]
    /\ drifted' = (drifted \/ key \in DOMAIN data)

\* The cipher of what request p puts: the key it was given, or one of the KMS.
CipherOf(p) == IF req[p].sse THEN <<p, req[p].i>> ELSE NoCipher

StoredPiece(p) ==
    [content |-> IF req[p].kind = "put" THEN <<p, 1>> ELSE req[p].read, size |-> PieceSize(p),
     cipher |-> CipherOf(p)]

\* One piece is put: a copy goes on with the next, a put replaces the object that was there.
AfterPut(p) ==
    LET r == req[p]
        results == Append(r.results, [key |-> NewKey(p), size |-> PieceSize(p), cipher |-> CipherOf(p)])
        answered == AnswerWith(r, "success") @@ [results |-> results]
    IN  IF r.kind = "copy" /\ r.i < Len(source)
        THEN [results |-> results, i |-> r.i + 1, pc |-> IF IsFromAzure THEN "check" ELSE "get"]
        ELSE IF r.kind = "copy" \/ ShouldSkipDelete(r) THEN [pc |-> "done"] @@ answered
        ELSE StartDeleting @@ answered

PutOk(p) ==
    /\ req[p].pc = "put"
    /\ Store(NewKey(p), StoredPiece(p))
    /\ Set(p, AfterPut(p))
    /\ UNCHANGED <<source, sizeMetric, dataFailures, refusals>>

\* Data may be there although the put failed: a lost answer, a failed fsync().
PutFails(p) ==
    /\ req[p].pc \in {"put", "native"}
    /\ DataFails
    /\ \/ UNCHANGED <<data, drifted>>
       \/ req[p].pc = "put" /\ drifted' = TRUE
          /\ data' = [k \in DOMAIN data \cup {NewKey(p)} |-> IF k = NewKey(p) THEN StoredPiece(p) ELSE data[k]]
    /\ Set(p, [pc |-> "lower"])
    /\ UNCHANGED <<source, sizeMetric, refusals>>

\* Mutant: the metric is left as it is.
LowerNothing(p) ==
    /\ req[p].pc = "lower"
    /\ Fail(p)
    /\ UNCHANGED <<sizeMetric, source, data, drifted, dataFailures, refusals>>

Lower(p) ==
    /\ req[p].pc = "lower"
    /\ sizeMetric' = [sizeMetric EXCEPT ![req[p].dest] = @ - PieceSize(p)]
    /\ Fail(p)
    /\ UNCHANGED <<source, data, drifted, dataFailures, refusals>>

NativeCopy(p) ==
    LET key == source[1].key
    IN  /\ req[p].pc = "native"
        /\ IF key \in DOMAIN data
           THEN /\ Store(NewKey(p), data[key])
                /\ Set(p, [pc |-> "done",
                           results |-> <<[key |-> NewKey(p), size |-> source[1].size, cipher |-> NoCipher]>>]
                          @@ AnswerWith(req[p], "success"))
           ELSE Set(p, [pc |-> "lower"]) /\ UNCHANGED <<data, drifted>>
        /\ UNCHANGED <<source, sizeMetric, dataFailures, refusals>>

-----------------------------------------------------------------------------
(* batchDelete(), delete() and _retryDelete().                              *)

BeginDelete(p) ==
    /\ req[p].pc = "start"
    /\ Set(p, StartDeleting)
    /\ UNCHANGED <<source, data, sizeMetric, drifted, dataFailures, refusals>>

\* A deletion ends: the next begins, unless the batch has been answered.
Ended(r, i) ==
    LET running == r.running \ {i}
    IN  IF r.pc = "done" THEN [running |-> running]
        ELSE IF r.next <= Len(source) THEN [running |-> running \cup {r.next}, next |-> r.next + 1]
        ELSE IF running # {} THEN [running |-> running]
        ELSE [running |-> {}, pc |-> "done"]
             @@ (IF r.kind = "delete" THEN AnswerWith(r, "success") ELSE [pc |-> "done"])

\* An error ends the batch at once, with success if it was that there is no such data.
BatchFails(r, i, result) ==
    [running |-> r.running \ {i}, pc |-> "done"] @@
    (IF r.kind = "delete" /\ r.pc # "done" THEN AnswerWith(r, result) ELSE [pc |-> "done"])

Without(key) == [k \in DOMAIN data \ {key} |-> data[k]]

\* Azure deletes what exists; the metric is lowered either way.
DeleteOk(p, i) ==
    LET key == source[i].key
    IN  /\ key \in DOMAIN data \/ LocationOf(key) = "azure"
        /\ data' = Without(key)
        /\ drifted' = (drifted \/ key \notin DOMAIN data)
        /\ sizeMetric' = [sizeMetric EXCEPT ![LocationOf(key)] = @ - source[i].size]
        /\ Set(p, Ended(req[p], i))
        /\ UNCHANGED <<source, dataFailures, refusals>>

NotFound(p, i) ==
    /\ source[i].key \notin DOMAIN data /\ LocationOf(source[i].key) = "file"
    /\ Set(p, BatchFails(req[p], i, "success"))
    /\ UNCHANGED <<source, data, sizeMetric, drifted, dataFailures, refusals>>

DeleteFails(p, i) ==
    /\ DataFails
    /\ \/ UNCHANGED <<data, drifted>>
       \/ data' = Without(source[i].key) /\ drifted' = TRUE
    /\ Set(p, IF req[p].tries[i] = MaxRetry THEN BatchFails(req[p], i, "error")
              ELSE [tries |-> [req[p].tries EXCEPT ![i] = @ + 1]])
    /\ UNCHANGED <<source, sizeMetric, refusals>>

DwNext ==
    \E p \in DataRequests :
        \/ GetOk(p) \/ GetFails(p) \/ KmsFails(p) \/ Accept(p) \/ Refuse(p)
        \/ PutOk(p) \/ PutFails(p) \/ Lower(p) \/ NativeCopy(p) \/ BeginDelete(p)
        \/ \E i \in req[p].running : DeleteOk(p, i) \/ NotFound(p, i) \/ DeleteFails(p, i)

DwSpec == DwInit /\ [][DwNext]_dwVars

-----------------------------------------------------------------------------
(* Properties. *)

AllDone == \A p \in DataRequests : req[p].pc = "done" /\ req[p].running = {}

\* Requests that put or delete data under the same key: only Azure has such keys.
Touches(q, key) ==
    \/ req[q].kind # "delete" /\ NewKey(q) = key
    \/ req[q].kind # "copy" /\ ~ShouldSkipDelete(req[q]) /\ key = source[1].key

\* On Azure the object may be replaced while it is copied, is copied as it is ciphered, and
\* a copy to it of several locations puts them all under one key.
IsKept(p) ==
    \/ req[p].kind = "put"
    \/ ~IsFromAzure /\ (req[p].dest = "azure" => Len(source) = 1)
    \/ /\ IsFromAzure /\ source[1].cipher = NoCipher
       /\ \A q \in DataRequests : ~(req[q].kind = "put" /\ req[q].dest = "azure")

\* What a request is answered to be stored is stored, piece by piece and in order, and can be
\* deciphered with the key it is answered with; what it replaces does not take it along.
\* Left out: requests for the same key of Azure, and copies Azure does not keep.
AnsweredDataIsStored ==
    \A p \in DataRequests :
        LET r == req[p]
        IN  "success" \in ToSet(r.answers) /\ r.kind # "delete" =>
                /\ Len(r.results) = IF r.kind = "copy" THEN Len(source) ELSE 1
                /\ \A i \in 1 .. Len(r.results) :
                    LET key == r.results[i].key
                    IN  (\A q \in DataRequests \ {p} : ~Touches(q, key)) =>
                            /\ key \in DOMAIN data
                            /\ IsKept(p) =>
                                data[key] = [content |-> IF r.kind = "put" THEN <<p, 1>> ELSE <<0, i>>,
                                             size |-> r.results[i].size, cipher |-> r.results[i].cipher]

\* When all requests have ended the metric of a location is the size of its data. Excused is
\* a metric that has drifted: by a put or a deletion that took place and whose answer was
\* lost (a deletion that is tried again finds no data, and lowers nothing), by data of Azure
\* that is replaced, or deleted when it is not there any more, and by a copy from Azure that
\* fails or is refused after it began.
MetricIsExact ==
    AllDone /\ ~drifted =>
        \A l \in DataLocations :
            sizeMetric[l] = MapThenSumSet(LAMBDA k : data[k].size, {k \in DOMAIN data : LocationOf(k) = l})
================================================================================
