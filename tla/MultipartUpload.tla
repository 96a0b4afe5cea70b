---------------------------- MODULE MultipartUpload ----------------------------
(***************************************************************************)
(* A multipart upload as the data wrapper sees it, on a backend that keeps *)
(* the parts as data ("file"), as blocks of the object (Azure) or as the   *)
(* parts of an upload of its own (AWS). The client puts parts, copies      *)
(* parts from objects of several locations, and completes the upload with  *)
(* a list that may be wrong; on Azure an object may be put meanwhile under *)
(* the same key, which drops the blocks.                                   *)
(*                                                                         *)
(* An ETag stands for the content it is the hash of. What the API does     *)
(* with the answers (the records of the parts, the removal of what is not  *)
(* used) is external.                                                      *)
(***************************************************************************)
EXTENDS Integers, Sequences, FiniteSets, TLC, SequencesExt, FiniteSetsExt

CONSTANTS
    MpuBackends,        \* \subseteq {"file", "azure", "aws"}
    PartNumbers,
    PartSizes,          \* sizes of the parts that are put
    CopiedPieces,       \* sequences: sizes of the locations of the objects that are copied
    MinimumPartSize,    \* minimumAllowedPartSize
    BlockSize,          \* maxSubPartSize
    MaxParts,           \* bound of parts put or copied
    MaxCompletions      \* bound of completions asked for

ASSUME MpuAssumption ==
    /\ PartNumbers \subseteq Nat /\ PartSizes \subseteq Nat
    /\ BlockSize \in Nat \ {0}
    /\ {MinimumPartSize, MaxParts, MaxCompletions} \subseteq Nat

VARIABLES
    backend,
    mpu,        \* "new", "open", "completing", "completed", "aborted" or "refused"
    stored,     \* metadata: the records of the parts
    partData,       \* file: content of the keys
    blocks,     \* Azure and AWS: content of the blocks, and of the parts
    completion, \* the list, the records it was checked with and what it came to
    object,     \* [content, eTag]
    toDelete,   \* keys the API is told to delete
    putting,    \* an object put on Azure: "none", "checked" or "done"
    puts,
    raced       \* a part or an object was put during the completion

muVars == <<backend, mpu, stored, partData, blocks, completion, object, toDelete, putting, puts, raced>>

NoParts == [n \in {} |-> 0]
Content(version, size) == [i \in 1 .. size |-> <<version, i>>]
IsExternal == backend \in {"azure", "aws"}
Ascending(numbers) == SetToSortSeq(numbers, LAMBDA a, b : a < b)

\* getSubPartIds(): the blocks of one location of a part.
SubPartIds(n, location) == [i \in 1 .. location.numberSubParts |-> <<n, i>>]

-----------------------------------------------------------------------------
(* validateAndFilterMpuParts() and generateMpuPartStorageInfo().            *)

\* The records are in the order of their numbers; those the list passes over are extra, and
\* so are those that are left. Mutant: the former are forgotten.
SkippedForgotten(left, k) == {}
Skipped(left, k) == {left[j] : j \in 1 .. k - 1}

FilterPart(records, list, acc, i) ==
    LET part == list[i]
        found == {k \in 1 .. Len(acc.left) : acc.left[k] = part.n}
        k == Min(found)
        Refuse(error) == [acc EXCEPT !.error = error]
    IN  IF acc.error # "none" THEN acc
        ELSE IF i > 1 /\ part.n <= list[i - 1].n THEN Refuse("InvalidPartOrder")
        ELSE IF found = {} \/ records[part.n].eTag # part.eTag THEN Refuse("InvalidPart")
        ELSE IF i < Len(list) /\ records[part.n].size < MinimumPartSize THEN Refuse("EntityTooSmall")
        ELSE [acc EXCEPT !.parts = Append(@, part.n), !.extra = @ \cup Skipped(acc.left, k),
                         !.left = SubSeq(@, k + 1, Len(@))]

ValidateAndFilterMpuParts(records, list) ==
    LET start == [left |-> Ascending(DOMAIN records), parts |-> <<>>, extra |-> {},
                  error |-> IF Len(list) > Cardinality(DOMAIN records) THEN "InvalidPart" ELSE "none"]
        end == FoldLeft(LAMBDA acc, i : FilterPart(records, list, acc, i), start,
                        [i \in 1 .. Len(list) |-> i])
    IN  [parts |-> end.parts, error |-> end.error, extra |-> end.extra \cup ToSet(end.left)]

\* Where the object starts and ends in each location; a location without a size has the
\* size of its part.
GenerateMpuPartStorageInfo(records, parts) ==
    LET AddLocation(acc, l) ==
            [acc EXCEPT !.locations = Append(@, [key |-> l.key, start |-> acc.size, size |-> l.size]),
                        !.size = @ + l.size]
        AddPart(acc, n) == FoldLeft(AddLocation, acc, records[n].locations)
    IN  FoldLeft(AddPart, [locations |-> <<>>, size |-> 0], parts)

\* createAggregateETag().
AggregateETag(list) == [i \in 1 .. Len(list) |-> list[i].eTag]

-----------------------------------------------------------------------------
(* Actions. *)

MuInit ==
    /\ backend \in MpuBackends
    /\ mpu = "new"
    /\ stored = NoParts
    /\ partData = NoParts
    /\ blocks = NoParts
    /\ completion = [list |-> <<>>, records |-> NoParts, parts |-> <<>>, asked |-> 0, answer |-> "none"]
    /\ object = [content |-> <<>>, eTag |-> <<>>]
    /\ toDelete = {}
    /\ putting = "none"
    /\ puts = 0
    /\ raced = FALSE

\* initiateMPU(): a versioned bucket is refused on Azure.
InitiateMPU(isVersioned) ==
    /\ mpu = "new"
    /\ mpu' = IF isVersioned /\ backend = "azure" THEN "refused" ELSE "open"
    /\ UNCHANGED <<backend, stored, partData, blocks, completion, object, toDelete, putting, puts, raced>>

CanPutPart == mpu \in {"open", "completing"} /\ puts < MaxParts

\* The record of a part, and what replaces its earlier data: the API deletes that.
Record(n, r, keys) ==
    /\ stored' = [m \in DOMAIN stored \cup {n} |-> IF m = n THEN r ELSE stored[m]]
    /\ partData' = LET old == IF n \in DOMAIN stored THEN {l.key : l \in ToSet(stored[n].locations)} ELSE {}
               IN  [k \in (DOMAIN partData \ old) \cup DOMAIN keys |->
                        IF k \in DOMAIN keys THEN keys[k] ELSE partData[k]]
    /\ puts' = puts + 1
    /\ raced' = (raced \/ mpu = "completing")
    /\ UNCHANGED <<backend, mpu, completion, object, toDelete, putting>>

StageBlocks(new) ==
    blocks' = [b \in DOMAIN blocks \cup DOMAIN new |-> IF b \in DOMAIN new THEN new[b] ELSE blocks[b]]

\* The blocks that one request stages.
Blocks(n, content) ==
    IF backend = "aws" THEN <<n, 1>> :> content
    ELSE LET count == (Len(content) + BlockSize - 1) \div BlockSize
         IN  [b \in {<<n, i>> : i \in 1 .. count} |->
                SubSeq(content, (b[2] - 1) * BlockSize + 1, Min({b[2] * BlockSize, Len(content)}))]

Location(key, content) ==
    [key |-> key, size |-> Len(content), numberSubParts |-> (Len(content) + BlockSize - 1) \div BlockSize]

\* putPart(): a part of no bytes has no data, and no block on Azure.
PutPart(n, size) ==
    LET content == Content(puts + 1, size)
        key == <<puts + 1, 1>>
        locations == IF size = 0 /\ backend = "file" THEN <<>> ELSE <<Location(key, content)>>
    IN  /\ CanPutPart
        /\ Record(n, [eTag |-> content, size |-> size, locations |-> locations],
                  IF backend = "file" /\ size > 0 THEN key :> content ELSE NoParts)
        /\ IF IsExternal THEN StageBlocks(Blocks(n, content)) ELSE UNCHANGED blocks

\* uploadPartCopy(), _dataCopyPutPart(): the pieces are put one after the other; on Azure each
\* stages the blocks of the same part, and on AWS the first ends the copy.
CopyPart(n, sizes) ==
    LET whole == Content(puts + 1, FoldLeft(LAMBDA a, b : a + b, 0, sizes))
        Start(i) == FoldLeft(LAMBDA a, b : a + b, 0, SubSeq(sizes, 1, i - 1))
        Piece(i) == SubSeq(whole, Start(i) + 1, Start(i) + sizes[i])
        put == IF backend = "aws" THEN 1 ELSE Len(sizes)
        eTag == IF backend = "aws" THEN Piece(1) ELSE whole
        later(b) == CHOOSE i \in 1 .. put : /\ b \in DOMAIN Blocks(n, Piece(i))
                                            /\ \A j \in i + 1 .. put : b \notin DOMAIN Blocks(n, Piece(j))
    IN  /\ CanPutPart
        /\ Record(n, [eTag |-> eTag, size |-> Len(whole),
                      locations |-> [i \in 1 .. put |-> Location(<<puts + 1, i>>, Piece(i))]],
                  IF backend = "file" THEN [k \in {<<puts + 1, i>> : i \in 1 .. put} |-> Piece(k[2])]
                  ELSE NoParts)
        /\ IF IsExternal
           THEN StageBlocks([b \in UNION {DOMAIN Blocks(n, Piece(i)) : i \in 1 .. put} |->
                                Blocks(n, Piece(later(b)))[b]])
           ELSE UNCHANGED blocks

\* completeMPU(): the list is checked with the records, on AWS by the backend.
CompleteMPU(list) ==
    LET filtered == ValidateAndFilterMpuParts(stored, list)
        refused == filtered.error # "none"
        info == GenerateMpuPartStorageInfo(stored, filtered.parts)
        asked == [completion EXCEPT !.list = list, !.records = stored, !.parts = filtered.parts,
                                    !.asked = @ + 1, !.answer = filtered.error]
    IN  /\ mpu = "open" /\ completion.asked < MaxCompletions
        /\ completion' = asked
        /\ raced' = FALSE
        /\ CASE refused -> UNCHANGED <<mpu, object, toDelete>>
             [] ~refused /\ IsExternal -> mpu' = "completing" /\ UNCHANGED <<object, toDelete>>
             [] ~refused /\ ~IsExternal ->
                    /\ mpu' = "completed"
                    /\ object' = [content |-> FlattenSeq([i \in 1 .. Len(info.locations) |->
                                                  partData[info.locations[i].key]]),
                                  eTag |-> AggregateETag(list)]
                    /\ toDelete' = UNION {{l.key : l \in ToSet(stored[n].locations)} : n \in filtered.extra}
        /\ UNCHANGED <<backend, stored, partData, blocks, putting, puts>>

\* What is committed: the blocks of the first location of each part, the parts on AWS.
CommitList ==
    FlattenSeq([i \in 1 .. Len(completion.parts) |->
        LET n == completion.parts[i]
        IN  IF backend = "aws" THEN <<<<n, 1>>>>
            ELSE SubPartIds(n, completion.records[n].locations[1])])

\* The backend commits, unless a block is missing or a part is another one by now.
CommitSucceeds ==
    /\ mpu = "completing"
    /\ ToSet(CommitList) \subseteq DOMAIN blocks
    /\ backend = "aws" => \A i \in 1 .. Len(completion.list) :
                              blocks[<<completion.list[i].n, 1>>] = completion.list[i].eTag
    /\ object' = [content |-> FlattenSeq([i \in 1 .. Len(CommitList) |-> blocks[CommitList[i]]]),
                  eTag |-> AggregateETag(completion.list)]
    /\ blocks' = NoParts
    /\ mpu' = "completed"
    /\ UNCHANGED <<backend, stored, partData, completion, toDelete, putting, puts, raced>>

\* A failure, before or after the commit: on AWS also of the head or for a missing version id.
CommitFails(lost) ==
    /\ mpu = "completing"
    /\ ~lost \/ ToSet(CommitList) \subseteq DOMAIN blocks
    /\ blocks' = IF lost THEN NoParts ELSE blocks
    /\ mpu' = "open"
    /\ completion' = [completion EXCEPT !.answer = "ServiceUnavailable"]
    /\ UNCHANGED <<backend, stored, partData, object, toDelete, putting, puts, raced>>

\* abortMPU(): only the data of a file backend is left to delete.
AbortMPU ==
    /\ mpu = "open"
    /\ mpu' = "aborted"
    /\ toDelete' = IF IsExternal THEN toDelete ELSE toDelete \cup DOMAIN partData
    /\ blocks' = IF backend = "aws" THEN NoParts ELSE blocks
    /\ UNCHANGED <<backend, stored, partData, completion, object, putting, puts, raced>>

\* protectAzureBlocks(): no object is put while the metadata lists an upload.
ProtectAzureBlocks ==
    /\ backend = "azure" /\ putting = "none"
    /\ mpu \in {"new", "refused", "completed", "aborted"}
    /\ putting' = "checked"
    /\ UNCHANGED <<backend, mpu, stored, partData, blocks, completion, object, toDelete, puts, raced>>

PutObject ==
    /\ putting = "checked"
    /\ putting' = "done"
    /\ blocks' = NoParts
    /\ object' = [content |-> Content(0, 1), eTag |-> <<>>]
    /\ raced' = TRUE
    /\ UNCHANGED <<backend, mpu, stored, partData, completion, toDelete, puts>>

\* The parts of a list have the ETag of their record, or another one.
ListedParts ==
    {[n |-> n, eTag |-> stored[n].eTag] : n \in DOMAIN stored} \cup
    {[n |-> n, eTag |-> <<<<0, 0>>>>] : n \in PartNumbers}

Lists == UNION {[1 .. k -> ListedParts] : k \in 1 .. Cardinality(PartNumbers)}

MuNext ==
    \/ \E v \in BOOLEAN : InitiateMPU(v)
    \/ \E n \in PartNumbers, size \in PartSizes : PutPart(n, size)
    \/ \E n \in PartNumbers, sizes \in CopiedPieces : CopyPart(n, sizes)
    \/ \E list \in Lists : CompleteMPU(list)
    \/ CommitSucceeds \/ \E lost \in BOOLEAN : CommitFails(lost)
    \/ AbortMPU \/ ProtectAzureBlocks \/ PutObject

MuSpec == MuInit /\ [][MuNext]_muVars

-----------------------------------------------------------------------------
(* Properties. *)

Acceptable(list, records) ==
    /\ \A i \in 1 .. Len(list) : list[i].n \in DOMAIN records /\ records[list[i].n].eTag = list[i].eTag
    /\ \A i, j \in 1 .. Len(list) : i < j => list[i].n < list[j].n
    /\ \A i \in 1 .. Len(list) - 1 : records[list[i].n].size >= MinimumPartSize

IsKeptWhole(r) == IsExternal => Len(r.locations) = 1 /\ r.size = Len(r.eTag)

\* A completed upload is the listed parts in the order of the list, with the ETag of the
\* list, and a list is accepted exactly when it names parts that are there, in order, large
\* enough and unchanged. Every piece of data is then part of the object or to be deleted.
\* Left out: a part or an object put on the backend while the completion is under way, and
\* copies of several locations, which external backends do not keep.
CompletionIsExact ==
    /\ completion.asked > 0 /\ completion.answer # "ServiceUnavailable" =>
           (completion.answer = "none") = Acceptable(completion.list, completion.records)
    /\ mpu = "completed" /\ ~raced /\ (\A n \in ToSet(completion.parts) : IsKeptWhole(stored[n])) =>
           object = [content |-> FlattenSeq([i \in 1 .. Len(completion.list) |-> completion.list[i].eTag]),
                     eTag |-> [i \in 1 .. Len(completion.list) |-> completion.list[i].eTag]]
    /\ mpu \in {"completed", "aborted"} =>
           \A k \in DOMAIN partData :
               \/ k \in toDelete
               \/ \E n \in ToSet(completion.parts) : k \in {l.key : l \in ToSet(stored[n].locations)}

\* The data of a part that was copied is that of all locations of the source, "in order", as
\* uploadPartCopy() says (DataWrapper.js:452).
CopiedPartIsWhole ==
    \A n \in DOMAIN stored :
        /\ Len(stored[n].eTag) = stored[n].size
        /\ backend = "azure" /\ putting = "none" /\ mpu = "open" =>
              stored[n].eTag = FlattenSeq([i \in 1 .. stored[n].locations[1].numberSubParts |-> blocks[<<n, i>>]])
================================================================================
