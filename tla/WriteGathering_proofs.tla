--------------------------- MODULE WriteGathering_proofs ---------------------------
(***************************************************************************)
(* Proofs about WriteGathering, for any set of requests and any sizes.     *)
(***************************************************************************)
EXTENDS WriteGathering, SequenceTheorems, TLAPS

\* The operations of any request are a sequence of entries.
LEMMA EntriesType == ASSUME NEW r \in Requests PROVE Entries(r) \in Seq(Entry)
<1>1. Size[r] \in Nat
  BY SizeAssumption
<1>2. \A i \in 1..Size[r] : [req |-> r, index |-> i] \in Entry
  BY <1>1 DEF Entry
<1>3. Entries(r) \in [1..Size[r] -> Entry]
  BY <1>2 DEF Entries
<1> QED BY <1>1, <1>3, SeqDef

\* No batch is a batch slot.
LEMMA NoBatch ==
    /\ <<>> \in Seq(Seq(Entry))
    /\ Len(<<>>) <= 1
    /\ FALSE \in BOOLEAN
  BY EmptySeq

\* One batch is a batch slot.
LEMMA OneBatch ==
  ASSUME NEW batch \in Seq(Entry)
  PROVE  <<batch>> \in Seq(Seq(Entry)) /\ Len(<<batch>>) <= 1
  OBVIOUS

\* A slot is empty or holds one batch.
LEMMA SlotProperties ==
  ASSUME NEW slot \in Seq(Seq(Entry)), Len(slot) <= 1, slot # <<>>
  PROVE  slot[1] \in Seq(Entry) /\ DOMAIN slot = {1}
<1>1. Len(slot) \in Nat /\ Len(slot) # 0
  BY EmptySeq
<1>2. \A n \in Nat : n <= 1 /\ n # 0 => n = 1
  OBVIOUS
<1>3. Len(slot) = 1
  BY <1>1, <1>2, Zenon
<1> QED BY <1>3, LenProperties, ElementOfSeq

\* Every call of batch(), every timer and every answer of the database keeps
\* the state of the manager well formed: at most one batch is gathered and at
\* most one is being committed.
THEOREM WgTypeCorrect == WgSafety => []WgTypeOK
<1>1. WgInit => WgTypeOK
  <2> SUFFICES ASSUME WgInit PROVE WgTypeOK
    OBVIOUS
  <2>1. <<>> \in Seq(Entry) /\ <<>> \in Seq(Requests) /\ <<>> \in Seq(Replies)
    BY EmptySeq
  <2>2. replies \in [Requests -> Seq(Replies)]
    BY <2>1 DEF WgInit
  <2> QED BY <2>1, <2>2, NoBatch, Zenon DEF WgInit, WgTypeOK
<1>2. WgTypeOK /\ [WgNext]_wgVars => WgTypeOK'
  <2> SUFFICES ASSUME WgTypeOK, [WgNext]_wgVars PROVE WgTypeOK'
    OBVIOUS
  <2>1. ASSUME NEW r \in Requests, Batch(r) PROVE WgTypeOK'
    <3>1. batchCache' \in Seq(Seq(Entry)) /\ Len(batchCache') <= 1
      <4>1. CASE batchCache = <<>>
        <5>1. batchCache' = <<Entries(r)>>
          BY <2>1, <4>1 DEF Batch, WgAppend
        <5> QED BY <5>1, EntriesType, OneBatch
      <4>2. CASE batchCache # <<>>
        <5>1. batchCache[1] \in Seq(Entry)
          BY <4>2, SlotProperties DEF WgTypeOK
        <5>2. batchCache[1] \o Entries(r) \in Seq(Entry)
          BY <5>1, EntriesType, ConcatProperties
        <5>3. batchCache' = <<batchCache[1] \o Entries(r)>>
          BY <2>1, <4>2 DEF Batch, WgAppend
        <5> QED BY <5>2, <5>3, OneBatch
      <4> QED BY <4>1, <4>2
    <3>2. timer' \in BOOLEAN
      BY <2>1, Zenon DEF Batch, WgAppend, WgTypeOK
    <3>3. submitted' \in Seq(Requests)
      BY <2>1, AppendProperties DEF Batch, WgTypeOK
    <3> QED BY <2>1, <3>1, <3>2, <3>3, Zenon DEF Batch, WgTypeOK
  <2>2. CASE CommitOnTimeout
    BY <2>2, NoBatch, Zenon DEF CommitOnTimeout, StartCommit, WgTypeOK
  <2>3. CASE DeferOnTimeout
    BY <2>3 DEF DeferOnTimeout, WgTypeOK
  <2>4. CASE DbApply
    <3>1. inFlight[1] \in Seq(Entry)
      BY <2>4, SlotProperties DEF DbApply, isCommitting, WgTypeOK
    <3>2. dbLog' \in Seq(Entry)
      BY <2>4, <3>1, ConcatProperties DEF DbApply, WgTypeOK
    <3> QED BY <2>4, <3>2, Zenon DEF DbApply, WgTypeOK
  <2>5. CASE CommitDone
    <3>1. replies' \in [Requests -> Seq(Replies)]
      BY <2>5, AppendProperties DEF CommitDone, Answer, Replies, WgTypeOK
    <3>2. CASE batchCache # <<>> /\ ~timer
      BY <2>5, <3>1, <3>2, NoBatch, Zenon DEF CommitDone, StartCommit, WgTypeOK
    <3>3. CASE ~(batchCache # <<>> /\ ~timer)
      BY <2>5, <3>1, <3>3, NoBatch, Zenon DEF CommitDone, WgTypeOK
    <3> QED BY <3>2, <3>3
  <2>6. CASE CommitFailed
    <3>1. replies' \in [Requests -> Seq(Replies)]
      BY <2>6, AppendProperties DEF CommitFailed, Answer, Replies, WgTypeOK
    <3> QED BY <2>6, <3>1, NoBatch, Zenon DEF CommitFailed, WgTypeOK
  <2>7. CASE UNCHANGED wgVars
    BY <2>7 DEF wgVars, WgTypeOK
  <2> QED BY <2>1, <2>2, <2>3, <2>4, <2>5, <2>6, <2>7 DEF WgNext
<1> QED BY <1>1, <1>2, PTL DEF WgSafety

\* A gathered batch is never left without something that will commit it: the
\* deferral, which clears the timer, happens only during a commit, and the end
\* of that commit takes the deferred batch or gives it up.
THEOREM WakerInvariant == WgSafety => []WaitingBatchHasWaker
<1>1. WgInit => WaitingBatchHasWaker
  BY DEF WgInit, WaitingBatchHasWaker
<1>2. WgTypeOK /\ WaitingBatchHasWaker /\ [WgNext]_wgVars => WaitingBatchHasWaker'
  <2> SUFFICES ASSUME WgTypeOK, WaitingBatchHasWaker, [WgNext]_wgVars
               PROVE  WaitingBatchHasWaker'
    OBVIOUS
  <2> USE DEF WaitingBatchHasWaker, isCommitting
  <2>1. ASSUME NEW r \in Requests, Batch(r) PROVE WaitingBatchHasWaker'
    BY <2>1 DEF Batch, WgAppend
  <2>2. CASE CommitOnTimeout
    BY <2>2 DEF CommitOnTimeout, StartCommit
  <2>3. CASE DeferOnTimeout
    BY <2>3 DEF DeferOnTimeout
  <2>4. CASE DbApply
    BY <2>4 DEF DbApply
  <2>5. CASE CommitDone
    BY <2>5 DEF CommitDone, StartCommit
  <2>6. CASE CommitFailed
    BY <2>6 DEF CommitFailed
  <2>7. CASE UNCHANGED wgVars
    BY <2>7 DEF wgVars
  <2> QED BY <2>1, <2>2, <2>3, <2>4, <2>5, <2>6, <2>7 DEF WgNext
<1> QED BY <1>1, <1>2, WgTypeCorrect, PTL DEF WgSafety

----------------------------------------------------------------------------
(* A reply tells the truth. The operations of one request travel together  *)
(* from the gathered batch to the batch in flight to the database, and the *)
(* request is called back only when they leave the manager.                *)

Elements(seq) == {seq[i] : i \in DOMAIN seq}
InSlot(slot) == IF slot = <<>> THEN {} ELSE Elements(slot[1])

Operations(r) == {[req |-> r, index |-> k] : k \in 1..Size[r]}

Gathered == InSlot(batchCache)
Committing == InSlot(inFlight)
InDatabase == Elements(dbLog)

Whole(r, S) == Operations(r) \subseteq S \/ Operations(r) \cap S = {}

\* Only operations of requests are under way.
Genuine(S) == \A e \in S : e \in Operations(e.req)

\* Where the operations of r may be, and what r may have been told.
RequestInv(r) ==
    /\ Whole(r, Gathered) /\ Whole(r, Committing) /\ Whole(r, InDatabase)
    /\ ~IsSubmitted(r) =>
         /\ Operations(r) \cap (Gathered \cup Committing \cup InDatabase) = {}
         /\ replies[r] = <<>>
    /\ Operations(r) \cap Gathered # {} =>
         /\ replies[r] = <<>>
         /\ Operations(r) \cap (Committing \cup InDatabase) = {}
    /\ Operations(r) \cap Committing # {} =>
         /\ replies[r] = <<>>
         /\ IF applied THEN Operations(r) \subseteq InDatabase
                       ELSE Operations(r) \cap InDatabase = {}
    /\ replies[r] \in {<<>>, <<"ok">>, <<"error">>}
    /\ replies[r] = <<"ok">> => Operations(r) \subseteq InDatabase
    /\ replies[r] = <<"error">> => Operations(r) \cap InDatabase = {}

GatherInv ==
    /\ Genuine(Gathered) /\ Genuine(Committing)
    /\ \A r \in Requests : RequestInv(r)

\* A concatenation holds the elements of both sequences.
LEMMA ElementsOfConcat ==
  ASSUME NEW S, NEW s \in Seq(S), NEW t \in Seq(S)
  PROVE  Elements(s \o t) = Elements(s) \cup Elements(t)
<1> DEFINE c == s \o t
<1>1. /\ Len(s) \in Nat /\ Len(t) \in Nat
      /\ DOMAIN s = 1..Len(s) /\ DOMAIN t = 1..Len(t)
      /\ DOMAIN c = 1..(Len(s) + Len(t))
      /\ \A i \in 1..(Len(s) + Len(t)) : c[i] = IF i <= Len(s) THEN s[i] ELSE t[i - Len(s)]
  BY ConcatProperties, LenProperties
<1> HIDE DEF c
<1>2. ASSUME NEW i \in DOMAIN c PROVE c[i] \in Elements(s) \cup Elements(t)
  BY <1>1 DEF Elements
<1>3. ASSUME NEW i \in DOMAIN s PROVE s[i] \in Elements(c)
  BY <1>1 DEF Elements
<1>4. ASSUME NEW i \in DOMAIN t PROVE t[i] \in Elements(c)
  <2>1. Len(s) + i \in DOMAIN c /\ c[Len(s) + i] = t[i]
    BY <1>1
  <2> QED BY <2>1 DEF Elements
<1>5. Elements(c) = Elements(s) \cup Elements(t)
  BY <1>2, <1>3, <1>4, Zenon DEF Elements
<1> QED BY <1>5 DEF c

\* The operations of a request are the elements of its array.
LEMMA ElementsOfEntries ==
  ASSUME NEW r \in Requests PROVE Elements(Entries(r)) = Operations(r)
  BY DEF Elements, Entries, Operations

\* A request is called back with the batch that holds its first operation.
LEMMA CallbackWithFirst ==
  ASSUME NEW batch \in Seq(Entry), NEW r \in Requests
  PROVE  r \in CallbacksOf(batch) <=> [req |-> r, index |-> 1] \in Elements(batch)
<1>1. \A i \in DOMAIN batch : batch[i] \in Entry
  BY LenProperties, ElementOfSeq
<1>2. \A i \in DOMAIN batch :
        batch[i].req = r /\ batch[i].index = 1 <=> batch[i] = [req |-> r, index |-> 1]
  BY <1>1 DEF Entry
<1> QED BY <1>2, Zenon DEF CallbacksOf, Elements

\* The callbacks of a set of slots' batches.
LEMMA AnsweredOnes ==
  ASSUME WgTypeOK, inFlight # <<>>, NEW r \in Requests
  PROVE  /\ (\E b \in {inFlight[1]} : r \in CallbacksOf(b))
               <=> [req |-> r, index |-> 1] \in Committing
         /\ (\E b \in {inFlight[1]} \cup {batchCache[i] : i \in DOMAIN batchCache} : r \in CallbacksOf(b))
               <=> [req |-> r, index |-> 1] \in Committing \cup Gathered
<1>1. inFlight[1] \in Seq(Entry)
  BY SlotProperties DEF WgTypeOK
<1>2. r \in CallbacksOf(inFlight[1]) <=> [req |-> r, index |-> 1] \in Committing
  BY <1>1, CallbackWithFirst DEF Committing, InSlot
<1>3. (\E i \in DOMAIN batchCache : r \in CallbacksOf(batchCache[i]))
        <=> [req |-> r, index |-> 1] \in Gathered
  <2>1. CASE batchCache = <<>>
    BY <2>1 DEF Gathered, InSlot
  <2>2. CASE batchCache # <<>>
    <3>1. batchCache[1] \in Seq(Entry) /\ DOMAIN batchCache = {1}
      BY <2>2, SlotProperties DEF WgTypeOK
    <3> QED BY <3>1, <2>2, CallbackWithFirst DEF Gathered, InSlot
  <2> QED BY <2>1, <2>2
<1> QED BY <1>2, <1>3, Zenon

\* What the end of a commit tells a request, given the operations answered.
Told(r, S, reply) ==
    replies'[r] = IF [req |-> r, index |-> 1] \in S THEN Append(replies[r], reply) ELSE replies[r]

\* Where batch() leaves the operations.
LEMMA BatchEffect ==
  ASSUME WgTypeOK, NEW r \in Requests, Batch(r)
  PROVE  /\ Gathered' = Gathered \cup Operations(r)
         /\ Committing' = Committing /\ InDatabase' = InDatabase
         /\ ~IsSubmitted(r)
         /\ \A q \in Requests : IsSubmitted(q)' <=> IsSubmitted(q) \/ q = r
<1>1. Gathered' = Gathered \cup Operations(r)
  <2>1. CASE batchCache = <<>>
    <3>1. batchCache' = <<Entries(r)>>
      BY <2>1 DEF Batch, WgAppend
    <3> QED BY <2>1, <3>1, ElementsOfEntries DEF Gathered, InSlot
  <2>2. CASE batchCache # <<>>
    <3>1. batchCache' = <<batchCache[1] \o Entries(r)>>
      BY <2>2 DEF Batch, WgAppend
    <3>2. batchCache[1] \in Seq(Entry) /\ Entries(r) \in Seq(Entry)
      BY <2>2, SlotProperties, EntriesType DEF WgTypeOK
    <3>3. Elements(batchCache'[1]) = Elements(batchCache[1]) \cup Operations(r)
      BY <3>1, <3>2, ElementsOfConcat, ElementsOfEntries
    <3> QED BY <2>2, <3>1, <3>3 DEF Gathered, InSlot
  <2> QED BY <2>1, <2>2
<1>2. Committing' = Committing /\ InDatabase' = InDatabase
  BY DEF Batch, Committing, InDatabase, InSlot, Elements
<1>3. \A q \in Requests : IsSubmitted(q)' <=> IsSubmitted(q) \/ q = r
  <2>1. /\ Len(submitted) \in Nat /\ DOMAIN submitted = 1..Len(submitted)
        /\ submitted' = Append(submitted, r)
        /\ DOMAIN submitted' = 1..(Len(submitted) + 1)
        /\ \A i \in 1..Len(submitted) : submitted'[i] = submitted[i]
        /\ submitted'[Len(submitted) + 1] = r
    BY AppendProperties, LenProperties DEF Batch, WgTypeOK
  <2> QED BY <2>1 DEF IsSubmitted
<1> QED BY <1>1, <1>2, <1>3 DEF Batch, IsSubmitted

\* Where DbApply leaves them.
LEMMA DbApplyEffect ==
  ASSUME WgTypeOK, DbApply
  PROVE  InDatabase' = InDatabase \cup Committing
<1>1. inFlight # <<>> /\ inFlight[1] \in Seq(Entry) /\ dbLog \in Seq(Entry)
  BY SlotProperties DEF DbApply, isCommitting, WgTypeOK
<1> QED BY <1>1, ElementsOfConcat DEF DbApply, InDatabase, Committing, InSlot

\* A commit that succeeds tells it to the requests in flight, and to no other.
LEMMA CommitDoneEffect ==
  ASSUME WgTypeOK, CommitDone, NEW r \in Requests
  PROVE  Told(r, Committing, "ok")
<1>1. inFlight # <<>> /\ Answer({inFlight[1]}, "ok")
  BY DEF CommitDone, isCommitting
<1> QED BY <1>1, AnsweredOnes DEF Answer, Told

\* A failed commit tells an error to the requests of both batches.
LEMMA CommitFailedEffect ==
  ASSUME WgTypeOK, CommitFailed, NEW r \in Requests
  PROVE  Told(r, Committing \cup Gathered, "error")
<1>1. /\ inFlight # <<>>
      /\ Answer({inFlight[1]} \cup {batchCache[i] : i \in DOMAIN batchCache}, "error")
  BY DEF CommitFailed, isCommitting
<1> QED BY <1>1, AnsweredOnes DEF Answer, Told

\* The first reply to a request is its only one.
LEMMA FirstReply ==
  ASSUME NEW reply PROVE Append(<<>>, reply) = <<reply>> /\ Len(<<reply>>) = 1
  OBVIOUS

\* What a request may have been told is distinguishable, and at most one reply.
LEMMA DistinctReplies ==
  /\ <<"ok">> # <<>> /\ <<"error">> # <<>> /\ <<"ok">> # <<"error">>
  /\ \A x \in {<<>>, <<"ok">>, <<"error">>} : Len(x) <= 1
<1>1. Len(<<>>) = 0 /\ Len(<<"ok">>) = 1 /\ Len(<<"error">>) = 1
  OBVIOUS
<1>2. <<"ok">>[1] = "ok" /\ <<"error">>[1] = "error"
  OBVIOUS
<1>3. "ok" # "error"
  OBVIOUS
<1>4. <<"ok">> # <<>> /\ <<"error">> # <<>>
  OBVIOUS
<1>5. <<"ok">> # <<"error">>
  BY <1>2, <1>3
<1>6. \A x \in {<<>>, <<"ok">>, <<"error">>} : Len(x) \in {0, 1}
  BY <1>1, Zenon
<1> QED BY <1>4, <1>5, <1>6

\* The operations of a request stay together and its reply stays true,
\* whichever step the manager or the database takes.
LEMMA GatherInvInductive ==
  ASSUME WgTypeOK, GatherInv, [WgNext]_wgVars
  PROVE  GatherInv'
<1>1. ASSUME NEW r \in Requests, Batch(r) PROVE GatherInv'
  <2>1. Genuine(Gathered)' /\ Genuine(Committing)'
    BY <1>1, BatchEffect DEF GatherInv, Genuine, Operations
  <2>2. replies' = replies /\ applied' = applied
    BY <1>1 DEF Batch
  <2>3. ASSUME NEW q \in Requests PROVE RequestInv(q)'
    <3>1. q # r => Operations(q) \cap Operations(r) = {}
      BY DEF Operations
    <3>2. RequestInv(q)
      BY DEF GatherInv
    <3> QED BY <1>1, BatchEffect, <2>2, <3>1, <3>2 DEF RequestInv, Whole, Operations
  <2> QED BY <2>1, <2>3 DEF GatherInv
<1>2. CASE CommitOnTimeout
  <2>1. Gathered' = {} /\ Committing' = Gathered /\ Committing = {} /\ InDatabase' = InDatabase
    BY <1>2 DEF CommitOnTimeout, StartCommit, isCommitting, Gathered, Committing, InSlot, InDatabase, Elements
  <2>2. replies' = replies /\ applied' = FALSE /\ submitted' = submitted
    BY <1>2 DEF CommitOnTimeout, StartCommit
  <2> QED BY <2>1, <2>2 DEF GatherInv, Genuine, RequestInv, Whole, Operations, IsSubmitted
<1>3. CASE DeferOnTimeout
  BY <1>3 DEF DeferOnTimeout, GatherInv, Genuine, RequestInv, Whole, Operations, IsSubmitted,
              Gathered, Committing, InSlot, InDatabase, Elements
<1>4. CASE DbApply
  <2>1. Gathered' = Gathered /\ Committing' = Committing /\ InDatabase' = InDatabase \cup Committing
    BY <1>4, DbApplyEffect DEF DbApply, Gathered, Committing, InSlot, Elements
  <2>2. replies' = replies /\ applied' = TRUE /\ ~applied /\ submitted' = submitted
    BY <1>4 DEF DbApply
  <2> QED BY <2>1, <2>2 DEF GatherInv, Genuine, RequestInv, Whole, Operations, IsSubmitted
<1>5. CASE CommitDone
  <2>1. \/ Gathered' = {} /\ Committing' = Gathered /\ applied' = FALSE
        \/ Gathered' = Gathered /\ Committing' = {}
    BY <1>5 DEF CommitDone, StartCommit, Gathered, Committing, InSlot, Elements
  <2>2. applied /\ InDatabase' = InDatabase /\ submitted' = submitted
    BY <1>5 DEF CommitDone, InDatabase, Elements
  <2>3. \A r \in Requests : Told(r, Committing, "ok")
    BY <1>5, CommitDoneEffect
  <2>4. Genuine(Gathered)' /\ Genuine(Committing)'
    BY <2>1 DEF GatherInv, Genuine, Operations
  <2>5. ASSUME NEW r \in Requests PROVE RequestInv(r)'
    <3>1. RequestInv(r) /\ ([req |-> r, index |-> 1] \in Committing => Operations(r) \cap Committing # {})
      BY DEF GatherInv, Genuine
    <3>2. IF [req |-> r, index |-> 1] \in Committing
          THEN replies'[r] = <<"ok">> ELSE replies'[r] = replies[r]
      BY <2>3, <3>1, FirstReply DEF RequestInv, Told
    <3>3. IsSubmitted(r)' = IsSubmitted(r)
      BY <2>2 DEF IsSubmitted
    <3>4. CASE [req |-> r, index |-> 1] \in Committing
      BY <2>1, <2>2, <3>1, <3>2, <3>3, <3>4, DistinctReplies DEF RequestInv, Whole, Operations
    <3>5. CASE [req |-> r, index |-> 1] \notin Committing
      BY <2>1, <2>2, <3>1, <3>2, <3>3, <3>5 DEF RequestInv, Whole, Operations
    <3> QED BY <3>4, <3>5
  <2> QED BY <2>4, <2>5 DEF GatherInv
<1>6. CASE CommitFailed
  <2>1. Gathered' = {} /\ Committing' = {} /\ InDatabase' = InDatabase /\ submitted' = submitted /\ ~applied
    BY <1>6 DEF CommitFailed, Gathered, Committing, InSlot, InDatabase, Elements
  <2>2. \A r \in Requests : Told(r, Committing \cup Gathered, "error")
    BY <1>6, CommitFailedEffect
  <2>3. ASSUME NEW r \in Requests PROVE RequestInv(r)'
    <3>1. /\ RequestInv(r)
          /\ [req |-> r, index |-> 1] \in Committing => Operations(r) \cap Committing # {}
          /\ [req |-> r, index |-> 1] \in Gathered => Operations(r) \cap Gathered # {}
      BY DEF GatherInv, Genuine
    <3>2. IF [req |-> r, index |-> 1] \in Committing \cup Gathered
          THEN replies'[r] = <<"error">> ELSE replies'[r] = replies[r]
      BY <2>2, <3>1, FirstReply DEF RequestInv, Told
    <3>3. IsSubmitted(r)' = IsSubmitted(r)
      BY <2>1 DEF IsSubmitted
    <3>4. CASE [req |-> r, index |-> 1] \in Committing \cup Gathered
      BY <2>1, <3>1, <3>2, <3>3, <3>4, DistinctReplies DEF RequestInv, Whole, Operations
    <3>5. CASE [req |-> r, index |-> 1] \notin Committing \cup Gathered
      BY <2>1, <3>1, <3>2, <3>3, <3>5 DEF RequestInv, Whole, Operations
    <3> QED BY <3>4, <3>5
  <2> QED BY <2>1, <2>3 DEF GatherInv, Genuine
<1>7. CASE UNCHANGED wgVars
  BY <1>7 DEF wgVars, GatherInv, Genuine, RequestInv, Whole, Operations, IsSubmitted,
              Gathered, Committing, InSlot, InDatabase, Elements
<1> QED BY <1>1, <1>2, <1>3, <1>4, <1>5, <1>6, <1>7 DEF WgNext

\* What RequestInv says of the elements of the log is what the property says
\* of its entries.
LEMMA GatherInvImpliesTruth == GatherInv => RepliesAreTruthful
<1> SUFFICES ASSUME GatherInv, NEW r \in Requests
             PROVE  /\ Len(replies[r]) <= 1
                    /\ replies[r] = <<"ok">> => \A i \in 1..Size[r] : Durable([req |-> r, index |-> i])
                    /\ replies[r] = <<"error">> => \A i \in 1..Size[r] : ~Durable([req |-> r, index |-> i])
  BY DEF RepliesAreTruthful
<1>1. RequestInv(r)
  BY DEF GatherInv
<1>2. \A e : Durable(e) <=> e \in InDatabase
  BY DEF Durable, InDatabase, Elements
<1>3. Len(replies[r]) <= 1
  BY <1>1, DistinctReplies DEF RequestInv
<1> QED BY <1>1, <1>2, <1>3 DEF RequestInv, Operations

\* A request is called back at most once, with a success only when all of its
\* operations are durable and with an error only when none is: a commit error
\* that takes the next batch with it never answers for what was written.
THEOREM RepliesTruthful == WgSafety => []RepliesAreTruthful
<1>1. WgInit => GatherInv
  <2> SUFFICES ASSUME WgInit PROVE GatherInv
    OBVIOUS
  <2>1. Gathered = {} /\ Committing = {} /\ InDatabase = {}
    BY DEF WgInit, Gathered, Committing, InSlot, InDatabase, Elements
  <2>2. \A r \in Requests : replies[r] = <<>>
    BY DEF WgInit
  <2> QED BY <2>1, <2>2 DEF GatherInv, Genuine, RequestInv, Whole
<1>2. WgTypeOK /\ GatherInv /\ [WgNext]_wgVars => GatherInv'
  BY GatherInvInductive
<1> QED BY <1>1, <1>2, WgTypeCorrect, GatherInvImpliesTruth, PTL DEF WgSafety
----------------------------------------------------------------------------
(* The manager implements CommitQueue.                                     *)

\* What is true of the states of the manager besides: a batch begins with the
\* first operation of a request.
BeginsRequest(slot) == slot # <<>> /\ slot[1] # <<>> => slot[1][1].index = 1
FirstInv == BeginsRequest(batchCache) /\ (applied => isCommitting)

\* What waits is two sequences of operations.
LEMMA WaitingType ==
  ASSUME WgTypeOK
  PROVE  /\ WaitingInFlight \in Seq(Entry) /\ WaitingBatch \in Seq(Entry)
         /\ Waiting \in Seq(Entry)
<1>1. WaitingInFlight \in Seq(Entry)
  BY EmptySeq, SlotProperties DEF WgTypeOK, WaitingInFlight, isCommitting
<1>2. WaitingBatch \in Seq(Entry)
  BY EmptySeq, SlotProperties DEF WgTypeOK, WaitingBatch
<1> QED BY <1>1, <1>2, ConcatProperties DEF Waiting

\* The operations of a request begin with the first.
LEMMA EntriesBegin ==
  ASSUME NEW r \in Requests, Entries(r) # <<>>
  PROVE  Entries(r)[1].index = 1
<1>1. Size[r] \in Nat /\ Entries(r) \in Seq(Entry)
  BY SizeAssumption, EntriesType
<1>2. Len(Entries(r)) \in Nat \ {0} /\ DOMAIN Entries(r) = 1..Len(Entries(r))
  BY <1>1, EmptySeq, LenProperties
<1>3. 1 \in DOMAIN Entries(r)
  BY <1>2
<1> QED BY <1>3 DEF Entries

\* Every step keeps it that batches begin with a first operation and that only a commit is applied.
LEMMA FirstInvInductive ==
  ASSUME WgTypeOK, FirstInv, [WgNext]_wgVars
  PROVE  FirstInv'
<1> USE DEF FirstInv, BeginsRequest, isCommitting
<1>1. ASSUME NEW r \in Requests, Batch(r) PROVE FirstInv'
  <2>1. CASE batchCache = <<>>
    <3>1. batchCache' = <<Entries(r)>> /\ applied' = applied /\ inFlight' = inFlight
      BY <1>1, <2>1 DEF Batch, WgAppend
    <3> QED BY <3>1, EntriesBegin
  <2>2. CASE batchCache # <<>>
    <3>1. /\ batchCache' = <<batchCache[1] \o Entries(r)>>
          /\ applied' = applied /\ inFlight' = inFlight
      BY <1>1, <2>2 DEF Batch, WgAppend
    <3>2. batchCache[1] \in Seq(Entry) /\ Entries(r) \in Seq(Entry)
      BY <2>2, SlotProperties, EntriesType DEF WgTypeOK
    <3>3. CASE batchCache[1] = <<>>
      <4>1. batchCache[1] \o Entries(r) = Entries(r)
        BY <3>2, <3>3, ConcatEmptySeq
      <4> QED BY <3>1, <4>1, EntriesBegin
    <3>4. CASE batchCache[1] # <<>>
      <4>1. Len(batchCache[1]) \in Nat \ {0} /\ Len(Entries(r)) \in Nat
        BY <3>2, <3>4, EmptySeq, LenProperties
      <4>2. (batchCache[1] \o Entries(r))[1] = batchCache[1][1]
        BY <3>2, <4>1, ConcatProperties
      <4> QED BY <2>2, <3>1, <3>4, <4>2
    <3> QED BY <3>3, <3>4
  <2> QED BY <2>1, <2>2
<1>2. CASE CommitOnTimeout
  BY <1>2 DEF CommitOnTimeout, StartCommit
<1>3. CASE DeferOnTimeout
  BY <1>3 DEF DeferOnTimeout
<1>4. CASE DbApply
  BY <1>4 DEF DbApply
<1>5. CASE CommitDone
  BY <1>5 DEF CommitDone, StartCommit
<1>6. CASE CommitFailed
  BY <1>6 DEF CommitFailed
<1>7. CASE UNCHANGED wgVars
  BY <1>7 DEF wgVars
<1> QED BY <1>1, <1>2, <1>3, <1>4, <1>5, <1>6, <1>7 DEF WgNext

\* The requests of the operations of a batch are those it calls back: each
\* has its first operation in it.
LEMMA CallbacksAreRequests ==
  ASSUME GatherInv, WgTypeOK, NEW slot \in {inFlight, batchCache}, slot # <<>>
  PROVE  CallbacksOf(slot[1]) = Queue!RequestsIn(slot[1])
<1>1. slot[1] \in Seq(Entry) /\ InSlot(slot) = Elements(slot[1])
  BY SlotProperties DEF WgTypeOK, InSlot
<1>2. \A i \in DOMAIN slot[1] : slot[1][i] \in Entry
  BY <1>1, LenProperties, ElementOfSeq
<1>3. ASSUME NEW i \in DOMAIN slot[1] PROVE slot[1][i].req \in CallbacksOf(slot[1])
  <2> DEFINE e == slot[1][i]
             r == e.req
  <2>1. e \in InSlot(slot) /\ r \in Requests
    BY <1>1, <1>2 DEF Elements, Entry
  <2>2. e \in Operations(r)
    BY <2>1 DEF GatherInv, Genuine, Gathered, Committing
  <2>3. Whole(r, InSlot(slot))
    BY <2>1 DEF GatherInv, RequestInv, Gathered, Committing
  <2>4. Operations(r) \subseteq InSlot(slot)
    BY <2>1, <2>2, <2>3 DEF Whole
  <2>5. [req |-> r, index |-> 1] \in Operations(r)
    <3>1. Size[r] \in Nat /\ \E k \in 1..Size[r] : e = [req |-> r, index |-> k]
      BY <2>1, <2>2, SizeAssumption DEF Operations
    <3> QED BY <3>1 DEF Operations
  <2> QED BY <1>1, <2>1, <2>4, <2>5, CallbackWithFirst
<1> QED BY <1>3 DEF CallbacksOf, Queue!RequestsIn

\* batch() submits the request to the queue.
LEMMA BatchSubmits ==
  ASSUME WgTypeOK, NEW r \in Requests, Batch(r)
  PROVE  Queue!Submit(r)
<1>1. Entries(r) \in Seq(Entry) /\ Queue!Operations(r) = Entries(r)
  BY EntriesType DEF Entries, Queue!Operations
<1>2. WaitingBatch' = WaitingBatch \o Entries(r)
  <2>1. CASE batchCache = <<>>
    <3>1. batchCache' = <<Entries(r)>>
      BY <2>1 DEF Batch, WgAppend
    <3> QED BY <1>1, <2>1, <3>1, ConcatEmptySeq DEF WaitingBatch
  <2>2. CASE batchCache # <<>>
    <3>1. batchCache' = <<batchCache[1] \o Entries(r)>>
      BY <2>2 DEF Batch, WgAppend
    <3> QED BY <2>2, <3>1 DEF WaitingBatch
  <2> QED BY <2>1, <2>2
<1>3. WaitingInFlight' = WaitingInFlight /\ Written' = Written
  BY DEF Batch, WaitingInFlight, Written, isCommitting, CallbacksOf
<1>4. Waiting' = Waiting \o Entries(r)
  <2>1. (WaitingInFlight \o WaitingBatch) \o Entries(r) = WaitingInFlight \o (WaitingBatch \o Entries(r))
    BY <1>1, WaitingType, ConcatAssociative
  <2> QED BY <1>2, <1>3, <2>1 DEF Waiting
<1>5. {submitted[i] : i \in DOMAIN submitted}' = {submitted[i] : i \in DOMAIN submitted} \cup {r}
  <2>1. /\ Len(submitted) \in Nat /\ DOMAIN submitted = 1..Len(submitted)
        /\ DOMAIN submitted' = 1..(Len(submitted) + 1)
        /\ \A i \in 1..Len(submitted) : submitted'[i] = submitted[i]
        /\ submitted'[Len(submitted) + 1] = r
    BY AppendProperties, LenProperties DEF Batch, WgTypeOK
  <2> QED BY <2>1
<1>6. r \notin {submitted[i] : i \in DOMAIN submitted}
  BY DEF Batch
<1>7. dbLog' = dbLog /\ replies' = replies
  BY DEF Batch
<1> QED BY <1>1, <1>3, <1>4, <1>5, <1>6, <1>7 DEF Queue!Submit

\* A step that changes none of these leaves the queue as it is.
LEMMA QueueUnchanged ==
  ASSUME Waiting' = Waiting, Written' = Written, UNCHANGED <<dbLog, submitted, replies>>
  PROVE  UNCHANGED Queue!cqVars
  BY DEF Queue!cqVars

\* To take the gathered batch for a commit changes nothing to what waits.
LEMMA StartCommitKeepsWaiting ==
  ASSUME WgTypeOK, WaitingInFlight = <<>>, StartCommit
  PROVE  Waiting' = Waiting /\ Written' = {}
<1>1. /\ WaitingInFlight' = WaitingBatch /\ WaitingBatch' = <<>> /\ Written' = {}
  BY DEF StartCommit, WaitingInFlight, WaitingBatch, Written, isCommitting
<1>2. WaitingBatch \o <<>> = WaitingBatch /\ <<>> \o WaitingBatch = WaitingBatch
  BY WaitingType, ConcatEmptySeq
<1> QED BY <1>1, <1>2 DEF Waiting

\* What a batch that is committed does to the queue: it is written, whole.
LEMMA ApplyWrites ==
  ASSUME WgTypeOK, GatherInv, FirstInv, DbApply
  PROVE  [Queue!CqNext]_(Queue!cqVars)
<1> DEFINE b == inFlight[1]
<1>1. /\ inFlight # <<>> /\ ~applied /\ b \in Seq(Entry) /\ dbLog \in Seq(Entry)
      /\ WaitingInFlight = b /\ Written = {}
  BY SlotProperties DEF DbApply, isCommitting, WgTypeOK, WaitingInFlight, Written
<1>2. /\ WaitingInFlight' = <<>> /\ WaitingBatch' = WaitingBatch /\ Written' = CallbacksOf(b)
      /\ dbLog' = dbLog \o b /\ submitted' = submitted /\ replies' = replies
  BY <1>1 DEF DbApply, isCommitting, WaitingInFlight, WaitingBatch, Written, CallbacksOf
<1>3. Waiting' = WaitingBatch /\ Waiting = b \o WaitingBatch
  BY <1>1, <1>2, WaitingType, ConcatEmptySeq DEF Waiting
<1>4. CallbacksOf(b) = Queue!RequestsIn(b)
  BY <1>1, CallbacksAreRequests
<1>5. CASE b = <<>>
  <2>1. Waiting' = Waiting /\ dbLog' = dbLog
    BY <1>1, <1>2, <1>3, <1>5, WaitingType, ConcatEmptySeq
  <2>2. Written' = Written
    BY <1>1, <1>2, <1>4, <1>5 DEF Queue!RequestsIn
  <2> QED BY <1>2, <2>1, <2>2, QueueUnchanged
<1>6. CASE b # <<>>
  <2> DEFINE n == Len(b)
  <2>1. /\ n \in Nat \ {0} /\ Len(WaitingBatch) \in Nat
        /\ Len(Waiting) = n + Len(WaitingBatch)
        /\ \A i \in 1 .. Len(Waiting) :
             Waiting[i] = IF i <= n THEN b[i] ELSE WaitingBatch[i - n]
    BY <1>1, <1>3, <1>6, WaitingType, EmptySeq, LenProperties, ConcatProperties
  <2>2. SubSeq(Waiting, 1, n) = b
    <3>1. SubSeq(b, 1, n) = b
      BY <1>1, SubSeqFull
    <3>2. SubSeq(b \o WaitingBatch, 1, n) = SubSeq(b, 1, n)
      BY <1>1, <2>1, WaitingType, SubSeqOfConcat1
    <3> QED BY <1>3, <3>1, <3>2
  <2>3. SubSeq(Waiting, n + 1, Len(Waiting)) = WaitingBatch
    <3>1. CASE Len(WaitingBatch) = 0
      <4>1. WaitingBatch = <<>>
        BY <3>1, WaitingType, EmptySeq
      <4>2. n + 1 \in Int /\ Len(Waiting) \in Int /\ Len(Waiting) < n + 1
        BY <2>1, <3>1
      <4> QED BY <4>1, <4>2, SubSeqEmpty
    <3>2. CASE Len(WaitingBatch) # 0
      <4> DEFINE m == Len(WaitingBatch)
      <4>1. SubSeq(b \o WaitingBatch, n + 1, n + m) = SubSeq(WaitingBatch, (n + 1) - n, (n + m) - n)
        BY <1>1, <2>1, <3>2, WaitingType, SubSeqOfConcat2
      <4>2. (n + 1) - n = 1 /\ (n + m) - n = m
        BY <2>1
      <4>3. SubSeq(WaitingBatch, 1, m) = WaitingBatch
        BY WaitingType, SubSeqFull
      <4> QED BY <1>3, <2>1, <4>1, <4>2, <4>3
    <3> QED BY <3>1, <3>2
  <2>4. n < Len(Waiting) => Waiting[n + 1].index = 1
    <3>1. SUFFICES ASSUME n < Len(Waiting) PROVE Waiting[n + 1].index = 1
      OBVIOUS
    <3>2. Waiting[n + 1] = WaitingBatch[1] /\ Len(WaitingBatch) # 0
      BY <2>1, <3>1
    <3>3. batchCache # <<>> /\ WaitingBatch = batchCache[1] /\ batchCache[1] # <<>>
      BY <3>2 DEF WaitingBatch
    <3> QED BY <3>2, <3>3 DEF FirstInv, BeginsRequest
  <2>5. n \in 1 .. Len(Waiting)
    BY <2>1
  <2>6. Queue!Write(n)
    BY <1>1, <1>2, <1>3, <1>4, <2>2, <2>3, <2>4
       DEF Queue!Write
  <2> QED BY <2>5, <2>6 DEF Queue!CqNext
<1> QED BY <1>5, <1>6

\* To answer nobody leaves the replies as they are.
LEMMA AnswerNobody ==
  ASSUME WgTypeOK, NEW Batches, NEW reply, Answer(Batches, reply), \A b \in Batches : CallbacksOf(b) = {}
  PROVE  replies' = replies
<1>1. replies' = [r \in Requests |-> replies[r]]
  BY DEF Answer
<1> QED BY <1>1 DEF WgTypeOK

\* The end of a commit answers what was written.
LEMMA CommitDoneSucceeds ==
  ASSUME WgTypeOK, CommitDone
  PROVE  [Queue!CqNext]_(Queue!cqVars)
<1>1. /\ inFlight # <<>> /\ applied /\ Answer({inFlight[1]}, "ok") /\ UNCHANGED <<dbLog, submitted>>
      /\ WaitingInFlight = <<>> /\ Written = CallbacksOf(inFlight[1])
  BY DEF CommitDone, isCommitting, WaitingInFlight, Written
<1>2. Waiting' = Waiting /\ Written' = {}
  <2>1. CASE batchCache # <<>> /\ ~timer
    BY <1>1, <2>1, StartCommitKeepsWaiting DEF CommitDone
  <2>2. CASE ~(batchCache # <<>> /\ ~timer)
    BY <1>1, <2>2 DEF CommitDone, Waiting, WaitingInFlight, WaitingBatch, Written, isCommitting
  <2> QED BY <2>1, <2>2
<1>3. CASE Written = {}
  <2>1. replies' = replies
    BY <1>1, <1>3, AnswerNobody
  <2> QED BY <1>1, <1>2, <1>3, <2>1, QueueUnchanged
<1>4. CASE Written # {}
  <2>1. Queue!AnswerAll(Written, "ok")
    BY <1>1 DEF Answer, Queue!AnswerAll
  <2>2. Queue!Succeed
    BY <1>1, <1>2, <1>4, <2>1 DEF Queue!Succeed
  <2> QED BY <2>2 DEF Queue!CqNext
<1> QED BY <1>3, <1>4

\* A failed commit fails what waits.
LEMMA CommitFailedFails ==
  ASSUME WgTypeOK, GatherInv, CommitFailed
  PROVE  [Queue!CqNext]_(Queue!cqVars)
<1> DEFINE failed == {inFlight[1]} \cup {batchCache[i] : i \in DOMAIN batchCache}
<1>1. /\ inFlight # <<>> /\ ~applied /\ Answer(failed, "error") /\ UNCHANGED <<dbLog, submitted>>
      /\ WaitingInFlight = inFlight[1] /\ Written = {} /\ Written' = {}
      /\ inFlight' = <<>> /\ batchCache' = <<>>
  BY DEF CommitFailed, isCommitting, WaitingInFlight, Written
<1>2. Waiting' = <<>>
  <2>1. WaitingInFlight' = <<>> /\ WaitingBatch' = <<>>
    BY <1>1 DEF WaitingInFlight, WaitingBatch, isCommitting
  <2> QED BY <2>1, EmptySeq, ConcatEmptySeq DEF Waiting
<1>3. \A r : (\E b \in failed : r \in CallbacksOf(b)) <=> r \in Queue!RequestsIn(Waiting)
  <2>1. CallbacksOf(inFlight[1]) = Queue!RequestsIn(inFlight[1])
    BY <1>1, CallbacksAreRequests
  <2>2. \A r : (\E i \in DOMAIN batchCache : r \in CallbacksOf(batchCache[i]))
               <=> r \in Queue!RequestsIn(WaitingBatch)
    <3>1. CASE batchCache = <<>>
      BY <3>1 DEF WaitingBatch, Queue!RequestsIn
    <3>2. CASE batchCache # <<>>
      <4>1. DOMAIN batchCache = {1} /\ CallbacksOf(batchCache[1]) = Queue!RequestsIn(batchCache[1])
        BY <3>2, SlotProperties, CallbacksAreRequests DEF WgTypeOK
      <4> QED BY <3>2, <4>1 DEF WaitingBatch
    <3> QED BY <3>1, <3>2
  <2>3. Elements(Waiting) = Elements(inFlight[1]) \cup Elements(WaitingBatch)
    BY <1>1, WaitingType, ElementsOfConcat DEF Waiting
  <2>4. \A s : Queue!RequestsIn(s) = {e.req : e \in Elements(s)}
    BY DEF Queue!RequestsIn, Elements
  <2>5. Queue!RequestsIn(Waiting) = Queue!RequestsIn(inFlight[1]) \cup Queue!RequestsIn(WaitingBatch)
    BY <2>3, <2>4
  <2> QED BY <2>1, <2>2, <2>5
<1>4. CASE Waiting = <<>>
  <2>1. Queue!RequestsIn(Waiting) = {}
    BY <1>4 DEF Queue!RequestsIn
  <2>2. replies' = replies
    BY <1>1, <1>3, <2>1, AnswerNobody
  <2> QED BY <1>1, <1>2, <1>4, <2>2, QueueUnchanged
<1>5. CASE Waiting # <<>>
  <2>1. Queue!AnswerAll(Queue!RequestsIn(Waiting), "error")
    BY <1>1, <1>3 DEF Answer, Queue!AnswerAll
  <2>2. Queue!Fail
    BY <1>1, <1>2, <1>5, <2>1 DEF Queue!Fail
  <2> QED BY <2>2 DEF Queue!CqNext
<1> QED BY <1>4, <1>5

\* Every step of the manager is a step of the queue, or none.
LEMMA StepsOfTheQueue ==
  ASSUME WgTypeOK, GatherInv, FirstInv, [WgNext]_wgVars
  PROVE  [Queue!CqNext]_(Queue!cqVars)
<1>1. ASSUME NEW r \in Requests, Batch(r) PROVE Queue!CqNext
  BY <1>1, BatchSubmits DEF Queue!CqNext
<1>2. CASE CommitOnTimeout
  <2>1. WaitingInFlight = <<>> /\ Written = {} /\ StartCommit /\ UNCHANGED <<dbLog, submitted, replies>>
    BY <1>2 DEF CommitOnTimeout, WaitingInFlight, Written
  <2> QED BY <2>1, StartCommitKeepsWaiting, QueueUnchanged
<1>3. CASE DeferOnTimeout
  <2>1. Waiting' = Waiting /\ Written' = Written
    BY <1>3 DEF DeferOnTimeout, Waiting, WaitingInFlight, WaitingBatch, Written, isCommitting, CallbacksOf
  <2> QED BY <1>3, <2>1, QueueUnchanged DEF DeferOnTimeout
<1>4. CASE DbApply
  BY <1>4, ApplyWrites
<1>5. CASE CommitDone
  BY <1>5, CommitDoneSucceeds
<1>6. CASE CommitFailed
  BY <1>6, CommitFailedFails
<1>7. CASE UNCHANGED wgVars
  <2>1. Waiting' = Waiting /\ Written' = Written
    BY <1>7 DEF wgVars, Waiting, WaitingInFlight, WaitingBatch, Written, isCommitting, CallbacksOf
  <2> QED BY <1>7, <2>1, QueueUnchanged DEF wgVars
<1> QED BY <1>1, <1>2, <1>3, <1>4, <1>5, <1>6, <1>7 DEF WgNext

\* The manager implements the queue of requests: whatever timers fire and commits fail, the
\* database takes whole requests in the order of the calls, and answers are true and single.
\* (That what waits is served in the end is checked, not proved: it rests on fairness.)
THEOREM ImplementsQueue == WgSafety => ImplementsCommitQueue
<1>1. WgInit => GatherInv /\ FirstInv /\ Queue!CqInit
  <2> SUFFICES ASSUME WgInit PROVE GatherInv /\ FirstInv /\ Queue!CqInit
    OBVIOUS
  <2>1. Gathered = {} /\ Committing = {} /\ InDatabase = {}
    BY DEF WgInit, Gathered, Committing, InSlot, InDatabase, Elements
  <2>2. GatherInv
    BY <2>1 DEF WgInit, GatherInv, Genuine, RequestInv, Whole
  <2>3. FirstInv
    BY DEF WgInit, FirstInv, BeginsRequest
  <2>4. Waiting = <<>> /\ Written = {}
    BY EmptySeq, ConcatEmptySeq DEF WgInit, Waiting, WaitingInFlight, WaitingBatch, Written, isCommitting
  <2>5. Queue!CqInit
    BY <2>4 DEF WgInit, Queue!CqInit
  <2> QED BY <2>2, <2>3, <2>5
<1>2. WgTypeOK /\ GatherInv /\ FirstInv /\ [WgNext]_wgVars
        => GatherInv' /\ FirstInv' /\ [Queue!CqNext]_(Queue!cqVars)
  BY GatherInvInductive, FirstInvInductive, StepsOfTheQueue
<1> QED BY <1>1, <1>2, WgTypeCorrect, PTL DEF WgSafety, ImplementsCommitQueue, Queue!CqSpec
================================================================================
