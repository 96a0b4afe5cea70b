--------------------------- MODULE ClusterRPC_proofs ---------------------------
(***************************************************************************)
(* Proofs about ClusterRPC: for any number of workers and calls, under the *)
(* same or different uids, with any timeouts, exits and forks.             *)
(***************************************************************************)
EXTENDS ClusterRPC, SequenceTheorems, TLAPS

UidOf(m) == IF m.type = "command" THEN Uid[m.call] ELSE m.uids

Arrays(values) == UNION {[W -> values] : W \in SUBSET (Workers \cup {Primary})}

Commands == [type : {"command"}, call : Calls]
Results == [type : {"commandResult"}, uids : Uids, payload : Answers]
ManyResults == [type : {"commandResults"}, uids : Uids, payload : Arrays(Answers)]
Errors == [type : {"commandError"}, uids : Uids, payload : {"NotImplemented"}]

ToPrimaryMessages == Commands \cup Results
ToWorkerMessages == Commands \cup ManyResults \cup Errors

ClusterTypes ==
    /\ workers \subseteq Workers
    /\ toPrimary \in [Workers -> Seq(ToPrimaryMessages)]
    /\ toWorker \in [Workers -> Seq(ToWorkerMessages)]
    /\ executing \subseteq (Workers \cup {Primary}) \X Calls \X (1 .. MaxCallbacks)
    /\ uidsToCommandResults \in
        [Uids -> {Null} \cup UNION {[W -> Answers \cup {Null}] : W \in SUBSET Workers}]
    /\ uidsToCommandPromise \in [Workers -> [Uids -> Calls \cup {Null}]]
    /\ DOMAIN outcome = Calls /\ DOMAIN asked = Calls

(* The messages on their way, and what is left in them of the commands with some uids. *)
Held(channels) == UNION {Range(channels[w]) : w \in Workers}
ToPrimary == Held(toPrimary)
ToWorkers == Held(toWorker)

IsCommand(m, u) == m.type = "command" /\ Uid[m.call] = u

Unserved(u) == \E m \in ToPrimary : IsCommand(m, u)

Started(u) ==
    \/ uidsToCommandResults[u] # Null
    \/ \E e \in executing : Uid[e[2]] = u
    \/ \E m \in ToWorkers : UidOf(m) = u
    \/ \E m \in ToPrimary : m.type = "commandResult" /\ m.uids = u

(* A command is served once: it is on its way to the primary at one place only, and then
   nothing of it has been started. *)
Single(channels, u) ==
    \A v, w \in Workers : \A i \in 1 .. Len(channels[v]), j \in 1 .. Len(channels[w]) :
        IsCommand(channels[v][i], u) /\ IsCommand(channels[w][j], u) => v = w /\ i = j

Apart == \A u \in Uids : Single(toPrimary, u) /\ ~(Unserved(u) /\ Started(u))

(* What belongs to the call c. *)
Complete(c, results) ==
    /\ Target[c] \in {"*", Primary} /\ DOMAIN results = asked[c]
    /\ \A p \in asked[c] : results[p] = Computed(c)

FitsPrimary(m, c) ==
    /\ m.type = "command" => m.call = c
    /\ m.type = "commandResult" => m.payload = Computed(c)

FitsWorker(m, c) ==
    /\ m.type = "command" => m.call = c
    /\ m.type = "commandResults" => Complete(c, m.payload)
    /\ m.type = "commandError" => Target[c] \notin {"*", Primary}

FitsHandler(e, c) ==
    e[2] = c /\ (e[1] = Primary => Target[c] = Primary /\ asked[c] = {Primary})

FitsResults(results, c) ==
    /\ Target[c] = "*" /\ DOMAIN results = asked[c]
    /\ \A p \in asked[c] : results[p] \in {Null, Computed(c)}

Belongs(u, c) ==
    /\ \A w \in Workers : uidsToCommandPromise[w][u] \in {Null, c}
    /\ \A m \in ToPrimary : UidOf(m) = u => FitsPrimary(m, c)
    /\ \A m \in ToWorkers : UidOf(m) = u => FitsWorker(m, c)
    /\ \A e \in executing : Uid[e[2]] = u => FitsHandler(e, c)
    /\ uidsToCommandResults[u] # Null => FitsResults(uidsToCommandResults[u], c)

(* All that is left of the commands with the same uids belongs to one of them. *)
Owned == \A u \in Uids : \E c \in Calls : Uid[c] = u /\ Belongs(u, c)

(* A call that is resolved is not served again. *)
Settlement(c) ==
    /\ outcome[c].kind = "results" =>
        Complete(c, outcome[c].results) /\ \A m \in ToPrimary : m.type = "command" => m.call # c
    /\ outcome[c].kind = "NotImplemented" => Target[c] \notin {"*", Primary}

ClusterInv == ClusterTypes /\ Apart /\ Owned /\ \A c \in Calls : Settlement(c)
-----------------------------------------------------------------------------
(* Channels. *)

\* The elements of a sequence that is appended to, or from which the first one is taken.
LEMMA RangeFacts ==
  ASSUME NEW S, NEW s \in Seq(S)
  PROVE  /\ Range(s) \subseteq S /\ Range(<<>>) = {}
         /\ \A x \in S : Range(Append(s, x)) = Range(s) \cup {x}
         /\ s # <<>> => Head(s) \in Range(s) /\ Range(Tail(s)) \subseteq Range(s)
<1>1. Range(s) \subseteq S /\ Range(s) = {s[i] : i \in 1 .. Len(s)}
  BY RangeOfSeq, RangeEquality
<1>2. Range(<<>>) = {}
  BY DEF Range
<1>3. ASSUME NEW x \in S PROVE Range(Append(s, x)) = Range(s) \cup {x}
  <2> DEFINE t == Append(s, x)
             n == Len(s)
  <2>1. t \in Seq(S) /\ Len(t) = n + 1 /\ n \in Nat /\ t[n + 1] = x /\ \A i \in 1 .. n : t[i] = s[i]
    OBVIOUS
  <2> HIDE DEF t
  <2>2. Range(t) = {t[i] : i \in 1 .. Len(t)}
    BY <2>1, RangeEquality
  <2>3. 1 .. n + 1 = (1 .. n) \cup {n + 1}
    BY <2>1
  <2> HIDE DEF n
  <2>4. Range(t) = {s[i] : i \in 1 .. n} \cup {x}
    BY <2>1, <2>2, <2>3
  <2> QED BY <1>1, <2>4 DEF t, n
<1>4. ASSUME s # <<>> PROVE Head(s) \in Range(s) /\ Range(Tail(s)) \subseteq Range(s)
  <2> DEFINE t == Tail(s)
             n == Len(s)
  <2>1. t \in Seq(S) /\ Len(t) = n - 1 /\ n \in Nat \ {0} /\ \A i \in 1 .. n - 1 : t[i] = s[i + 1]
    BY <1>4
  <2>2. Head(s) = s[1] /\ 1 \in 1 .. n
    BY <1>4, <2>1
  <2> HIDE DEF t
  <2>3. Range(t) = {t[i] : i \in 1 .. Len(t)}
    BY <2>1, RangeEquality
  <2>4. \A i \in 1 .. n - 1 : i + 1 \in 1 .. n
    BY <2>1
  <2> HIDE DEF n
  <2>5. \A i \in 1 .. Len(t) : t[i] \in Range(s)
    BY <1>1, <2>1, <2>4 DEF n
  <2> QED BY <1>1, <2>2, <2>3, <2>5 DEF t, n
<1> QED BY <1>1, <1>2, <1>3, <1>4

\* A channel that a message is sent into.
LEMMA SentHolds ==
  ASSUME NEW M, NEW channels \in [Workers -> Seq(M)], NEW w, NEW m \in M
  PROVE  /\ Sent(channels, w, m) \in [Workers -> Seq(M)]
         /\ Held(Sent(channels, w, m)) \subseteq Held(channels) \cup {m}
<1> DEFINE next == Sent(channels, w, m)
<1>1. ASSUME NEW v \in Workers
      PROVE  next[v] = channels[v] \/ next[v] = Append(channels[v], m)
  BY DEF Sent
<1>2. next \in [Workers -> Seq(M)]
  <2>1. CASE w \in Workers
    <3>1. Append(channels[w], m) \in Seq(M)
      BY <2>1
    <3> QED BY <3>1 DEF Sent
  <2>2. CASE w \notin Workers
    BY <2>2 DEF Sent
  <2> QED BY <2>1, <2>2
<1> HIDE DEF next
<1>3. ASSUME NEW v \in Workers PROVE Range(next[v]) \subseteq Range(channels[v]) \cup {m}
  <2>1. channels[v] \in Seq(M)
    OBVIOUS
  <2>2. Range(Append(channels[v], m)) = Range(channels[v]) \cup {m}
    BY <2>1, RangeFacts
  <2> QED BY <1>1, <2>2
<1>4. Held(next) \subseteq Held(channels) \cup {m}
  BY <1>3 DEF Held
<1> QED BY <1>2, <1>4 DEF next

\* The channels of all workers, that a message is sent into.
LEMMA SentToAllHolds ==
  ASSUME NEW M, NEW channels \in [Workers -> Seq(M)], NEW m \in M
  PROVE  /\ SentToAll(channels, m) \in [Workers -> Seq(M)]
         /\ Held(SentToAll(channels, m)) \subseteq Held(channels) \cup {m}
<1> DEFINE next == SentToAll(channels, m)
<1>1. ASSUME NEW v \in Workers
      PROVE  next[v] = channels[v] \/ next[v] = Append(channels[v], m)
  BY DEF SentToAll
<1>2. next \in [Workers -> Seq(M)]
  BY DEF SentToAll
<1> HIDE DEF next
<1>3. ASSUME NEW v \in Workers PROVE Range(next[v]) \subseteq Range(channels[v]) \cup {m}
  <2>1. channels[v] \in Seq(M)
    OBVIOUS
  <2>2. Range(Append(channels[v], m)) = Range(channels[v]) \cup {m}
    BY <2>1, RangeFacts
  <2> QED BY <1>1, <2>2
<1>4. Held(next) \subseteq Held(channels) \cup {m}
  BY <1>3 DEF Held
<1> QED BY <1>2, <1>4 DEF next

\* A channel that a message is taken from.
LEMMA TakenHolds ==
  ASSUME NEW M, NEW channels \in [Workers -> Seq(M)], NEW w \in Workers, channels[w] # <<>>,
         NEW next, next = [channels EXCEPT ![w] = Tail(@)]
  PROVE  /\ next \in [Workers -> Seq(M)] /\ Head(channels[w]) \in Held(channels)
         /\ Held(next) \subseteq Held(channels) /\ Held(channels) \subseteq M
<1>1. ASSUME NEW v \in Workers
      PROVE  next[v] = IF v = w THEN Tail(channels[w]) ELSE channels[v]
  OBVIOUS
<1>2. next \in [Workers -> Seq(M)]
  OBVIOUS
<1>3. ASSUME NEW v \in Workers
      PROVE  Range(next[v]) \subseteq Range(channels[v]) /\ Range(channels[v]) \subseteq M
  BY <1>1, RangeFacts
<1>4. Head(channels[w]) \in Range(channels[w])
  BY RangeFacts
<1> QED BY <1>2, <1>3, <1>4 DEF Held

\* A channel that is cleared.
LEMMA ClearedHolds ==
  ASSUME NEW M, NEW channels \in [Workers -> Seq(M)], NEW w \in Workers,
         NEW next, next = [channels EXCEPT ![w] = <<>>]
  PROVE  next \in [Workers -> Seq(M)] /\ Held(next) \subseteq Held(channels)
<1>1. ASSUME NEW v \in Workers
      PROVE  next[v] = IF v = w THEN <<>> ELSE channels[v]
  OBVIOUS
<1>2. next \in [Workers -> Seq(M)]
  OBVIOUS
<1>3. ASSUME NEW v \in Workers PROVE Range(next[v]) \subseteq Range(channels[v])
  BY <1>1 DEF Range
<1> QED BY <1>2, <1>3 DEF Held

\* What is at a place of a channel is held.
LEMMA PlaceHeld ==
  ASSUME NEW M, NEW channels \in [Workers -> Seq(M)], NEW w \in Workers, NEW i \in 1 .. Len(channels[w])
  PROVE  channels[w][i] \in Held(channels) /\ channels[w][i] \in M
<1>1. channels[w] \in Seq(M)
  OBVIOUS
<1>2. channels[w][i] \in Range(channels[w]) /\ channels[w][i] \in M
  BY <1>1, RangeEquality, ElementOfSeq
<1> QED BY <1>2 DEF Held

-----------------------------------------------------------------------------
(* A command is at one place. *)

\* A message that is no command with these uids, or the only one, leaves it at one place.
LEMMA SingleSent ==
  ASSUME NEW M, NEW channels \in [Workers -> Seq(M)], NEW w, NEW m \in M, NEW u,
         Single(channels, u), ~IsCommand(m, u) \/ \A x \in Held(channels) : ~IsCommand(x, u)
  PROVE  Single(Sent(channels, w, m), u)
<1> DEFINE next == Sent(channels, w, m)
<1>1. ASSUME NEW v \in Workers, NEW i \in 1 .. Len(next[v]), IsCommand(next[v][i], u)
      PROVE  \/ i \in 1 .. Len(channels[v]) /\ IsCommand(channels[v][i], u)
             \/ v = w /\ i = Len(channels[v]) + 1 /\ IsCommand(m, u)
  <2> DEFINE s == channels[v]
             n == Len(channels[v])
  <2>1. s \in Seq(M) /\ n \in Nat /\ n = Len(s)
    OBVIOUS
  <2>2. next[v] = s \/ (v = w /\ next[v] = Append(s, m))
    BY DEF Sent
  <2>3. CASE next[v] = s
    BY <1>1, <2>3
  <2>4. CASE v = w /\ next[v] = Append(s, m)
    <3> HIDE DEF s, next
    <3>1. i \in 1 .. n + 1 /\ (i # n + 1 => i \in 1 .. n)
      <4>1. Len(next[v]) = n + 1
        BY <2>1, <2>4
      <4> HIDE DEF n
      <4> QED BY <2>1, <4>1
    <3>2. next[v][i] = IF i = n + 1 THEN m ELSE s[i]
      BY <2>1, <2>4, <3>1
    <3> QED BY <1>1, <2>4, <3>1, <3>2 DEF s
  <2> QED BY <2>2, <2>3, <2>4
<1>2. ASSUME NEW v \in Workers, NEW i \in 1 .. Len(channels[v]), IsCommand(channels[v][i], u)
      PROVE  ~IsCommand(m, u)
  BY <1>2, PlaceHeld
<1> SUFFICES ASSUME NEW v \in Workers, NEW x \in Workers, NEW i \in 1 .. Len(next[v]), NEW j \in 1 .. Len(next[x]),
                    IsCommand(next[v][i], u), IsCommand(next[x][j], u)
             PROVE  v = x /\ i = j
  BY DEF Single
<1> QED BY <1>1, <1>2 DEF Single

\* A command that is taken is nowhere then.
LEMMA SingleTaken ==
  ASSUME NEW M, NEW channels \in [Workers -> Seq(M)], NEW w \in Workers, channels[w] # <<>>, NEW u,
         Single(channels, u), NEW next, next = [channels EXCEPT ![w] = Tail(@)]
  PROVE  /\ Single(next, u)
         /\ IsCommand(Head(channels[w]), u) => \A x \in Held(next) : ~IsCommand(x, u)
<1> DEFINE Was(v, i) == IF v = w THEN i + 1 ELSE i
<1>1. ASSUME NEW v \in Workers, NEW i \in 1 .. Len(next[v])
      PROVE  Was(v, i) \in 1 .. Len(channels[v]) /\ next[v][i] = channels[v][Was(v, i)]
  <2> DEFINE s == channels[v]
             n == Len(channels[v])
  <2>1. s \in Seq(M) /\ n \in Nat /\ n = Len(s)
    OBVIOUS
  <2>2. CASE v # w
    BY <2>1, <2>2
  <2>3. CASE v = w
    <3>1. next[v] = Tail(s) /\ s # <<>>
      BY <2>3
    <3> HIDE DEF s
    <3>2. Len(Tail(s)) = n - 1 /\ n # 0 /\ \A k \in 1 .. n - 1 : Tail(s)[k] = s[k + 1]
      BY <2>1, <3>1
    <3> HIDE DEF n
    <3>3. i \in 1 .. n - 1 /\ i + 1 \in 1 .. n
      BY <2>1, <3>1, <3>2
    <3> QED BY <2>3, <3>1, <3>2, <3>3 DEF s, n
  <2> QED BY <2>2, <2>3
<1>2. ASSUME NEW v \in Workers, NEW x \in Workers, NEW i \in 1 .. Len(next[v]), NEW j \in 1 .. Len(next[x]),
             IsCommand(next[v][i], u), IsCommand(next[x][j], u)
      PROVE  v = x /\ i = j
  <2> DEFINE k == Was(v, i)
             l == Was(x, j)
  <2>1. k \in 1 .. Len(channels[v]) /\ l \in 1 .. Len(channels[x])
        /\ next[v][i] = channels[v][k] /\ next[x][j] = channels[x][l]
    BY <1>1
  <2> HIDE DEF k, l
  <2>2. v = x /\ k = l
    BY <1>2, <2>1 DEF Single
  <2> QED BY <2>2 DEF k, l
<1>3. ASSUME IsCommand(Head(channels[w]), u), NEW x \in Held(next), IsCommand(x, u) PROVE FALSE
  <2>1. PICK v \in Workers : x \in Range(next[v])
    BY DEF Held
  <2>2. next[v] \in Seq(M)
    BY TakenHolds
  <2>3. PICK i \in 1 .. Len(next[v]) : x = next[v][i]
    <3>1. Range(next[v]) = {next[v][i] : i \in 1 .. Len(next[v])}
      BY <2>2, RangeEquality
    <3> QED BY <2>1, <3>1
  <2> DEFINE k == Was(v, i)
  <2>4. k \in 1 .. Len(channels[v]) /\ x = channels[v][k]
    BY <1>1, <2>3
  <2>5. channels[w] \in Seq(M) /\ 1 \in 1 .. Len(channels[w]) /\ Head(channels[w]) = channels[w][1]
    OBVIOUS
  <2> HIDE DEF k
  <2>6. v = w /\ k = 1
    BY <1>3, <2>4, <2>5 DEF Single
  <2> QED BY <2>6 DEF k
<1>4. Single(next, u)
  BY <1>2 DEF Single
<1> QED BY <1>3, <1>4

\* A channel that is cleared leaves a command where it was.
LEMMA SingleCleared ==
  ASSUME NEW M, NEW channels \in [Workers -> Seq(M)], NEW w \in Workers, NEW u,
         Single(channels, u), NEW next, next = [channels EXCEPT ![w] = <<>>]
  PROVE  Single(next, u)
<1>1. ASSUME NEW v \in Workers, NEW i \in 1 .. Len(next[v])
      PROVE  i \in 1 .. Len(channels[v]) /\ next[v][i] = channels[v][i]
  <2>1. CASE v = w
    <3>1. next[v] = <<>>
      BY <2>1
    <3> QED BY <3>1
  <2>2. CASE v # w
    <3>1. next[v] = channels[v]
      BY <2>2
    <3> QED BY <3>1
  <2> QED BY <2>1, <2>2
<1> HIDE DEF Single
<1> QED BY <1>1 DEF Single

-----------------------------------------------------------------------------
(* Messages. *)

\* What the messages hold.
LEMMA MessageFacts ==
  /\ \A c \in Calls :
        /\ Command(c) \in Commands /\ Command(c).type = "command" /\ Command(c).call = c
        /\ Uid[c] \in Uids /\ UidOf(Command(c)) = Uid[c]
        /\ Computed(c) \in Answers /\ Computed(c) # Null
  /\ \A u \in Uids, v \in Answers :
        /\ CommandResult(u, v) \in Results /\ CommandResult(u, v).type = "commandResult"
        /\ CommandResult(u, v).uids = u /\ CommandResult(u, v).payload = v
        /\ UidOf(CommandResult(u, v)) = u
  /\ \A u \in Uids, a \in Arrays(Answers) :
        /\ CommandResults(u, a) \in ManyResults /\ CommandResults(u, a).type = "commandResults"
        /\ CommandResults(u, a).uids = u /\ CommandResults(u, a).payload = a
        /\ UidOf(CommandResults(u, a)) = u
  /\ \A u \in Uids :
        /\ CommandError(u, "NotImplemented") \in Errors
        /\ CommandError(u, "NotImplemented").type = "commandError"
        /\ UidOf(CommandError(u, "NotImplemented")) = u
<1>1. ASSUME NEW c \in Calls
      PROVE  /\ Command(c) \in Commands /\ Command(c).type = "command" /\ Command(c).call = c
             /\ Uid[c] \in Uids /\ UidOf(Command(c)) = Uid[c]
             /\ Computed(c) \in Answers /\ Computed(c) # Null
  BY ClusterAssumption DEF Command, Commands, Uids, UidOf, Computed, Answers
<1>2. ASSUME NEW u \in Uids, NEW v \in Answers
      PROVE  /\ CommandResult(u, v) \in Results /\ CommandResult(u, v).type = "commandResult"
             /\ CommandResult(u, v).uids = u /\ CommandResult(u, v).payload = v
             /\ UidOf(CommandResult(u, v)) = u
  BY DEF CommandResult, Results, UidOf
<1>3. ASSUME NEW u \in Uids, NEW a \in Arrays(Answers)
      PROVE  /\ CommandResults(u, a) \in ManyResults /\ CommandResults(u, a).type = "commandResults"
             /\ CommandResults(u, a).uids = u /\ CommandResults(u, a).payload = a
             /\ UidOf(CommandResults(u, a)) = u
  BY DEF CommandResults, ManyResults, UidOf
<1>4. ASSUME NEW u \in Uids
      PROVE  /\ CommandError(u, "NotImplemented") \in Errors
             /\ CommandError(u, "NotImplemented").type = "commandError"
             /\ UidOf(CommandError(u, "NotImplemented")) = u
  BY DEF CommandError, Errors, UidOf
<1> QED BY <1>1, <1>2, <1>3, <1>4

\* What the messages in the channels are.
LEMMA HeldFacts ==
  ASSUME ClusterTypes
  PROVE  /\ \A m \in ToPrimary :
                \/ m \in Commands /\ m.type = "command" /\ m.call \in Calls /\ UidOf(m) = Uid[m.call]
                \/ m \in Results /\ m.type = "commandResult" /\ m.uids \in Uids /\ UidOf(m) = m.uids
         /\ \A m \in ToWorkers :
                \/ m \in Commands /\ m.type = "command" /\ m.call \in Calls /\ UidOf(m) = Uid[m.call]
                \/ m \in ManyResults /\ m.type = "commandResults" /\ m.uids \in Uids /\ UidOf(m) = m.uids
                \/ m \in Errors /\ m.type = "commandError" /\ m.uids \in Uids /\ UidOf(m) = m.uids
                   /\ m.payload = "NotImplemented"
<1>1. ASSUME NEW M, NEW channels \in [Workers -> Seq(M)] PROVE Held(channels) \subseteq M
  <2>1. ASSUME NEW w \in Workers PROVE Range(channels[w]) \subseteq M
    <3>1. channels[w] \in Seq(M)
      OBVIOUS
    <3> QED BY <3>1, RangeFacts
  <2> QED BY <2>1 DEF Held
<1>2. ToPrimary \subseteq Commands \cup Results /\ ToWorkers \subseteq Commands \cup ManyResults \cup Errors
  BY <1>1 DEF ToPrimary, ToWorkers, ClusterTypes, ToPrimaryMessages, ToWorkerMessages
<1>3. ASSUME NEW m \in Commands PROVE m.type = "command" /\ m.call \in Calls /\ UidOf(m) = Uid[m.call]
  BY DEF Commands, UidOf
<1>4. ASSUME NEW m \in Results PROVE m.type = "commandResult" /\ m.uids \in Uids /\ UidOf(m) = m.uids
  BY DEF Results, UidOf
<1>5. ASSUME NEW m \in ManyResults PROVE m.type = "commandResults" /\ m.uids \in Uids /\ UidOf(m) = m.uids
  BY DEF ManyResults, UidOf
<1>6. ASSUME NEW m \in Errors
      PROVE  m.type = "commandError" /\ m.uids \in Uids /\ UidOf(m) = m.uids /\ m.payload = "NotImplemented"
  BY DEF Errors, UidOf
<1> QED BY <1>2, <1>3, <1>4, <1>5, <1>6

\* The channel to the primary.
LEMMA PrimarySent ==
  ASSUME ClusterTypes, NEW w, NEW m \in ToPrimaryMessages, toPrimary' = Sent(toPrimary, w, m)
  PROVE  toPrimary' \in [Workers -> Seq(ToPrimaryMessages)] /\ ToPrimary' \subseteq ToPrimary \cup {m}
<1>1. toPrimary \in [Workers -> Seq(ToPrimaryMessages)]
  BY DEF ClusterTypes
<1>2. /\ Sent(toPrimary, w, m) \in [Workers -> Seq(ToPrimaryMessages)]
      /\ Held(Sent(toPrimary, w, m)) \subseteq Held(toPrimary) \cup {m}
  BY <1>1, SentHolds
<1> QED BY <1>2 DEF ToPrimary, Held

\* What is taken from it was held, and the rest still is.
LEMMA PrimaryTaken ==
  ASSUME ClusterTypes, NEW w \in Workers, toPrimary[w] # <<>>, toPrimary' = [toPrimary EXCEPT ![w] = Tail(@)]
  PROVE  /\ toPrimary' \in [Workers -> Seq(ToPrimaryMessages)] /\ ToPrimary' \subseteq ToPrimary
         /\ Head(toPrimary[w]) \in ToPrimary
<1>1. toPrimary \in [Workers -> Seq(ToPrimaryMessages)]
  BY DEF ClusterTypes
<1>2. ASSUME NEW v \in Workers
      PROVE  toPrimary'[v] = IF v = w THEN Tail(toPrimary[w]) ELSE toPrimary[v]
  BY <1>1
<1>3. toPrimary' \in [Workers -> Seq(ToPrimaryMessages)]
  BY <1>1
<1>4. ASSUME NEW v \in Workers PROVE Range(toPrimary'[v]) \subseteq Range(toPrimary[v])
  <2>1. toPrimary[v] \in Seq(ToPrimaryMessages)
    BY <1>1
  <2> QED BY <1>2, <2>1, RangeFacts
<1>5. Head(toPrimary[w]) \in Range(toPrimary[w])
  <2>1. toPrimary[w] \in Seq(ToPrimaryMessages)
    BY <1>1
  <2> QED BY <2>1, RangeFacts
<1> QED BY <1>3, <1>4, <1>5 DEF ToPrimary, Held

\* The channels to the workers.
LEMMA WorkersSent ==
  ASSUME ClusterTypes, NEW w, NEW m \in ToWorkerMessages,
         toWorker' = Sent(toWorker, w, m) \/ toWorker' = SentToAll(toWorker, m)
  PROVE  toWorker' \in [Workers -> Seq(ToWorkerMessages)] /\ ToWorkers' \subseteq ToWorkers \cup {m}
<1>1. toWorker \in [Workers -> Seq(ToWorkerMessages)]
  BY DEF ClusterTypes
<1>2. /\ Sent(toWorker, w, m) \in [Workers -> Seq(ToWorkerMessages)]
      /\ Held(Sent(toWorker, w, m)) \subseteq Held(toWorker) \cup {m}
  BY <1>1, SentHolds
<1>3. /\ SentToAll(toWorker, m) \in [Workers -> Seq(ToWorkerMessages)]
      /\ Held(SentToAll(toWorker, m)) \subseteq Held(toWorker) \cup {m}
  BY <1>1, SentToAllHolds
<1> QED BY <1>2, <1>3 DEF ToWorkers, Held

\* What is taken from one of them was held, and the rest still is.
LEMMA WorkersTaken ==
  ASSUME ClusterTypes, NEW w \in Workers, toWorker[w] # <<>>, toWorker' = [toWorker EXCEPT ![w] = Tail(@)]
  PROVE  /\ toWorker' \in [Workers -> Seq(ToWorkerMessages)] /\ ToWorkers' \subseteq ToWorkers
         /\ Head(toWorker[w]) \in ToWorkers
<1>1. toWorker \in [Workers -> Seq(ToWorkerMessages)]
  BY DEF ClusterTypes
<1>2. ASSUME NEW v \in Workers
      PROVE  toWorker'[v] = IF v = w THEN Tail(toWorker[w]) ELSE toWorker[v]
  BY <1>1
<1>3. toWorker' \in [Workers -> Seq(ToWorkerMessages)]
  BY <1>1
<1>4. ASSUME NEW v \in Workers PROVE Range(toWorker'[v]) \subseteq Range(toWorker[v])
  <2>1. toWorker[v] \in Seq(ToWorkerMessages)
    BY <1>1
  <2> QED BY <1>2, <2>1, RangeFacts
<1>5. Head(toWorker[w]) \in Range(toWorker[w])
  <2>1. toWorker[w] \in Seq(ToWorkerMessages)
    BY <1>1
  <2> QED BY <2>1, RangeFacts
<1> QED BY <1>3, <1>4, <1>5 DEF ToWorkers, Held

-----------------------------------------------------------------------------
(* Steps. *)

\* What belongs to a call still does after a step that adds nothing but what fits the call.
LEMMA BelongsKept ==
  ASSUME NEW u, NEW c, Belongs(u, c),
         asked'[c] = asked[c],
         \A w \in Workers : uidsToCommandPromise'[w][u] \in {uidsToCommandPromise[w][u], Null},
         \A m \in ToPrimary' : m \in ToPrimary \/ UidOf(m) # u \/ FitsPrimary(m, c),
         \A m \in ToWorkers' : m \in ToWorkers \/ UidOf(m) # u \/ FitsWorker(m, c),
         \A e \in executing' : e \in executing \/ Uid[e[2]] # u \/ FitsHandler(e, c),
         \/ uidsToCommandResults'[u] \in {uidsToCommandResults[u], Null}
         \/ FitsResults(uidsToCommandResults'[u], c)
  PROVE  Belongs(u, c)'
<1>1. ASSUME NEW m, FitsWorker(m, c) PROVE FitsWorker(m, c)'
  BY <1>1 DEF FitsWorker, Complete
<1>2. ASSUME NEW e, FitsHandler(e, c) PROVE FitsHandler(e, c)'
  BY <1>2 DEF FitsHandler
<1>3. ASSUME NEW results, FitsResults(results, c)
      PROVE  Target[c] = "*" /\ DOMAIN results = asked'[c] /\ \A p \in asked'[c] : results[p] \in {Null, Computed(c)}
  BY <1>3 DEF FitsResults
<1>4. \A w \in Workers : uidsToCommandPromise'[w][u] \in {Null, c}
  BY DEF Belongs
<1>5. \A m \in ToPrimary' : UidOf(m) = u => FitsPrimary(m, c)
  BY DEF Belongs
<1>6. \A m \in ToWorkers' : UidOf(m) = u => FitsWorker(m, c)'
  BY <1>1 DEF Belongs
<1>7. \A e \in executing' : Uid[e[2]] = u => FitsHandler(e, c)'
  BY <1>2 DEF Belongs
<1>8. uidsToCommandResults'[u] # Null => FitsResults(uidsToCommandResults[u], c)'
  <2> SUFFICES ASSUME uidsToCommandResults'[u] # Null PROVE FitsResults(uidsToCommandResults[u], c)'
    OBVIOUS
  <2>1. FitsResults(uidsToCommandResults'[u], c)
    BY DEF Belongs
  <2> QED BY <1>3, <2>1 DEF FitsResults
<1> QED BY <1>4, <1>5, <1>6, <1>7, <1>8 DEF Belongs

\* A command is still served once after a step that adds no command, and starts nothing new.
LEMMA ApartKept ==
  ASSUME Apart, NEW u \in Uids, Single(toPrimary', u),
         Unserved(u)' => Unserved(u), Started(u)' => Started(u) \/ ~Unserved(u)'
  PROVE  Single(toPrimary', u) /\ ~(Unserved(u)' /\ Started(u)')
  BY DEF Apart

\* A settlement is final.
LEMMA SettlementKept ==
  ASSUME NEW c, Settlement(c), asked'[c] = asked[c] \/ outcome[c].kind # "results",
         outcome'[c] = outcome[c] \/ outcome'[c].kind \notin {"results", "NotImplemented"},
         \A m \in ToPrimary' : m.type = "command" => m \in ToPrimary \/ m.call # c
  PROVE  Settlement(c)'
  BY DEF Settlement, Complete

\* Steps that leave the channels and the primary as they are (Timeout, RejectDuplicate, Fork).
LEMMA CallersStep ==
  ASSUME ClusterInv, workers' \subseteq Workers,
         UNCHANGED <<toPrimary, toWorker, executing, uidsToCommandResults, asked>>,
         uidsToCommandPromise' \in [Workers -> [Uids -> Calls \cup {Null}]],
         \A w \in Workers, u \in Uids : uidsToCommandPromise'[w][u] \in {uidsToCommandPromise[w][u], Null},
         DOMAIN outcome' = Calls,
         \A c \in Calls : outcome'[c] = outcome[c] \/ outcome'[c].kind \notin {"results", "NotImplemented"}
  PROVE  ClusterInv'
<1>1. ClusterTypes'
  BY DEF ClusterInv, ClusterTypes
<1>2. ToPrimary' = ToPrimary /\ ToWorkers' = ToWorkers
  BY DEF ToPrimary, ToWorkers, Held
<1>3. Apart'
  BY <1>2 DEF ClusterInv, Apart, Unserved, Started
<1>4. Owned'
  <2> SUFFICES ASSUME NEW u \in Uids PROVE \E c \in Calls : Uid[c] = u /\ Belongs(u, c)'
    BY DEF Owned
  <2>1. PICK c \in Calls : Uid[c] = u /\ Belongs(u, c)
    BY DEF ClusterInv, Owned
  <2>2. Belongs(u, c)'
    BY <1>2, <2>1, BelongsKept
  <2> QED BY <2>1, <2>2
<1>5. ASSUME NEW c \in Calls PROVE Settlement(c)'
  <2>1. Settlement(c)
    BY DEF ClusterInv
  <2> QED BY <1>2, <2>1, SettlementKept
<1> QED BY <1>1, <1>3, <1>4, <1>5 DEF ClusterInv

\* A timer fires.
LEMMA TimeoutKeeps == ASSUME ClusterInv, NEW c \in Calls, Timeout(c) PROVE ClusterInv'
<1>1. /\ uidsToCommandPromise' = [uidsToCommandPromise EXCEPT ![Caller[c]][Uid[c]] = Null]
      /\ outcome' = IF outcome[c].kind = "pending"
                    THEN [outcome EXCEPT ![c] = Settled("RequestTimeout")] ELSE outcome
      /\ UNCHANGED <<workers, toPrimary, toWorker, executing, uidsToCommandResults, asked>>
  BY DEF Timeout, clusterVars, primaryVars
<1>2. /\ uidsToCommandPromise \in [Workers -> [Uids -> Calls \cup {Null}]] /\ DOMAIN outcome = Calls
      /\ workers \subseteq Workers
  BY DEF ClusterInv, ClusterTypes
<1>3. /\ uidsToCommandPromise' \in [Workers -> [Uids -> Calls \cup {Null}]]
      /\ \A w \in Workers, u \in Uids : uidsToCommandPromise'[w][u] \in {uidsToCommandPromise[w][u], Null}
  BY <1>1, <1>2
<1>4. /\ DOMAIN outcome' = Calls
      /\ \A d \in Calls : outcome'[d] = outcome[d] \/ outcome'[d].kind \notin {"results", "NotImplemented"}
  BY <1>1, <1>2 DEF Settled
<1> QED BY <1>1, <1>2, <1>3, <1>4, CallersStep

\* A command is posted when nothing is left of one with the same uids.
LEMMA PostKeeps ==
  ASSUME ClusterInv, NEW c \in Calls, UidFreeElsewhere(c), PostCommand(c),
         UNCHANGED <<workers, toWorker, uidsToCommandResults, asked, executing>>
  PROVE  ClusterInv'
<1> DEFINE uid == Uid[c]
           m == Command(c)
<1>1. /\ uidsToCommandPromise[Caller[c]][uid] = Null
      /\ uidsToCommandPromise' = [uidsToCommandPromise EXCEPT ![Caller[c]][uid] = c]
      /\ outcome' = [outcome EXCEPT ![c] = Settled("pending")]
      /\ toPrimary' = Sent(toPrimary, Caller[c], m)
      /\ Caller[c] \in Workers
  BY ClusterAssumption DEF PostCommand
<1>2. ClusterTypes
  BY DEF ClusterInv
<1>3. /\ m \in Commands /\ m.type = "command" /\ m.call = c /\ UidOf(m) = uid /\ uid \in Uids
  BY MessageFacts
<1> HIDE DEF m
<1>4. toPrimary' \in [Workers -> Seq(ToPrimaryMessages)] /\ ToPrimary' \subseteq ToPrimary \cup {m}
  BY <1>1, <1>2, <1>3, PrimarySent DEF ToPrimaryMessages
<1>5. /\ uidsToCommandPromise' \in [Workers -> [Uids -> Calls \cup {Null}]]
      /\ \A u \in Uids \ {uid}, w \in Workers : uidsToCommandPromise'[w][u] = uidsToCommandPromise[w][u]
      /\ \A w \in Workers : uidsToCommandPromise'[w][uid] \in {Null, c}
  BY <1>1, <1>2, <1>3 DEF ClusterTypes, UidFreeElsewhere
<1>6. ClusterTypes'
  BY <1>1, <1>2, <1>4, <1>5 DEF ClusterTypes
<1>7. ToWorkers' = ToWorkers
  BY DEF ToWorkers, Held
<1>8. ~Unserved(uid) /\ ~Started(uid)
  <2>1. ~InProgress(uid)
    BY <1>1 DEF UidFreeElsewhere
  <2>2. \A x \in ToPrimary \cup ToWorkers : uid # IF x.type = "command" THEN Uid[x.call] ELSE x.uids
    BY <2>1 DEF InProgress, ToPrimary, ToWorkers, Held
  <2>3. uidsToCommandResults[uid] = Null /\ \A e \in executing : Uid[e[2]] # uid
    BY <2>1 DEF InProgress
  <2> QED BY <2>2, <2>3 DEF Unserved, Started, IsCommand, UidOf
<1>9. Apart'
  <2> SUFFICES ASSUME NEW u \in Uids PROVE Single(toPrimary', u) /\ ~(Unserved(u)' /\ Started(u)')
    BY DEF Apart
  <2>1. Single(toPrimary', u)
    <3>1. Single(toPrimary, u)
      BY DEF ClusterInv, Apart
    <3>2. ~IsCommand(m, u) \/ \A x \in Held(toPrimary) : ~IsCommand(x, u)
      BY <1>3, <1>8 DEF IsCommand, Unserved, ToPrimary
    <3>3. toPrimary \in [Workers -> Seq(ToPrimaryMessages)] /\ m \in ToPrimaryMessages
      BY <1>2, <1>3 DEF ClusterTypes, ToPrimaryMessages
    <3> QED BY <1>1, <3>1, <3>2, <3>3, SingleSent
  <2>2. Started(u)' => Started(u)
    BY <1>3, <1>4, <1>7 DEF Started
  <2>3. u # uid => (Unserved(u)' => Unserved(u))
    BY <1>3, <1>4 DEF Unserved, IsCommand
  <2> QED BY <1>8, <2>1, <2>2, <2>3 DEF ClusterInv, Apart
<1>10. Owned'
  <2> SUFFICES ASSUME NEW u \in Uids PROVE \E d \in Calls : Uid[d] = u /\ Belongs(u, d)'
    BY DEF Owned
  <2>1. CASE u # uid
    <3>1. PICK d \in Calls : Uid[d] = u /\ Belongs(u, d)
      BY DEF ClusterInv, Owned
    <3>2. Belongs(u, d)'
      BY <1>3, <1>4, <1>5, <1>7, <2>1, <3>1, BelongsKept
    <3> QED BY <3>1, <3>2
  <2>2. CASE u = uid
    <3>1. \A x \in ToPrimary' : UidOf(x) = u => FitsPrimary(x, c)
      <4>1. \A x \in ToPrimary : UidOf(x) # uid
        BY <1>2, <1>8, HeldFacts DEF Unserved, Started, IsCommand
      <4> QED BY <1>3, <1>4, <2>2, <4>1 DEF FitsPrimary
    <3>2. /\ \A x \in ToWorkers : UidOf(x) # uid
          /\ \A e \in executing : Uid[e[2]] # uid
          /\ uidsToCommandResults[uid] = Null
      BY <1>8 DEF Started
    <3>3. Belongs(uid, c)'
      BY <1>5, <1>7, <2>2, <3>1, <3>2 DEF Belongs
    <3> QED BY <2>2, <3>3
  <2> QED BY <2>1, <2>2
<1>11. ASSUME NEW d \in Calls PROVE Settlement(d)'
  <2>1. Settlement(d)
    BY DEF ClusterInv
  <2>2. outcome'[d] = IF d = c THEN Settled("pending") ELSE outcome[d]
    BY <1>1, <1>2 DEF ClusterTypes
  <2>3. CASE d = c
    <3>1. outcome'[d].kind = "pending"
      BY <2>2, <2>3 DEF Settled
    <3> QED BY <3>1 DEF Settlement
  <2>4. CASE d # c
    <3>1. \A x \in ToPrimary' : x.type = "command" => x \in ToPrimary \/ x.call # d
      BY <1>3, <1>4, <2>4
    <3> QED BY <2>1, <2>2, <2>4, <3>1, SettlementKept
  <2> QED BY <2>3, <2>4
<1> QED BY <1>6, <1>9, <1>10, <1>11 DEF ClusterInv

\* A call is refused, or posted.
LEMMA SendKeeps == ASSUME ClusterInv, NEW c \in Calls, SendWorkerCommand(c) PROVE ClusterInv'
<1>1. /\ UidFreeElsewhere(c) /\ (RejectDuplicate(c) \/ PostCommand(c))
      /\ UNCHANGED <<workers, toWorker, uidsToCommandResults, asked, executing>>
  BY DEF SendWorkerCommand, clusterVars, primaryVars
<1>2. CASE RejectDuplicate(c)
  <2>1. /\ outcome' = [outcome EXCEPT ![c] = Settled("OperationAborted")]
        /\ UNCHANGED <<uidsToCommandPromise, toPrimary>>
    BY <1>2 DEF RejectDuplicate
  <2>2. ClusterTypes
    BY DEF ClusterInv
  <2>3. /\ DOMAIN outcome' = Calls
        /\ \A d \in Calls : outcome'[d] = outcome[d] \/ outcome'[d].kind \notin {"results", "NotImplemented"}
    BY <2>1, <2>2 DEF ClusterTypes, Settled
  <2> QED BY <1>1, <2>1, <2>2, <2>3, CallersStep DEF ClusterTypes
<1> QED BY <1>1, <1>2, PostKeeps

\* A step of the processes that serve the command with some uids: it takes from the channels, and
\* adds only what fits the call that the uids belong to.
LEMMA ServedStep ==
  ASSUME ClusterInv, ClusterTypes', NEW uid \in Uids,
         UNCHANGED <<outcome, asked>>,
         \A u \in Uids : Single(toPrimary', u),
         \A w \in Workers, u \in Uids : uidsToCommandPromise'[w][u] \in {uidsToCommandPromise[w][u], Null},
         \A m \in ToPrimary' : m \in ToPrimary \/ (UidOf(m) = uid /\ m.type # "command"),
         \A m \in ToWorkers' : m \in ToWorkers \/ UidOf(m) = uid,
         \A e \in executing' : e \in executing \/ Uid[e[2]] = uid,
         \A u \in Uids : u # uid => uidsToCommandResults'[u] \in {uidsToCommandResults[u], Null},
         Started(uid)' => Started(uid),
         \A c \in Calls : Uid[c] = uid /\ Belongs(uid, c) =>
            /\ \A m \in ToPrimary' : m \in ToPrimary \/ FitsPrimary(m, c)
            /\ \A m \in ToWorkers' : m \in ToWorkers \/ FitsWorker(m, c)
            /\ \A e \in executing' : e \in executing \/ FitsHandler(e, c)
            /\ \/ uidsToCommandResults'[uid] \in {uidsToCommandResults[uid], Null}
               \/ FitsResults(uidsToCommandResults'[uid], c)
  PROVE  ClusterInv'
<1>1. Apart'
  <2> SUFFICES ASSUME NEW u \in Uids PROVE Single(toPrimary', u) /\ ~(Unserved(u)' /\ Started(u)')
    BY DEF Apart
  <2>1. Unserved(u)' => Unserved(u)
    BY DEF Unserved, IsCommand
  <2>2. Started(u)' => Started(u)
    <3>1. CASE u # uid
      <4> SUFFICES ASSUME Started(u)' PROVE Started(u)
        OBVIOUS
      <4>1. CASE uidsToCommandResults'[u] # Null
        BY <3>1, <4>1 DEF Started
      <4>2. CASE \E e \in executing' : Uid[e[2]] = u
        BY <3>1, <4>2 DEF Started
      <4>3. CASE \E m \in ToWorkers' : UidOf(m) = u
        BY <3>1, <4>3 DEF Started
      <4>4. CASE \E m \in ToPrimary' : m.type = "commandResult" /\ m.uids = u
        <5>1. PICK m \in ToPrimary' : m.type = "commandResult" /\ m.uids = u
          BY <4>4
        <5>2. UidOf(m) = u
          BY <5>1 DEF UidOf
        <5>3. m \in ToPrimary
          BY <3>1, <5>1, <5>2
        <5> QED BY <5>1, <5>3 DEF Started
      <4> QED BY <4>1, <4>2, <4>3, <4>4 DEF Started
    <3> QED BY <3>1
  <2> QED BY <2>1, <2>2, ApartKept DEF ClusterInv
<1>2. Owned'
  <2> SUFFICES ASSUME NEW u \in Uids PROVE \E c \in Calls : Uid[c] = u /\ Belongs(u, c)'
    BY DEF Owned
  <2>1. PICK c \in Calls : Uid[c] = u /\ Belongs(u, c)
    BY DEF ClusterInv, Owned
  <2>2. CASE u = uid
    BY <2>1, <2>2, BelongsKept
  <2>3. CASE u # uid
    BY <2>1, <2>3, BelongsKept
  <2> QED BY <2>1, <2>2, <2>3
<1>3. ASSUME NEW c \in Calls PROVE Settlement(c)'
  <2>1. Settlement(c)
    BY DEF ClusterInv
  <2> QED BY <2>1, SettlementKept
<1> QED BY <1>1, <1>2, <1>3 DEF ClusterInv

\* Places in the channel to the primary, when no command is added.
LEMMA SingleSame ==
  ASSUME ClusterInv, NEW w, NEW m \in Results,
         toPrimary' = Sent(toPrimary, w, m) \/ toPrimary' = toPrimary
  PROVE  \A u \in Uids : Single(toPrimary', u)
<1>1. toPrimary \in [Workers -> Seq(ToPrimaryMessages)] /\ \A u \in Uids : Single(toPrimary, u)
  BY DEF ClusterInv, ClusterTypes, Apart
<1>2. m \in ToPrimaryMessages /\ \A u : ~IsCommand(m, u)
  BY DEF Results, IsCommand, ToPrimaryMessages
<1> QED BY <1>1, <1>2, SingleSent

\* A worker starts its handler, or answers that it has none.
LEMMA ReceiveCommandKeeps == ASSUME ClusterInv, NEW w \in Workers, ReceiveCommand(w) PROVE ClusterInv'
<1> DEFINE m == Head(toWorker[w])
           c == m.call
           r == CommandResult(Uid[c], Computed(c))
<1>1. /\ toWorker[w] # <<>> /\ m.type = "command" /\ toWorker' = [toWorker EXCEPT ![w] = Tail(@)]
      /\ \/ executing' = executing \cup {<<w, c, MaxCallbacks>>} /\ UNCHANGED toPrimary
         \/ toPrimary' = Sent(toPrimary, w, r) /\ UNCHANGED executing
      /\ UNCHANGED <<workers, uidsToCommandResults, asked, uidsToCommandPromise, outcome>>
  BY DEF ReceiveCommand, clusterVars, primaryVars, callerVars
<1>2. ClusterTypes
  BY DEF ClusterInv
<1>3. /\ toWorker' \in [Workers -> Seq(ToWorkerMessages)]
      /\ m \in ToWorkers /\ ToWorkers' \subseteq ToWorkers
  BY <1>1, <1>2, WorkersTaken
<1>4. c \in Calls /\ UidOf(m) = Uid[c]
  BY <1>1, <1>2, <1>3, HeldFacts
<1> HIDE DEF m, c
<1>5. r \in Results /\ r.type = "commandResult" /\ r.uids = Uid[c] /\ r.payload = Computed(c) /\ UidOf(r) = Uid[c]
      /\ Uid[c] \in Uids
  BY <1>4, MessageFacts
<1> HIDE DEF r
<1>6. toPrimary' \in [Workers -> Seq(ToPrimaryMessages)] /\ ToPrimary' \subseteq ToPrimary \cup {r}
  <2>1. toPrimary' = toPrimary => toPrimary' \in [Workers -> Seq(ToPrimaryMessages)] /\ ToPrimary' = ToPrimary
    BY <1>2 DEF ClusterTypes, ToPrimary, Held
  <2> QED BY <1>1, <1>2, <1>5, <2>1, PrimarySent DEF ToPrimaryMessages
<1>7. executing' \subseteq executing \cup {<<w, c, MaxCallbacks>>}
  BY <1>1
<1>8. ClusterTypes'
  <2>1. <<w, c, MaxCallbacks>> \in (Workers \cup {Primary}) \X Calls \X (1 .. MaxCallbacks)
    BY <1>4, ClusterAssumption
  <2> QED BY <1>1, <1>2, <1>3, <1>6, <1>7, <2>1 DEF ClusterTypes
<1>9. Started(Uid[c])
  BY <1>3, <1>4 DEF Started
<1>10. ASSUME NEW d \in Calls, Belongs(Uid[c], d)
       PROVE  d = c /\ FitsPrimary(r, d) /\ FitsHandler(<<w, c, MaxCallbacks>>, d)
  <2>1. FitsWorker(m, d)
    BY <1>3, <1>4, <1>10 DEF Belongs
  <2>2. d = c
    BY <1>1, <2>1 DEF FitsWorker, c
  <2>3. w # Primary
    BY ClusterAssumption
  <2> QED BY <1>5, <2>2, <2>3 DEF FitsPrimary, FitsHandler
<1>11. \A u \in Uids : Single(toPrimary', u)
  BY <1>1, <1>5, SingleSame
<1>12. \A v \in Workers, u \in Uids : uidsToCommandPromise'[v][u] \in {uidsToCommandPromise[v][u], Null}
  BY <1>1
<1>13. \A e \in executing' : e \in executing \/ e[2] = c
  BY <1>7
<1>14. \A d \in Calls : Uid[d] = Uid[c] /\ Belongs(Uid[c], d) =>
            /\ \A x \in ToPrimary' : x \in ToPrimary \/ FitsPrimary(x, d)
            /\ \A e \in executing' : e \in executing \/ FitsHandler(e, d)
  <2> SUFFICES ASSUME NEW d \in Calls, Belongs(Uid[c], d)
               PROVE  /\ \A x \in ToPrimary' : x \in ToPrimary \/ FitsPrimary(x, d)
                      /\ \A e \in executing' : e \in executing \/ FitsHandler(e, d)
    OBVIOUS
  <2>1. FitsPrimary(r, d) /\ FitsHandler(<<w, c, MaxCallbacks>>, d)
    BY <1>10
  <2> QED BY <1>6, <1>7, <2>1
<1>15. \A x \in ToPrimary' : x \in ToPrimary \/ (UidOf(x) = Uid[c] /\ x.type # "command")
  <2>1. UidOf(r) = Uid[c] /\ r.type # "command"
    BY <1>5
  <2> QED BY <1>6, <2>1
<1>16. UNCHANGED <<outcome, asked>> /\ UNCHANGED uidsToCommandResults
  BY <1>1
<1>17. \A e \in executing' : e \in executing \/ Uid[e[2]] = Uid[c]
  BY <1>13
<1> QED BY <1>3, <1>5, <1>8, <1>9, <1>11, <1>12, <1>14, <1>15, <1>16, <1>17, ServedStep

\* A handler calls its callback, the first time or again.
LEMMA HandlerKeeps ==
  ASSUME ClusterInv, NEW p \in Workers \cup {Primary}, NEW c \in Calls, NEW left \in 1 .. MaxCallbacks,
         HandlerCallback(p, c, left)
  PROVE  ClusterInv'
<1> DEFINE uid == Uid[c]
           r == CommandResult(uid, Computed(c))
           a == [q \in {Primary} |-> Computed(c)]
           rs == CommandResults(uid, a)
           next == <<p, c, left - 1>>
<1>1. /\ <<p, c, left>> \in executing
      /\ executing' = (executing \ {<<p, c, left>>}) \cup (IF left > 1 THEN {next} ELSE {})
      /\ \/ p = Primary /\ toWorker' = Sent(toWorker, Caller[c], rs) /\ UNCHANGED toPrimary
         \/ p # Primary /\ toPrimary' = Sent(toPrimary, p, r) /\ UNCHANGED toWorker
      /\ UNCHANGED <<workers, uidsToCommandResults, asked, uidsToCommandPromise, outcome>>
  BY DEF HandlerCallback, clusterVars, primaryVars, callerVars
<1>2. ClusterTypes
  BY DEF ClusterInv
<1>3. /\ r \in Results /\ UidOf(r) = uid /\ r.type = "commandResult" /\ r.payload = Computed(c)
      /\ uid \in Uids /\ Computed(c) \in Answers
  BY MessageFacts
<1>4. a \in Arrays(Answers) /\ DOMAIN a = {Primary} /\ a[Primary] = Computed(c)
  <2>1. a \in [{Primary} -> Answers]
    BY <1>3
  <2>2. {Primary} \in SUBSET (Workers \cup {Primary})
    OBVIOUS
  <2> HIDE DEF a
  <2>3. a \in Arrays(Answers)
    BY <2>1, <2>2 DEF Arrays
  <2> QED BY <2>3 DEF a
<1> HIDE DEF r, a
<1>5. rs \in ManyResults /\ UidOf(rs) = uid /\ rs.type = "commandResults" /\ rs.payload = a
  BY <1>3, <1>4, MessageFacts
<1> HIDE DEF rs
<1>6. toPrimary' \in [Workers -> Seq(ToPrimaryMessages)] /\ ToPrimary' \subseteq ToPrimary \cup {r}
  <2>1. toPrimary' = toPrimary => toPrimary' \in [Workers -> Seq(ToPrimaryMessages)] /\ ToPrimary' = ToPrimary
    BY <1>2 DEF ClusterTypes, ToPrimary, Held
  <2> QED BY <1>1, <1>2, <1>3, <2>1, PrimarySent DEF ToPrimaryMessages
<1>7. /\ toWorker' \in [Workers -> Seq(ToWorkerMessages)]
      /\ ToWorkers' \subseteq ToWorkers \cup (IF p = Primary THEN {rs} ELSE {})
  <2>1. toWorker' = toWorker => toWorker' \in [Workers -> Seq(ToWorkerMessages)] /\ ToWorkers' = ToWorkers
    BY <1>2 DEF ClusterTypes, ToWorkers, Held
  <2> QED BY <1>1, <1>2, <1>5, <2>1, WorkersSent DEF ToWorkerMessages
<1>8. executing' \subseteq executing \cup {next} /\ next[1] = p /\ next[2] = c
  BY <1>1
<1>9. ClusterTypes'
  <2>1. left > 1 => next \in (Workers \cup {Primary}) \X Calls \X (1 .. MaxCallbacks)
    BY ClusterAssumption
  <2>2. executing \subseteq (Workers \cup {Primary}) \X Calls \X (1 .. MaxCallbacks)
    BY <1>2 DEF ClusterTypes
  <2> HIDE DEF next
  <2>3. executing' \subseteq (Workers \cup {Primary}) \X Calls \X (1 .. MaxCallbacks)
    BY <1>1, <2>1, <2>2
  <2> QED BY <1>1, <1>2, <1>6, <1>7, <2>3 DEF ClusterTypes
<1>10. Started(uid)
  <2>1. <<p, c, left>>[2] = c
    OBVIOUS
  <2> QED BY <1>1, <2>1 DEF Started
<1>11. ASSUME NEW d \in Calls, Belongs(uid, d)
       PROVE  d = c /\ FitsPrimary(r, d) /\ FitsHandler(next, d) /\ (p = Primary => FitsWorker(rs, d))
  <2>1. FitsHandler(<<p, c, left>>, d)
    BY <1>1, <1>11 DEF Belongs
  <2>2. d = c /\ (p = Primary => Target[c] = Primary /\ asked[c] = {Primary})
    BY <2>1 DEF FitsHandler
  <2>3. p = Primary => Complete(c, a)
    BY <1>4, <2>2 DEF Complete
  <2>4. FitsHandler(next, d)
    BY <1>8, <2>2 DEF FitsHandler
  <2> QED BY <1>3, <1>5, <2>2, <2>3, <2>4 DEF FitsPrimary, FitsWorker
<1> HIDE DEF next
<1>12. \A u \in Uids : Single(toPrimary', u)
  BY <1>1, <1>3, SingleSame
<1>13. \A v \in Workers, u \in Uids : uidsToCommandPromise'[v][u] \in {uidsToCommandPromise[v][u], Null}
  BY <1>1
<1>14. \A d \in Calls : Uid[d] = uid /\ Belongs(uid, d) =>
            /\ \A x \in ToPrimary' : x \in ToPrimary \/ FitsPrimary(x, d)
            /\ \A x \in ToWorkers' : x \in ToWorkers \/ FitsWorker(x, d)
            /\ \A e \in executing' : e \in executing \/ FitsHandler(e, d)
  <2> SUFFICES ASSUME NEW d \in Calls, Belongs(uid, d)
               PROVE  /\ \A x \in ToPrimary' : x \in ToPrimary \/ FitsPrimary(x, d)
                      /\ \A x \in ToWorkers' : x \in ToWorkers \/ FitsWorker(x, d)
                      /\ \A e \in executing' : e \in executing \/ FitsHandler(e, d)
    OBVIOUS
  <2>1. FitsPrimary(r, d) /\ FitsHandler(next, d) /\ (p = Primary => FitsWorker(rs, d))
    BY <1>11
  <2> QED BY <1>6, <1>7, <1>8, <2>1
<1>15. \A x \in ToPrimary' : x \in ToPrimary \/ (UidOf(x) = uid /\ x.type # "command")
  <2>1. UidOf(r) = uid /\ r.type # "command"
    BY <1>3
  <2> QED BY <1>6, <2>1
<1>16. \A x \in ToWorkers' : x \in ToWorkers \/ UidOf(x) = uid
  BY <1>5, <1>7
<1>17. UNCHANGED <<outcome, asked>> /\ UNCHANGED uidsToCommandResults
  BY <1>1
<1>18. \A e \in executing' : e \in executing \/ Uid[e[2]] = uid
  BY <1>8
<1> QED BY <1>3, <1>9, <1>10, <1>12, <1>13, <1>14, <1>15, <1>16, <1>17, <1>18, ServedStep

-----------------------------------------------------------------------------
(* The primary. *)

\* The primary takes a command, of which nothing else is left: what it starts fits the call.
LEMMA DispatchStep ==
  ASSUME ClusterInv, ClusterTypes', NEW w \in Workers, toPrimary[w] # <<>>,
         toPrimary' = [toPrimary EXCEPT ![w] = Tail(@)],
         NEW c, c = Head(toPrimary[w]).call, Head(toPrimary[w]).type = "command",
         UNCHANGED <<outcome, uidsToCommandPromise>>,
         \A d \in Calls : d # c => asked'[d] = asked[d],
         \A x \in ToWorkers' : x \in ToWorkers \/ (UidOf(x) = Uid[c] /\ FitsWorker(x, c)'),
         \A e \in executing' : e \in executing \/ (Uid[e[2]] = Uid[c] /\ FitsHandler(e, c)'),
         \A u \in Uids : u # Uid[c] => uidsToCommandResults'[u] = uidsToCommandResults[u],
         \/ uidsToCommandResults'[Uid[c]] = uidsToCommandResults[Uid[c]]
         \/ FitsResults(uidsToCommandResults[Uid[c]], c)'
  PROVE  ClusterInv'
<1> DEFINE m == Head(toPrimary[w])
           uid == Uid[c]
<1>1. ClusterTypes
  BY DEF ClusterInv
<1>2. m \in ToPrimary /\ ToPrimary' \subseteq ToPrimary
  BY <1>1, PrimaryTaken
<1>3. c \in Calls /\ uid \in Uids /\ UidOf(m) = uid
  BY <1>1, <1>2, HeldFacts, MessageFacts
<1>4. IsCommand(m, uid) /\ Unserved(uid) /\ ~Started(uid)
  <2>1. IsCommand(m, uid)
    BY DEF IsCommand
  <2> HIDE DEF m
  <2>2. Unserved(uid)
    BY <1>2, <2>1 DEF Unserved
  <2> QED BY <1>3, <2>1, <2>2 DEF ClusterInv, Apart
<1>5. /\ \A u \in Uids : Single(toPrimary', u)
      /\ \A x \in ToPrimary' : ~IsCommand(x, uid)
  <2>1. toPrimary \in [Workers -> Seq(ToPrimaryMessages)]
    BY <1>1 DEF ClusterTypes
  <2>2. \A u \in Uids : Single(toPrimary, u)
    BY DEF ClusterInv, Apart
  <2> DEFINE next == [toPrimary EXCEPT ![w] = Tail(@)]
  <2>3. ASSUME NEW u \in Uids
        PROVE  Single(next, u) /\ (IsCommand(m, u) => \A x \in Held(next) : ~IsCommand(x, u))
    BY <2>1, <2>2, SingleTaken
  <2>4. ToPrimary' = Held(next)
    BY DEF ToPrimary, Held
  <2> HIDE DEF next, m
  <2>5. toPrimary' = next
    BY DEF next
  <2> QED BY <1>3, <1>4, <2>3, <2>4, <2>5
<1> HIDE DEF m
<1>6. Apart'
  <2> SUFFICES ASSUME NEW u \in Uids PROVE Single(toPrimary', u) /\ ~(Unserved(u)' /\ Started(u)')
    BY DEF Apart
  <2>1. Unserved(u)' => Unserved(u)
    BY <1>2 DEF Unserved
  <2>2. ~Unserved(uid)'
    BY <1>5 DEF Unserved
  <2>3. u # uid => (Started(u)' => Started(u))
    BY <1>2 DEF Started
  <2> QED BY <1>5, <2>1, <2>2, <2>3, ApartKept DEF ClusterInv
<1>7. Owned'
  <2> SUFFICES ASSUME NEW u \in Uids PROVE \E d \in Calls : Uid[d] = u /\ Belongs(u, d)'
    BY DEF Owned
  <2>1. PICK d \in Calls : Uid[d] = u /\ Belongs(u, d)
    BY DEF ClusterInv, Owned
  <2>2. CASE u # uid
    <3>1. asked'[d] = asked[d]
      BY <2>1, <2>2
    <3>2. uidsToCommandResults'[u] = uidsToCommandResults[u]
      BY <2>2
    <3>3. /\ \A x \in ToWorkers' : x \in ToWorkers \/ UidOf(x) # u
          /\ \A e \in executing' : e \in executing \/ Uid[e[2]] # u
          /\ \A x \in ToPrimary' : x \in ToPrimary
      BY <1>2, <2>2
    <3>4. \A v \in Workers : uidsToCommandPromise'[v][u] \in {uidsToCommandPromise[v][u], Null}
      OBVIOUS
    <3>5. Belongs(u, d)'
      BY <2>1, <3>1, <3>2, <3>3, <3>4, BelongsKept
    <3> QED BY <2>1, <3>5
  <2>3. CASE u = uid
    <3>1. d = c
      <4>1. FitsPrimary(m, d)
        BY <1>2, <1>3, <2>1, <2>3 DEF Belongs
      <4> QED BY <1>4, <4>1 DEF FitsPrimary, IsCommand, m
    <3>2. \A v \in Workers : uidsToCommandPromise'[v][uid] \in {Null, c}
      BY <2>1, <2>3, <3>1 DEF Belongs
    <3>3. \A x \in ToPrimary' : UidOf(x) # uid
      <4> SUFFICES ASSUME NEW x \in ToPrimary', UidOf(x) = uid PROVE FALSE
        OBVIOUS
      <4>1. x \in ToPrimary
        BY <1>2
      <4>2. CASE x.type = "command" /\ UidOf(x) = Uid[x.call]
        BY <1>5, <4>2 DEF IsCommand
      <4>3. CASE x.type = "commandResult" /\ UidOf(x) = x.uids
        BY <1>4, <4>1, <4>3 DEF Started
      <4> QED BY <1>1, <4>1, <4>2, <4>3, HeldFacts
    <3>4. \A x \in ToWorkers' : UidOf(x) = uid => FitsWorker(x, c)'
      BY <1>4 DEF Started
    <3>5. \A e \in executing' : Uid[e[2]] = uid => FitsHandler(e, c)'
      BY <1>4 DEF Started
    <3>6. uidsToCommandResults'[uid] # Null => FitsResults(uidsToCommandResults[uid], c)'
      BY <1>4 DEF Started
    <3>7. Belongs(uid, c)'
      BY <3>2, <3>3, <3>4, <3>5, <3>6 DEF Belongs
    <3> QED BY <1>3, <2>3, <3>7
  <2> QED BY <2>2, <2>3
<1>8. ASSUME NEW d \in Calls PROVE Settlement(d)'
  <2>1. Settlement(d)
    BY DEF ClusterInv
  <2>2. outcome'[d] = outcome[d] /\ \A x \in ToPrimary' : x \in ToPrimary
    BY <1>2
  <2>3. d = c => outcome[d].kind # "results"
    BY <1>2, <1>4, <2>1 DEF Settlement, IsCommand, m
  <2> QED BY <2>1, <2>2, <2>3, SettlementKept
<1> QED BY <1>6, <1>7, <1>8 DEF ClusterInv

\* What the array of results is made of.
LEMMA ArrayFacts ==
  /\ \A W \in SUBSET Workers : [p \in W |-> Null] \in UNION {[V -> Answers \cup {Null}] : V \in SUBSET Workers}
  /\ \A c \in Calls : LET a == [q \in {Primary} |-> Computed(c)] IN
        a \in Arrays(Answers) /\ DOMAIN a = {Primary} /\ a[Primary] = Computed(c)
<1>1. ASSUME NEW W \in SUBSET Workers
      PROVE  [p \in W |-> Null] \in UNION {[V -> Answers \cup {Null}] : V \in SUBSET Workers}
  <2> DEFINE f == [p \in W |-> Null]
  <2>1. f \in [W -> Answers \cup {Null}]
    OBVIOUS
  <2> HIDE DEF f
  <2>2. f \in UNION {[V -> Answers \cup {Null}] : V \in SUBSET Workers}
    BY <2>1
  <2> QED BY <2>2 DEF f
<1>2. ASSUME NEW c \in Calls
      PROVE  LET a == [q \in {Primary} |-> Computed(c)] IN
             a \in Arrays(Answers) /\ DOMAIN a = {Primary} /\ a[Primary] = Computed(c)
  <2> DEFINE a == [q \in {Primary} |-> Computed(c)]
  <2>1. a \in [{Primary} -> Answers] /\ DOMAIN a = {Primary} /\ a[Primary] = Computed(c)
    BY MessageFacts
  <2>2. {Primary} \in SUBSET (Workers \cup {Primary})
    OBVIOUS
  <2> HIDE DEF a
  <2>3. a \in Arrays(Answers)
    BY <2>1, <2>2 DEF Arrays
  <2> QED BY <2>1, <2>3 DEF a
<1> QED BY <1>1, <1>2

\* The primary forwards a command, executes it, or refuses it.
LEMMA PrimaryCommandKeeps == ASSUME ClusterInv, NEW w \in Workers, PrimaryReceivesCommand(w) PROVE ClusterInv'
<1> DEFINE m == Head(toPrimary[w])
<1> PICK c : c = m.call
  OBVIOUS
<1> DEFINE uid == Uid[c]
<1>1. /\ toPrimary[w] # <<>> /\ m.type = "command" /\ toPrimary' = [toPrimary EXCEPT ![w] = Tail(@)]
      /\ DispatchToAll(w, c) \/ ExecuteInPrimary(w, c) \/ RefuseTarget(w, c)
      /\ UNCHANGED <<workers, uidsToCommandPromise, outcome>>
  BY DEF PrimaryReceivesCommand, clusterVars, callerVars
<1>2. ClusterTypes
  BY DEF ClusterInv
<1>3. toPrimary' \in [Workers -> Seq(ToPrimaryMessages)] /\ m \in ToPrimary
  BY <1>1, <1>2, PrimaryTaken
<1>4. c \in Calls /\ uid \in Uids
  BY <1>1, <1>2, <1>3, HeldFacts, MessageFacts
<1>5. toWorker' = toWorker => toWorker' \in [Workers -> Seq(ToWorkerMessages)] /\ ToWorkers' = ToWorkers
  BY <1>2 DEF ClusterTypes, ToWorkers, Held
<1> HIDE DEF m
<1>6. CASE DispatchToAll(w, c)
  <2>1. CASE uidsToWorkerId[uid] # Null
    <3>1. UNCHANGED <<asked, uidsToCommandResults, toWorker, executing>>
      BY <1>6, <2>1 DEF DispatchToAll, primaryVars
    <3>2. ClusterTypes'
      BY <1>1, <1>2, <1>3, <3>1 DEF ClusterTypes
    <3>3. UNCHANGED <<outcome, uidsToCommandPromise>>
      BY <1>1
    <3>4. \A x \in ToWorkers' : x \in ToWorkers
      BY <1>5, <3>1
    <3> QED BY <1>1, <3>1, <3>2, <3>3, <3>4, DispatchStep DEF m
  <2>2. CASE uidsToWorkerId[uid] = Null
    <3> DEFINE x == Command(c)
               none == [p \in workers |-> Null]
    <3>1. /\ uidsToCommandResults' = [uidsToCommandResults EXCEPT ![uid] = none]
          /\ asked' = [asked EXCEPT ![c] = workers]
          /\ toWorker' = SentToAll(toWorker, x) /\ UNCHANGED executing /\ Target[c] = "*"
      BY <1>6, <2>2 DEF DispatchToAll
    <3>2. x \in ToWorkerMessages /\ x.type = "command" /\ x.call = c /\ UidOf(x) = uid
      BY <1>4, MessageFacts DEF ToWorkerMessages
    <3>3. none \in UNION {[V -> Answers \cup {Null}] : V \in SUBSET Workers}
      BY <1>2, ArrayFacts DEF ClusterTypes
    <3>4. DOMAIN none = workers /\ \A p \in workers : none[p] = Null
      OBVIOUS
    <3> HIDE DEF x, none
    <3>5. toWorker' \in [Workers -> Seq(ToWorkerMessages)] /\ ToWorkers' \subseteq ToWorkers \cup {x}
      BY <1>2, <3>1, <3>2, WorkersSent
    <3>6. DOMAIN asked' = Calls /\ asked'[c] = workers /\ \A d \in Calls : d # c => asked'[d] = asked[d]
      BY <1>2, <1>4, <3>1 DEF ClusterTypes
    <3>7. /\ uidsToCommandResults' \in [Uids -> {Null} \cup UNION {[V -> Answers \cup {Null}] : V \in SUBSET Workers}]
          /\ uidsToCommandResults'[uid] = none
          /\ \A u \in Uids : u # uid => uidsToCommandResults'[u] = uidsToCommandResults[u]
      <4> DEFINE Tables == {Null} \cup UNION {[V -> Answers \cup {Null}] : V \in SUBSET Workers}
      <4>1. uidsToCommandResults \in [Uids -> Tables] /\ none \in Tables
        BY <1>2, <3>3 DEF ClusterTypes
      <4> HIDE DEF Tables
      <4>2. /\ uidsToCommandResults' \in [Uids -> Tables]
            /\ uidsToCommandResults'[uid] = none
            /\ \A u \in Uids : u # uid => uidsToCommandResults'[u] = uidsToCommandResults[u]
        BY <1>4, <3>1, <4>1
      <4> QED BY <4>2 DEF Tables
    <3>8. ClusterTypes'
      BY <1>1, <1>2, <1>3, <3>1, <3>5, <3>6, <3>7 DEF ClusterTypes
    <3>9. FitsResults(uidsToCommandResults[uid], c)'
      BY <3>1, <3>4, <3>6, <3>7 DEF FitsResults
    <3>10. \A y \in ToWorkers' : y \in ToWorkers \/ (UidOf(y) = uid /\ FitsWorker(y, c)')
      <4>1. FitsWorker(x, c)'
        BY <3>2 DEF FitsWorker
      <4> QED BY <3>2, <3>5, <4>1
    <3>11. UNCHANGED <<outcome, uidsToCommandPromise>> /\ executing' = executing
      BY <1>1, <3>1
    <3> QED BY <1>1, <3>6, <3>7, <3>8, <3>9, <3>10, <3>11, DispatchStep DEF m
  <2> QED BY <2>1, <2>2
<1>7. CASE ExecuteInPrimary(w, c)
  <2> DEFINE a == [q \in {Primary} |-> Computed(c)]
             x == CommandResults(uid, a)
             e == <<Primary, c, MaxCallbacks>>
  <2>1. /\ asked' = [asked EXCEPT ![c] = {Primary}] /\ Target[c] = Primary /\ UNCHANGED uidsToCommandResults
        /\ \/ executing' = executing \cup {e} /\ UNCHANGED toWorker
           \/ toWorker' = Sent(toWorker, w, x) /\ UNCHANGED executing
    BY <1>7 DEF ExecuteInPrimary
  <2>2. a \in Arrays(Answers) /\ DOMAIN a = {Primary} /\ a[Primary] = Computed(c)
    BY <1>4, ArrayFacts
  <2> HIDE DEF a
  <2>3. x \in ToWorkerMessages /\ x.type = "commandResults" /\ x.payload = a /\ UidOf(x) = uid
    BY <1>4, <2>2, MessageFacts DEF ToWorkerMessages
  <2>4. e \in (Workers \cup {Primary}) \X Calls \X (1 .. MaxCallbacks) /\ e[1] = Primary /\ e[2] = c
    BY <1>4, ClusterAssumption
  <2> HIDE DEF x, e
  <2>5. toWorker' \in [Workers -> Seq(ToWorkerMessages)] /\ ToWorkers' \subseteq ToWorkers \cup {x}
    BY <1>2, <1>5, <2>1, <2>3, WorkersSent
  <2>6. DOMAIN asked' = Calls /\ asked'[c] = {Primary} /\ \A d \in Calls : d # c => asked'[d] = asked[d]
    BY <1>2, <1>4, <2>1 DEF ClusterTypes
  <2>7. executing' \subseteq executing \cup {e}
    BY <2>1
  <2>8. ClusterTypes'
    BY <1>1, <1>2, <1>3, <2>1, <2>4, <2>5, <2>6, <2>7 DEF ClusterTypes
  <2>9. \A y \in ToWorkers' : y \in ToWorkers \/ (UidOf(y) = uid /\ FitsWorker(y, c)')
    <3>1. FitsWorker(x, c)'
      BY <2>1, <2>2, <2>3, <2>6 DEF FitsWorker, Complete
    <3> QED BY <2>3, <2>5, <3>1
  <2>10. \A y \in executing' : y \in executing \/ (Uid[y[2]] = uid /\ FitsHandler(y, c)')
    <3>1. FitsHandler(e, c)'
      BY <2>1, <2>4, <2>6 DEF FitsHandler
    <3> QED BY <2>4, <2>7, <3>1
  <2>11. UNCHANGED <<outcome, uidsToCommandPromise>> /\ uidsToCommandResults' = uidsToCommandResults
    BY <1>1, <2>1
  <2> QED BY <1>1, <2>6, <2>8, <2>9, <2>10, <2>11, DispatchStep DEF m
<1>8. CASE RefuseTarget(w, c)
  <2> DEFINE x == CommandError(uid, "NotImplemented")
  <2>1. /\ toWorker' = Sent(toWorker, w, x) /\ Target[c] \notin {"*", Primary}
        /\ UNCHANGED <<asked, uidsToCommandResults, executing>>
    BY <1>8 DEF RefuseTarget, primaryVars
  <2>2. x \in ToWorkerMessages /\ x.type = "commandError" /\ UidOf(x) = uid
    BY <1>4, MessageFacts DEF ToWorkerMessages
  <2> HIDE DEF x
  <2>3. toWorker' \in [Workers -> Seq(ToWorkerMessages)] /\ ToWorkers' \subseteq ToWorkers \cup {x}
    BY <1>2, <2>1, <2>2, WorkersSent
  <2>4. ClusterTypes'
    BY <1>1, <1>2, <1>3, <2>1, <2>3 DEF ClusterTypes
  <2>5. \A y \in ToWorkers' : y \in ToWorkers \/ (UidOf(y) = uid /\ FitsWorker(y, c)')
    <3>1. FitsWorker(x, c)'
      BY <2>1, <2>2 DEF FitsWorker
    <3> QED BY <2>2, <2>3, <3>1
  <2>6. UNCHANGED <<outcome, uidsToCommandPromise>> /\ UNCHANGED <<asked, uidsToCommandResults, executing>>
    BY <1>1, <2>1
  <2> QED BY <1>1, <2>4, <2>5, <2>6, DispatchStep DEF m
<1> QED BY <1>1, <1>6, <1>7, <1>8

\* The primary gathers a result: it stores the first one of a worker, and answers with the array
\* when it has one of each.
LEMMA PrimaryResultKeeps == ASSUME ClusterInv, NEW w \in Workers, PrimaryReceivesResult(w) PROVE ClusterInv'
<1> DEFINE m == Head(toPrimary[w])
<1> PICK uid, value : uid = m.uids /\ value = m.payload
  OBVIOUS
<1>1. /\ toPrimary[w] # <<>> /\ m.type = "commandResult" /\ toPrimary' = [toPrimary EXCEPT ![w] = Tail(@)]
      /\ IF ResultCounts(w, uid) THEN StoreResult(w, uid, value)
         ELSE UNCHANGED <<uidsToCommandResults, toWorker>>
      /\ UNCHANGED <<workers, asked, uidsToCommandPromise, outcome, executing>>
  BY DEF PrimaryReceivesResult, clusterVars, callerVars
<1>2. ClusterTypes
  BY DEF ClusterInv
<1>3. toPrimary' \in [Workers -> Seq(ToPrimaryMessages)] /\ m \in ToPrimary /\ ToPrimary' \subseteq ToPrimary
  BY <1>1, <1>2, PrimaryTaken
<1>4. uid \in Uids /\ UidOf(m) = uid /\ value \in Answers
  BY <1>1, <1>2, <1>3, HeldFacts DEF Results
<1>5. Started(uid)
  BY <1>1, <1>3 DEF Started
<1>6. \A u \in Uids : Single(toPrimary', u)
  <2>1. toPrimary \in [Workers -> Seq(ToPrimaryMessages)] /\ \A u \in Uids : Single(toPrimary, u)
    BY <1>2 DEF ClusterTypes, ClusterInv, Apart
  <2> QED BY <1>1, <2>1, SingleTaken
<1>7. PICK c \in Calls : Uid[c] = uid /\ Belongs(uid, c)
  BY <1>4 DEF ClusterInv, Owned
<1>8. value = Computed(c)
  BY <1>1, <1>3, <1>4, <1>7 DEF Belongs, FitsPrimary
<1>9. ASSUME NEW d \in Calls, Belongs(uid, d) PROVE value = Computed(d)
  BY <1>1, <1>3, <1>4, <1>9 DEF Belongs, FitsPrimary
<1>10. toWorker' = toWorker => toWorker' \in [Workers -> Seq(ToWorkerMessages)] /\ ToWorkers' = ToWorkers
  BY <1>2 DEF ClusterTypes, ToWorkers, Held
<1> HIDE DEF m
<1>11. /\ \A v \in Workers, u \in Uids : uidsToCommandPromise'[v][u] \in {uidsToCommandPromise[v][u], Null}
       /\ \A x \in ToPrimary' : x \in ToPrimary
       /\ \A e \in executing' : e \in executing
       /\ UNCHANGED <<outcome, asked>>
  BY <1>1, <1>3
<1>12. CASE ~ResultCounts(w, uid)
  <2>1. UNCHANGED <<uidsToCommandResults, toWorker>>
    BY <1>1, <1>12
  <2>2. ClusterTypes'
    BY <1>1, <1>2, <1>3, <2>1 DEF ClusterTypes
  <2>3. \A x \in ToWorkers' : x \in ToWorkers
    BY <1>10, <2>1
  <2> QED BY <1>4, <1>5, <1>6, <1>11, <2>1, <2>2, <2>3, ServedStep
<1>13. CASE ResultCounts(w, uid)
  <2> DEFINE old == uidsToCommandResults[uid]
             results == [old EXCEPT ![w] = value]
             Tables == UNION {[V -> Answers \cup {Null}] : V \in SUBSET Workers}
  <2>1. old # Null /\ w \in DOMAIN old /\ StoreResult(w, uid, value)
    BY <1>1, <1>13 DEF ResultCounts
  <2>2. PICK V \in SUBSET Workers : old \in [V -> Answers \cup {Null}]
    <3>1. uidsToCommandResults \in [Uids -> {Null} \cup Tables]
      BY <1>2 DEF ClusterTypes
    <3>2. old \in Tables
      <4> HIDE DEF Tables
      <4> QED BY <1>4, <2>1, <3>1
    <3> HIDE DEF old
    <3> QED BY <3>2
  <2>3. /\ results \in [V -> Answers \cup {Null}] /\ w \in V
        /\ \A p \in V : results[p] = IF p = w THEN value ELSE old[p]
    BY <1>4, <2>1, <2>2
  <2>4. ASSUME NEW d \in Calls, Belongs(uid, d) PROVE FitsResults(results, d)
    <3>1. FitsResults(old, d) /\ value = Computed(d)
      BY <1>9, <2>1, <2>4 DEF Belongs
    <3>2. DOMAIN old = V /\ DOMAIN results = V
      BY <2>2, <2>3
    <3> HIDE DEF results, old
    <3> QED BY <2>3, <3>1, <3>2 DEF FitsResults
  <2> HIDE DEF results, old
  <2>5. CASE AllResponded(results)
    <3> DEFINE x == CommandResults(uid, results)
    <3>1. /\ uidsToCommandResults' = [uidsToCommandResults EXCEPT ![uid] = Null]
          /\ \/ toWorker' = Sent(toWorker, uidsToWorkerId[uid], x)
             \/ toWorker' = toWorker
      BY <2>1, <2>5 DEF StoreResult, CompleteCommand, results, old
    <3>2. results \in Arrays(Answers)
      <4>1. \A p \in V : results[p] # Null
        BY <2>3, <2>5 DEF AllResponded
      <4>2. results \in [V -> Answers]
        BY <2>3, <4>1
      <4>3. V \in SUBSET (Workers \cup {Primary})
        BY <2>2
      <4> QED BY <4>2, <4>3 DEF Arrays
    <3>3. x \in ToWorkerMessages /\ x.type = "commandResults" /\ x.payload = results /\ UidOf(x) = uid
      BY <1>4, <3>2, MessageFacts DEF ToWorkerMessages
    <3> HIDE DEF x
    <3>4. toWorker' \in [Workers -> Seq(ToWorkerMessages)] /\ ToWorkers' \subseteq ToWorkers \cup {x}
      BY <1>2, <1>10, <3>1, <3>3, WorkersSent
    <3>5. /\ uidsToCommandResults' \in [Uids -> {Null} \cup Tables]
          /\ \A u \in Uids : uidsToCommandResults'[u] \in {uidsToCommandResults[u], Null}
      <4>1. uidsToCommandResults \in [Uids -> {Null} \cup Tables]
        BY <1>2 DEF ClusterTypes
      <4> HIDE DEF Tables
      <4> QED BY <1>4, <3>1, <4>1
    <3>6. ClusterTypes'
      BY <1>1, <1>2, <1>3, <3>4, <3>5 DEF ClusterTypes
    <3>7. \A y \in ToWorkers' : y \in ToWorkers \/ UidOf(y) = uid
      BY <3>3, <3>4
    <3>8. ASSUME NEW d \in Calls, Belongs(uid, d)
          PROVE  \A y \in ToWorkers' : y \in ToWorkers \/ FitsWorker(y, d)
      <4>1. FitsResults(results, d)
        BY <2>4, <3>8
      <4>2. \A p \in asked[d] : results[p] = Computed(d)
        BY <2>5, <4>1 DEF FitsResults, AllResponded
      <4>3. FitsWorker(x, d)
        BY <3>3, <4>1, <4>2 DEF FitsWorker, Complete, FitsResults
      <4> QED BY <3>4, <4>3
    <3> QED BY <1>4, <1>5, <1>6, <1>11, <3>5, <3>6, <3>7, <3>8, ServedStep
  <2>6. CASE ~AllResponded(results)
    <3>1. uidsToCommandResults' = [uidsToCommandResults EXCEPT ![uid] = results] /\ UNCHANGED toWorker
      BY <2>1, <2>6 DEF StoreResult, results, old
    <3>2. results \in Tables
      BY <2>3
    <3>3. /\ uidsToCommandResults' \in [Uids -> {Null} \cup Tables]
          /\ \A u \in Uids : u # uid => uidsToCommandResults'[u] = uidsToCommandResults[u]
          /\ uidsToCommandResults'[uid] = results
      <4>1. uidsToCommandResults \in [Uids -> {Null} \cup Tables]
        BY <1>2 DEF ClusterTypes
      <4> HIDE DEF Tables
      <4> QED BY <1>4, <3>1, <3>2, <4>1
    <3>4. ClusterTypes'
      BY <1>1, <1>2, <1>3, <1>10, <3>1, <3>3 DEF ClusterTypes
    <3>5. \A y \in ToWorkers' : y \in ToWorkers
      BY <1>10, <3>1
    <3>6. ASSUME NEW d \in Calls, Belongs(uid, d) PROVE FitsResults(uidsToCommandResults'[uid], d)
      BY <2>4, <3>3, <3>6
    <3> QED BY <1>4, <1>5, <1>6, <1>11, <3>3, <3>4, <3>5, <3>6, ServedStep
  <2> QED BY <2>5, <2>6
<1> QED BY <1>12, <1>13

-----------------------------------------------------------------------------
(* Answers, exits and forks. *)

\* A step that takes messages, handlers or promises away leaves what belongs together.
LEMMA LossStep ==
  ASSUME ClusterInv, UNCHANGED <<uidsToCommandResults, asked>>,
         \A u \in Uids : Single(toPrimary', u),
         \A w \in Workers, u \in Uids : uidsToCommandPromise'[w][u] \in {uidsToCommandPromise[w][u], Null},
         ToPrimary' \subseteq ToPrimary, ToWorkers' \subseteq ToWorkers, executing' \subseteq executing
  PROVE  Apart' /\ Owned'
<1>1. Apart'
  <2> SUFFICES ASSUME NEW u \in Uids PROVE Single(toPrimary', u) /\ ~(Unserved(u)' /\ Started(u)')
    BY DEF Apart
  <2>1. (Unserved(u)' => Unserved(u)) /\ (Started(u)' => Started(u))
    BY DEF Unserved, Started
  <2> QED BY <2>1, ApartKept DEF ClusterInv
<1>2. Owned'
  <2> SUFFICES ASSUME NEW u \in Uids PROVE \E c \in Calls : Uid[c] = u /\ Belongs(u, c)'
    BY DEF Owned
  <2>1. PICK c \in Calls : Uid[c] = u /\ Belongs(u, c)
    BY DEF ClusterInv, Owned
  <2>2. Belongs(u, c)'
    BY <2>1, BelongsKept
  <2> QED BY <2>1, <2>2
<1> QED BY <1>1, <1>2

\* An answer settles the call that waits for it, if there is one.
LEMMA ReceiveAnswerKeeps == ASSUME ClusterInv, NEW w \in Workers, ReceiveAnswer(w) PROVE ClusterInv'
<1> DEFINE m == Head(toWorker[w])
<1>1. /\ toWorker[w] # <<>> /\ toWorker' = [toWorker EXCEPT ![w] = Tail(@)]
      /\ \/ m.type = "commandResults" /\ SettlePromise(w, m.uids, Resolved(m.payload))
         \/ m.type = "commandError" /\ SettlePromise(w, m.uids, Settled(m.payload))
      /\ UNCHANGED <<workers, toPrimary, uidsToCommandResults, asked, executing>>
  BY DEF ReceiveAnswer, clusterVars, primaryVars
<1>2. ClusterTypes
  BY DEF ClusterInv
<1>3. toWorker' \in [Workers -> Seq(ToWorkerMessages)] /\ m \in ToWorkers /\ ToWorkers' \subseteq ToWorkers
  BY <1>1, <1>2, WorkersTaken
<1> HIDE DEF m
<1> PICK uid : uid = m.uids
  OBVIOUS
<1> PICK c : c = uidsToCommandPromise[w][uid]
  OBVIOUS
<1>4. uid \in Uids /\ UidOf(m) = uid /\ (m.type = "commandError" => m.payload = "NotImplemented")
  BY <1>1, <1>2, <1>3, HeldFacts
<1> DEFINE settled == IF m.type = "commandResults" THEN Resolved(m.payload) ELSE Settled(m.payload)
<1>5. c \in Calls \cup {Null} /\ SettlePromise(w, uid, settled)
  BY <1>1, <1>2, <1>4 DEF ClusterTypes
<1>6. /\ uidsToCommandPromise' \in [Workers -> [Uids -> Calls \cup {Null}]]
      /\ \A v \in Workers, u \in Uids : uidsToCommandPromise'[v][u] \in {uidsToCommandPromise[v][u], Null}
      /\ DOMAIN outcome' = Calls
      /\ \A d \in Calls : outcome'[d] = outcome[d] \/ (d = c /\ outcome'[d] = settled)
  <2>1. uidsToCommandPromise \in [Workers -> [Uids -> Calls \cup {Null}]] /\ DOMAIN outcome = Calls
    BY <1>2 DEF ClusterTypes
  <2>2. CASE UNCHANGED <<uidsToCommandPromise, outcome>>
    BY <2>1, <2>2
  <2>3. CASE /\ uidsToCommandPromise' = [uidsToCommandPromise EXCEPT ![w][uid] = Null]
             /\ outcome' = [outcome EXCEPT ![c] = settled]
    <3> HIDE DEF settled
    <3> QED BY <1>4, <2>1, <2>3
  <2> QED BY <1>5, <2>2, <2>3 DEF SettlePromise, callerVars
<1>7. ClusterTypes'
  BY <1>1, <1>2, <1>3, <1>6 DEF ClusterTypes
<1>8. ToPrimary' = ToPrimary /\ \A u \in Uids : Single(toPrimary', u)
  BY <1>1 DEF ToPrimary, Held, ClusterInv, Apart
<1>9. Apart' /\ Owned'
  <2>1. ToPrimary' \subseteq ToPrimary /\ executing' \subseteq executing
    BY <1>1, <1>8
  <2>2. UNCHANGED <<uidsToCommandResults, asked>>
    BY <1>1
  <2> QED BY <1>3, <1>6, <1>8, <2>1, <2>2, LossStep
<1>10. ASSUME NEW d \in Calls PROVE Settlement(d)'
  <2>1. Settlement(d) /\ asked'[d] = asked[d]
    BY <1>1 DEF ClusterInv
  <2>2. CASE outcome'[d] = outcome[d]
    BY <1>8, <2>1, <2>2, SettlementKept
  <2>3. CASE d = c /\ outcome'[d] = settled
    <3>1. Uid[d] = uid /\ Belongs(uid, d)
      <4>1. PICK e \in Calls : Uid[e] = uid /\ Belongs(uid, e)
        BY <1>4 DEF ClusterInv, Owned
      <4>2. c # Null
        BY <2>3, ClusterAssumption DEF Answers
      <4>3. d = e
        BY <2>3, <4>1, <4>2 DEF Belongs
      <4> QED BY <4>1, <4>3
    <3>2. FitsWorker(m, d)
      BY <1>3, <1>4, <3>1 DEF Belongs
    <3>3. CASE m.type = "commandResults"
      <4>1. outcome'[d].kind = "results" /\ outcome'[d].results = m.payload
        BY <2>3, <3>3 DEF Resolved
      <4>3. Complete(d, outcome[d].results)'
        BY <2>1, <3>2, <3>3, <4>1 DEF FitsWorker, Complete
      <4>4. \A x \in ToPrimary' : x.type = "command" => x.call # d
        <5>1. Started(uid)
          BY <1>3, <1>4 DEF Started
        <5>2. ~Unserved(uid)
          BY <1>4, <5>1 DEF ClusterInv, Apart
        <5> QED BY <1>8, <3>1, <5>2 DEF Unserved, IsCommand
      <4> QED BY <4>1, <4>3, <4>4 DEF Settlement
    <3>4. CASE m.type = "commandError"
      <4>1. outcome'[d].kind = "NotImplemented" /\ Target[d] \notin {"*", Primary}
        BY <1>4, <2>3, <3>2, <3>4 DEF Settled, FitsWorker
      <4> QED BY <4>1 DEF Settlement
    <3> QED BY <1>1, <3>3, <3>4
  <2> QED BY <1>6, <2>2, <2>3
<1> QED BY <1>7, <1>9, <1>10 DEF ClusterInv
\* A worker exits: its calls are lost, its handlers and what was sent to it are gone.
LEMMA ExitKeeps == ASSUME ClusterInv, NEW w \in Workers, Exit(w) PROVE ClusterInv'
<1>1. /\ toWorker' = [toWorker EXCEPT ![w] = <<>>]
      /\ executing' = {e \in executing : e[1] # w}
      /\ uidsToCommandPromise' = [uidsToCommandPromise EXCEPT ![w] = [u \in Uids |-> Null]]
      /\ outcome' = [c \in Calls |-> IF Caller[c] = w /\ outcome[c].kind = "pending"
                                     THEN Settled("lost") ELSE outcome[c]]
      /\ UNCHANGED <<workers, toPrimary, uidsToCommandResults, asked>>
  BY DEF Exit, primaryVars
<1>2. ClusterTypes
  BY DEF ClusterInv
<1>3. toWorker' \in [Workers -> Seq(ToWorkerMessages)] /\ ToWorkers' \subseteq ToWorkers
  <2> DEFINE next == [toWorker EXCEPT ![w] = <<>>]
  <2>1. next \in [Workers -> Seq(ToWorkerMessages)] /\ Held(next) \subseteq Held(toWorker)
    BY <1>2, ClearedHolds DEF ClusterTypes
  <2> QED BY <1>1, <2>1 DEF ToWorkers, Held
<1>4. /\ uidsToCommandPromise' \in [Workers -> [Uids -> Calls \cup {Null}]]
      /\ \A v \in Workers, u \in Uids : uidsToCommandPromise'[v][u] \in {uidsToCommandPromise[v][u], Null}
  <2> DEFINE none == [u \in Uids |-> Null]
  <2>1. none \in [Uids -> Calls \cup {Null}] /\ \A u \in Uids : none[u] = Null
    OBVIOUS
  <2>2. uidsToCommandPromise \in [Workers -> [Uids -> Calls \cup {Null}]]
    BY <1>2 DEF ClusterTypes
  <2>3. uidsToCommandPromise' = [uidsToCommandPromise EXCEPT ![w] = none]
    BY <1>1
  <2> HIDE DEF none
  <2> QED BY <2>1, <2>2, <2>3
<1>5. executing' \subseteq executing
  BY <1>1
<1>6. ClusterTypes'
  BY <1>1, <1>2, <1>3, <1>4, <1>5 DEF ClusterTypes
<1>7. ToPrimary' = ToPrimary /\ \A u \in Uids : Single(toPrimary', u)
  BY <1>1 DEF ToPrimary, Held, ClusterInv, Apart
<1>8. Apart' /\ Owned'
  <2>1. UNCHANGED <<uidsToCommandResults, asked>> /\ ToPrimary' \subseteq ToPrimary
    BY <1>1, <1>7
  <2> QED BY <1>3, <1>4, <1>5, <1>7, <2>1, LossStep
<1>9. ASSUME NEW c \in Calls PROVE Settlement(c)'
  <2>1. Settlement(c) /\ asked'[c] = asked[c]
    BY <1>1 DEF ClusterInv
  <2>2. outcome'[c] = outcome[c] \/ outcome'[c].kind = "lost"
    BY <1>1 DEF Settled
  <2> QED BY <1>7, <2>1, <2>2, SettlementKept
<1> QED BY <1>6, <1>8, <1>9 DEF ClusterInv

\* The primary learns that a worker is gone: what it had sent is dropped, as far as it is not read.
LEMMA ForgetKeeps == ASSUME ClusterInv, NEW w \in Workers, ForgetWorker(w) PROVE ClusterInv'
<1>1. /\ workers' = workers \ {w} /\ toPrimary' = [toPrimary EXCEPT ![w] = <<>>]
      /\ UNCHANGED <<toWorker, executing, uidsToCommandPromise, outcome>>
      /\ UNCHANGED <<uidsToCommandResults, asked>>
  BY DEF ForgetWorker, primaryVars, callerVars
<1>2. ClusterTypes
  BY DEF ClusterInv
<1>3. /\ toPrimary' \in [Workers -> Seq(ToPrimaryMessages)] /\ ToPrimary' \subseteq ToPrimary
      /\ \A u \in Uids : Single(toPrimary', u)
  <2> DEFINE next == [toPrimary EXCEPT ![w] = <<>>]
  <2>1. toPrimary \in [Workers -> Seq(ToPrimaryMessages)] /\ \A u \in Uids : Single(toPrimary, u)
    BY <1>2 DEF ClusterTypes, ClusterInv, Apart
  <2>2. next \in [Workers -> Seq(ToPrimaryMessages)] /\ Held(next) \subseteq Held(toPrimary)
    BY <2>1, ClearedHolds
  <2>3. \A u \in Uids : Single(next, u)
    BY <2>1, SingleCleared
  <2> QED BY <1>1, <2>2, <2>3 DEF ToPrimary, Held
<1>4. ToWorkers' = ToWorkers
  BY <1>1 DEF ToWorkers, Held
<1>5. ClusterTypes'
  BY <1>1, <1>2, <1>3 DEF ClusterTypes
<1>6. Apart' /\ Owned'
  <2>1. /\ ToWorkers' \subseteq ToWorkers /\ executing' \subseteq executing
        /\ \A v \in Workers, u \in Uids : uidsToCommandPromise'[v][u] \in {uidsToCommandPromise[v][u], Null}
    BY <1>1, <1>4
  <2> QED BY <1>1, <1>3, <2>1, LossStep
<1>7. ASSUME NEW c \in Calls PROVE Settlement(c)'
  <2>1. Settlement(c) /\ asked'[c] = asked[c] /\ outcome'[c] = outcome[c]
    BY <1>1 DEF ClusterInv
  <2> QED BY <1>3, <2>1, SettlementKept
<1> QED BY <1>5, <1>6, <1>7 DEF ClusterInv

\* A worker is forked under an id of its own.
LEMMA ForkKeeps == ASSUME ClusterInv, NEW w \in Workers, Fork(w) PROVE ClusterInv'
<1>1. /\ workers' = workers \cup {w}
      /\ UNCHANGED <<toPrimary, toWorker, executing, uidsToCommandResults, asked>>
      /\ UNCHANGED <<uidsToCommandPromise, outcome>>
  BY DEF Fork, primaryVars, callerVars
<1>2. /\ workers' \subseteq Workers /\ DOMAIN outcome' = Calls
      /\ uidsToCommandPromise' \in [Workers -> [Uids -> Calls \cup {Null}]]
  BY <1>1 DEF ClusterInv, ClusterTypes
<1> QED BY <1>1, <1>2, CallersStep

-----------------------------------------------------------------------------
(* The specification. *)

\* Nothing has been sent.
LEMMA InitHolds == Init => ClusterInv
<1> SUFFICES ASSUME Init PROVE ClusterInv
  OBVIOUS
<1> DEFINE none == <<>>
<1>1. /\ workers = FirstWorkers /\ executing = {}
      /\ toPrimary = [w \in Workers |-> none] /\ toWorker = [w \in Workers |-> none]
      /\ uidsToCommandResults = [u \in Uids |-> Null]
      /\ uidsToCommandPromise = [w \in Workers |-> [u \in Uids |-> Null]]
      /\ outcome = [c \in Calls |-> Settled("unsent")]
      /\ asked = [c \in Calls |-> {}]
  BY DEF Init
<1>2. none \in Seq(ToPrimaryMessages) /\ none \in Seq(ToWorkerMessages) /\ Range(none) = {} /\ 1 .. Len(none) = {}
  BY DEF Range
<1> HIDE DEF none
<1>3. ClusterTypes
  <2>1. toPrimary \in [Workers -> Seq(ToPrimaryMessages)] /\ toWorker \in [Workers -> Seq(ToWorkerMessages)]
    BY <1>1, <1>2
  <2>2. uidsToCommandPromise \in [Workers -> [Uids -> Calls \cup {Null}]]
    BY <1>1
  <2> QED BY <1>1, <2>1, <2>2, ClusterAssumption DEF ClusterTypes
<1>4. ToPrimary = {} /\ ToWorkers = {}
  BY <1>1, <1>2 DEF ToPrimary, ToWorkers, Held
<1>5. Apart
  BY <1>1, <1>2, <1>4 DEF Apart, Single, Unserved
<1>6. Owned
  <2> SUFFICES ASSUME NEW u \in Uids PROVE \E c \in Calls : Uid[c] = u /\ Belongs(u, c)
    BY DEF Owned
  <2>1. PICK c \in Calls : Uid[c] = u
    BY DEF Uids
  <2>2. Belongs(u, c)
    BY <1>1, <1>4 DEF Belongs
  <2> QED BY <2>1, <2>2
<1>7. \A c \in Calls : Settlement(c)
  BY <1>1 DEF Settlement, Settled
<1> QED BY <1>3, <1>5, <1>6, <1>7 DEF ClusterInv

\* Whatever step is taken.
LEMMA StepKeeps == ClusterInv /\ [Next]_vars => ClusterInv'
<1> SUFFICES ASSUME ClusterInv, [Next]_vars PROVE ClusterInv'
  OBVIOUS
<1>1. CASE \E c \in Calls : SendWorkerCommand(c) \/ Timeout(c)
  BY <1>1, SendKeeps, TimeoutKeeps
<1>2. CASE \E w \in Workers :
             \/ ReceiveAnswer(w) \/ ReceiveCommand(w)
             \/ PrimaryReceivesCommand(w) \/ PrimaryReceivesResult(w)
             \/ Exit(w) \/ ForgetWorker(w) \/ Fork(w)
  BY <1>2, ReceiveAnswerKeeps, ReceiveCommandKeeps, PrimaryCommandKeeps, PrimaryResultKeeps,
     ExitKeeps, ForgetKeeps, ForkKeeps
<1>3. CASE \E p \in Workers \cup {Primary}, c \in Calls, left \in 1 .. MaxCallbacks : HandlerCallback(p, c, left)
  BY <1>3, HandlerKeeps
<1>4. CASE UNCHANGED vars
  <2>1. /\ UNCHANGED <<toPrimary, toWorker, executing, uidsToCommandResults, asked>>
        /\ UNCHANGED <<workers, uidsToCommandPromise, outcome>>
    BY <1>4 DEF vars, clusterVars, primaryVars, callerVars
  <2>2. /\ workers' \subseteq Workers /\ DOMAIN outcome' = Calls
        /\ uidsToCommandPromise' \in [Workers -> [Uids -> Calls \cup {Null}]]
    BY <2>1 DEF ClusterInv, ClusterTypes
  <2> QED BY <2>1, <2>2, CallersStep
<1> QED BY <1>1, <1>2, <1>3, <1>4 DEF Next

\* All that is left of the commands under some uids (messages, handlers at work, results that are
\* gathered, and the call that waits) belongs to one call, and a command is served once.
THEOREM CommandsAreApart == CrSpec => []ClusterInv
<1> QED BY InitHolds, StepKeeps, PTL DEF CrSpec

\* A command that is resolved has exactly one result from each worker that was in the cluster when
\* it was dispatched, each the result of this very command, whatever workers exit, are forked or
\* answer twice, and whatever calls are made under the same uids (sendWorkerCommand).
THEOREM ResultsComplete == CrSpec => []ResultsAreComplete
<1>1. ClusterInv => ResultsAreComplete
  BY DEF ClusterInv, Settlement, Complete, ResultsAreComplete
<1> QED BY <1>1, CommandsAreApart, PTL
-----------------------------------------------------------------------------
(* The tables of the primary, the processes and the kinds of outcomes. *)

Processes == up \subseteq started /\ up \subseteq workers /\ workers \subseteq started

Tables ==
    /\ uidsToWorkerId \in [Uids -> Workers \cup {Null}]
    /\ \A u \in Uids : (uidsToCommandResults[u] = Null) <=> (uidsToWorkerId[u] = Null)

Kinds == {"unsent", "pending", "lost", "results", "RequestTimeout", "OperationAborted", "NotImplemented"}

OutcomeTypes == timers \subseteq Calls /\ \A c \in Calls : outcome[c].kind \in Kinds

\* The primary knows who asked a command as long as it gathers its results, and no longer.
LEMMA TablesKept == ClusterInv /\ Tables /\ [Next]_vars => Tables'
<1> SUFFICES ASSUME ClusterInv, Tables, [Next]_vars PROVE Tables'
  OBVIOUS
<1> DEFINE Arrs == UNION {[V -> Answers \cup {Null}] : V \in SUBSET Workers}
<1>1. /\ uidsToWorkerId \in [Uids -> Workers \cup {Null}]
      /\ \A u \in Uids : (uidsToCommandResults[u] = Null) <=> (uidsToWorkerId[u] = Null)
      /\ uidsToCommandResults \in [Uids -> {Null} \cup Arrs] /\ workers \subseteq Workers
  BY DEF Tables, ClusterInv, ClusterTypes
<1>2. Null \notin Arrs /\ Null \notin Workers
  BY ClusterAssumption
<1>3. CASE UNCHANGED <<uidsToWorkerId, uidsToCommandResults>>
  BY <1>1, <1>3 DEF Tables
<1>4. ASSUME NEW w \in Workers, NEW c, DispatchToAll(w, c) PROVE Tables'
  <2>1. CASE uidsToWorkerId[Uid[c]] # Null
    BY <1>3, <1>4, <2>1 DEF DispatchToAll, primaryVars
  <2>2. CASE uidsToWorkerId[Uid[c]] = Null
    <3> DEFINE none == [p \in workers |-> Null]
    <3>1. /\ uidsToWorkerId' = [uidsToWorkerId EXCEPT ![Uid[c]] = w]
          /\ uidsToCommandResults' = [uidsToCommandResults EXCEPT ![Uid[c]] = none]
      BY <1>4, <2>2 DEF DispatchToAll
    <3>2. none \in Arrs
      BY <1>1, ArrayFacts
    <3> HIDE DEF none, Arrs
    <3>3. none # Null /\ w # Null
      BY <1>2, <3>2
    <3> QED BY <1>1, <3>1, <3>3 DEF Tables
  <2> QED BY <2>1, <2>2
<1>5. ASSUME NEW w \in Workers, PrimaryReceivesCommand(w) PROVE Tables'
  <2>1. PICK c : DispatchToAll(w, c) \/ ExecuteInPrimary(w, c) \/ RefuseTarget(w, c)
    BY <1>5 DEF PrimaryReceivesCommand
  <2>2. CASE ExecuteInPrimary(w, c) \/ RefuseTarget(w, c)
    BY <1>3, <2>2 DEF ExecuteInPrimary, RefuseTarget, primaryVars
  <2> QED BY <1>4, <2>1, <2>2
<1>6. ASSUME NEW w \in Workers, PrimaryReceivesResult(w) PROVE Tables'
  <2> DEFINE m == Head(toPrimary[w])
  <2>1. /\ IF ResultCounts(w, m.uids) THEN StoreResult(w, m.uids, m.payload)
           ELSE UNCHANGED <<uidsToWorkerId, uidsToCommandResults, toWorker>>
        /\ toPrimary[w] # <<>> /\ toPrimary' = [toPrimary EXCEPT ![w] = Tail(@)] /\ m.type = "commandResult"
    BY <1>6 DEF PrimaryReceivesResult
  <2>2. m \in Results
    <3>1. ClusterTypes
      BY DEF ClusterInv
    <3>2. m \in ToPrimary
      BY <2>1, <3>1, PrimaryTaken
    <3> QED BY <2>1, <3>1, <3>2, HeldFacts
  <2> HIDE DEF m
  <2>3. PICK u, value : u = m.uids /\ value = m.payload
    OBVIOUS
  <2>4. u \in Uids /\ value \in Answers
    BY <2>2, <2>3 DEF Results
  <2>5. CASE ~ResultCounts(w, u)
    BY <1>3, <2>1, <2>3, <2>5
  <2>6. CASE ResultCounts(w, u)
    <3> DEFINE old == uidsToCommandResults[u]
               results == [old EXCEPT ![w] = value]
    <3>1. old # Null /\ w \in DOMAIN old
      BY <2>6 DEF ResultCounts
    <3>2. CASE AllResponded(results)
      <4>1. /\ uidsToCommandResults' = [uidsToCommandResults EXCEPT ![u] = Null]
            /\ uidsToWorkerId' = [uidsToWorkerId EXCEPT ![u] = Null]
        BY <2>1, <2>3, <2>6, <3>2 DEF StoreResult, CompleteCommand, Forgotten
      <4> QED BY <1>1, <2>4, <4>1 DEF Tables
    <3>3. CASE ~AllResponded(results)
      <4>1. uidsToCommandResults' = [uidsToCommandResults EXCEPT ![u] = results] /\ UNCHANGED uidsToWorkerId
        BY <2>1, <2>3, <2>6, <3>3 DEF StoreResult
      <4>2. old \in Arrs
        <5> HIDE DEF Arrs
        <5> QED BY <1>1, <2>4, <3>1
      <4> HIDE DEF old
      <4>3. PICK V \in SUBSET Workers : old \in [V -> Answers \cup {Null}]
        BY <4>2
      <4>4. results \in [V -> Answers \cup {Null}]
        BY <2>4, <4>3
      <4> HIDE DEF results
      <4>5. results # Null
        BY <1>2, <4>4
      <4> QED BY <1>1, <2>4, <3>1, <4>1, <4>5 DEF Tables, old
    <3> QED BY <3>2, <3>3
  <2> QED BY <2>5, <2>6
<1>7. CASE \E c \in Calls : SendWorkerCommand(c) \/ Timeout(c)
  BY <1>3, <1>7 DEF SendWorkerCommand, Timeout, primaryVars
<1>8. CASE \E w \in Workers : ReceiveAnswer(w) \/ ReceiveCommand(w) \/ Exit(w) \/ ForgetWorker(w) \/ Fork(w)
  BY <1>3, <1>8 DEF ReceiveAnswer, ReceiveCommand, Exit, ForgetWorker, Fork, primaryVars
<1>9. CASE \E p \in Workers \cup {Primary}, c \in Calls, left \in 1 .. MaxCallbacks : HandlerCallback(p, c, left)
  BY <1>3, <1>9 DEF HandlerCallback, primaryVars
<1>10. CASE UNCHANGED vars
  BY <1>3, <1>10 DEF vars, primaryVars
<1> QED BY <1>5, <1>6, <1>7, <1>8, <1>9, <1>10 DEF Next

\* The primary hears of an exit after it, and of a fork at once.
LEMMA ProcessesKept == Processes /\ [Next]_vars => Processes'
<1> SUFFICES ASSUME Processes, [Next]_vars PROVE Processes'
  OBVIOUS
<1>1. CASE UNCHANGED clusterVars
  BY <1>1 DEF Processes, clusterVars
<1>2. CASE \E w \in Workers : Exit(w) \/ ForgetWorker(w) \/ Fork(w)
  BY <1>2 DEF Exit, ForgetWorker, Fork, Processes
<1>3. CASE \E c \in Calls : SendWorkerCommand(c) \/ Timeout(c)
  BY <1>1, <1>3 DEF SendWorkerCommand, Timeout
<1>4. CASE \E w \in Workers : \/ ReceiveAnswer(w) \/ ReceiveCommand(w)
                              \/ PrimaryReceivesCommand(w) \/ PrimaryReceivesResult(w)
  BY <1>1, <1>4 DEF ReceiveAnswer, ReceiveCommand, PrimaryReceivesCommand, PrimaryReceivesResult
<1>5. CASE \E p \in Workers \cup {Primary}, c \in Calls, left \in 1 .. MaxCallbacks : HandlerCallback(p, c, left)
  BY <1>1, <1>5 DEF HandlerCallback
<1>6. CASE UNCHANGED vars
  BY <1>1, <1>6 DEF vars
<1> QED BY <1>2, <1>3, <1>4, <1>5, <1>6 DEF Next

\* What becomes of a call.
LEMMA OutcomesKept == ClusterInv /\ OutcomeTypes /\ [Next]_vars => OutcomeTypes'
<1> SUFFICES ASSUME ClusterInv, OutcomeTypes, [Next]_vars PROVE OutcomeTypes'
  OBVIOUS
<1>1. DOMAIN outcome = Calls /\ timers \subseteq Calls /\ \A c \in Calls : outcome[c].kind \in Kinds
  BY DEF ClusterInv, ClusterTypes, OutcomeTypes
<1>2. CASE UNCHANGED <<timers, outcome>>
  BY <1>2 DEF OutcomeTypes
<1>3. ASSUME NEW c \in Calls, NEW settled, settled.kind \in Kinds, outcome' = [outcome EXCEPT ![c] = settled],
             timers' \subseteq timers \cup {c}
      PROVE  OutcomeTypes'
  BY <1>1, <1>3 DEF OutcomeTypes
<1>4. ASSUME NEW c \in Calls, SendWorkerCommand(c) PROVE OutcomeTypes'
  <2>1. Settled("OperationAborted").kind \in Kinds /\ Settled("pending").kind \in Kinds
    BY DEF Settled, Kinds
  <2>2. CASE RejectDuplicate(c)
    BY <1>3, <2>1, <2>2 DEF RejectDuplicate
  <2>3. CASE PostCommand(c)
    <3>1. outcome' = [outcome EXCEPT ![c] = Settled("pending")] /\ timers' \subseteq timers \cup {c}
      BY <2>3 DEF PostCommand
    <3> QED BY <1>3, <2>1, <3>1
  <2> QED BY <1>4, <2>2, <2>3 DEF SendWorkerCommand
<1>5. ASSUME NEW c \in Calls, Timeout(c) PROVE OutcomeTypes'
  <2>1. Settled("RequestTimeout").kind \in Kinds
    BY DEF Settled, Kinds
  <2>2. timers' \subseteq timers /\ (outcome' = [outcome EXCEPT ![c] = Settled("RequestTimeout")] \/ outcome' = outcome)
    BY <1>5 DEF Timeout
  <2>3. CASE outcome' = outcome
    BY <1>1, <2>2, <2>3 DEF OutcomeTypes
  <2> QED BY <1>3, <2>1, <2>2, <2>3
<1>6. ASSUME NEW w \in Workers, ReceiveAnswer(w) PROVE OutcomeTypes'
  <2> DEFINE m == Head(toWorker[w])
  <2>1. /\ \/ m.type = "commandResults" /\ SettlePromise(w, m.uids, Resolved(m.payload))
           \/ m.type = "commandError" /\ SettlePromise(w, m.uids, Settled(m.payload))
        /\ toWorker[w] # <<>> /\ toWorker' = [toWorker EXCEPT ![w] = Tail(@)]
    BY <1>6 DEF ReceiveAnswer
  <2>2. m \in ToWorkers /\ ClusterTypes
    BY <2>1, WorkersTaken DEF ClusterInv
  <2> HIDE DEF m
  <2>3. m.uids \in Uids /\ (m.type = "commandError" => m.payload = "NotImplemented")
    BY <2>1, <2>2, HeldFacts
  <2>4. PICK settled : settled.kind \in Kinds /\ SettlePromise(w, m.uids, settled)
    BY <2>1, <2>3 DEF Resolved, Settled, Kinds
  <2>5. PICK c : c = uidsToCommandPromise[w][m.uids]
    OBVIOUS
  <2>6. c \in Calls \cup {Null}
    BY <2>2, <2>3, <2>5 DEF ClusterTypes
  <2>7. CASE c = Null
    BY <1>2, <2>4, <2>5, <2>7 DEF SettlePromise, callerVars
  <2>8. CASE c # Null
    <3>1. outcome' = [outcome EXCEPT ![c] = settled] /\ timers' \subseteq timers
      BY <2>4, <2>5, <2>8 DEF SettlePromise, ClearTimer
    <3> QED BY <1>3, <2>4, <2>6, <2>8, <3>1
  <2> QED BY <2>7, <2>8
<1>7. ASSUME NEW w \in Workers, Exit(w) PROVE OutcomeTypes'
  BY <1>1, <1>7 DEF Exit, OutcomeTypes, Settled, Kinds
<1>8. CASE \E w \in Workers : \/ ReceiveCommand(w) \/ PrimaryReceivesCommand(w) \/ PrimaryReceivesResult(w)
                              \/ ForgetWorker(w) \/ Fork(w)
  BY <1>2, <1>8 DEF ReceiveCommand, PrimaryReceivesCommand, PrimaryReceivesResult, ForgetWorker, Fork, callerVars
<1>9. CASE \E p \in Workers \cup {Primary}, c \in Calls, left \in 1 .. MaxCallbacks : HandlerCallback(p, c, left)
  BY <1>2, <1>9 DEF HandlerCallback, callerVars
<1>10. CASE UNCHANGED vars
  BY <1>2, <1>10 DEF vars, callerVars
<1> QED BY <1>4, <1>5, <1>6, <1>7, <1>8, <1>9, <1>10 DEF Next

\* The types of the tables and of the outcomes; in particular the primary forgets who asked a
\* command together with its results (uidsToWorkerId, uidsToCommandResults).
THEOREM CrTypeCorrect == CrSpec => []CrTypeOK
<1>1. Init => Processes /\ Tables /\ OutcomeTypes
  BY ClusterAssumption DEF Init, Processes, Tables, OutcomeTypes, Settled, Kinds
<1>2. ClusterInv /\ Processes /\ Tables /\ OutcomeTypes => CrTypeOK
  BY DEF ClusterInv, ClusterTypes, Processes, Tables, OutcomeTypes, Kinds, CrTypeOK
<1> QED BY <1>1, <1>2, CommandsAreApart, TablesKept, ProcessesKept, OutcomesKept, PTL DEF CrSpec
=============================================================================
