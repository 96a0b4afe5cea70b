----------------------------- MODULE ClusterRPC -----------------------------
(***************************************************************************)
(* Remote procedure calls between the workers of a node.js cluster         *)
(* (lib/clustering/ClusterRPC.ts).  A worker sends a command to the        *)
(* primary, the primary forwards it to every worker, gathers one result    *)
(* from each and sends the results back to the worker that asked.          *)
(*                                                                         *)
(* A call is one call of sendWorkerCommand.  A result is the call whose    *)
(* payload the handler was given, or "NotImplemented": enough to tell      *)
(* whose result it is.  IPC channels are FIFO and die with the worker.     *)
(***************************************************************************)
EXTENDS Integers, Sequences, FiniteSets, Functions

CONSTANTS Workers,       \* worker ids, a forked worker takes an unused one
          FirstWorkers,  \* the workers running at the start
          Calls,         \* calls of sendWorkerCommand
          CallSets,      \* the sets of calls made together
          Caller, Uid, Target,  \* [Calls -> ..]: its worker, "uids" and "toWorkers"
          Timed,         \* the calls made with timeoutMs # 0
          Handled,       \* the calls whose "toHandler" has a handler
          MaxCallbacks,  \* times a handler may call its callback
          MaxExits,      \* bound: worker exits
          Null           \* undefined, or the null of a pending result

Primary == "PRIMARY"
Answers == Calls \cup {"NotImplemented"}

\* Null is no worker, no answer and no array of results: the code tells them apart.
ASSUME ClusterAssumption ==
    /\ FirstWorkers \subseteq Workers /\ Primary \notin Workers
    /\ Null \notin Workers \cup Answers
    /\ \A W \in SUBSET Workers : Null \notin [W -> Answers \cup {Null}]
    /\ Caller \in [Calls -> Workers] /\ CallSets \subseteq SUBSET Calls
    /\ Timed \subseteq Calls /\ Handled \subseteq Calls
    /\ MaxCallbacks \in Nat \ {0} /\ MaxExits \in Nat

VARIABLES up,         \* the worker processes that run
          started,    \* the workers forked so far
          workers,    \* primary: the keys of cluster.workers
          toPrimary, toWorker,   \* [Workers -> messages in the channel]
          uidsToWorkerId, uidsToCommandResults,  \* primary, by uids
          uidsToCommandPromise,  \* [Workers -> by uids: the pending call]
          timers,     \* the calls whose timeout is armed
          executing,  \* <<where, call, callbacks left>>: handlers at work
          made,       \* the calls that the workers make, now or later
          outcome,    \* what became of each call
          asked       \* history: who was asked to execute each call

callerVars  == <<uidsToCommandPromise, timers, outcome>>
primaryVars == <<uidsToWorkerId, uidsToCommandResults, asked>>
clusterVars == <<up, started, workers>>
vars == <<made, clusterVars, toPrimary, toWorker, primaryVars, callerVars, executing>>

Uids == {Uid[c] : c \in Calls}

Settled(kind)    == [kind |-> kind, results |-> <<>>]
Resolved(results) == [kind |-> "results", results |-> results]

Command(c)              == [type |-> "command", call |-> c]
CommandResult(u, value) == [type |-> "commandResult", uids |-> u, payload |-> value]
CommandResults(u, results) ==
    [type |-> "commandResults", uids |-> u, payload |-> results]
CommandError(u, error)  == [type |-> "commandError", uids |-> u, payload |-> error]

\* What a handler answers, or the error when there is no such handler.
Computed(c) == IF c \in Handled THEN c ELSE "NotImplemented"

\* A message to a process that is gone is lost.
Sent(channels, w, m) ==
    IF w \in up THEN [channels EXCEPT ![w] = Append(@, m)] ELSE channels

SentToAll(channels, m) ==
    [w \in Workers |-> IF w \in workers \cap up THEN Append(channels[w], m)
                                                ELSE channels[w]]

Init ==
    /\ up = FirstWorkers /\ started = FirstWorkers /\ workers = FirstWorkers
    /\ toPrimary = [w \in Workers |-> <<>>]
    /\ toWorker = [w \in Workers |-> <<>>]
    /\ uidsToWorkerId = [u \in Uids |-> Null]
    /\ uidsToCommandResults = [u \in Uids |-> Null]
    /\ uidsToCommandPromise = [w \in Workers |-> [u \in Uids |-> Null]]
    /\ timers = {} /\ executing = {}
    /\ made \in CallSets
    /\ outcome = [c \in Calls |-> Settled("unsent")]
    /\ asked = [c \in Calls |-> {}]

-----------------------------------------------------------------------------
(* The worker that asks.                                                   *)

\* Something is left of a command with these uids: a message, a handler at
\* work, or results in the primary.
InProgress(u) ==
    \/ uidsToCommandResults[u] # Null
    \/ \E e \in executing : Uid[e[2]] = u
    \/ \E w \in Workers : \E m \in Range(toPrimary[w]) \cup Range(toWorker[w]) :
          u = IF m.type = "command" THEN Uid[m.call] ELSE m.uids

\* "must be unique across all commands in progress": the callers' duty, which
\* sendWorkerCommand checks only within a worker, and only for the commands
\* that are still waited for.
UidFreeElsewhere(c) ==
    /\ \A w \in Workers \ {Caller[c]} : uidsToCommandPromise[w][Uid[c]] = Null
    /\ uidsToCommandPromise[Caller[c]][Uid[c]] = Null => ~InProgress(Uid[c])

RejectDuplicate(c) ==
    /\ uidsToCommandPromise[Caller[c]][Uid[c]] # Null
    /\ outcome' = [outcome EXCEPT ![c] = Settled("OperationAborted")]
    /\ UNCHANGED <<uidsToCommandPromise, timers, toPrimary>>

PostCommand(c) ==
    /\ uidsToCommandPromise[Caller[c]][Uid[c]] = Null
    /\ uidsToCommandPromise' = [uidsToCommandPromise EXCEPT ![Caller[c]][Uid[c]] = c]
    /\ timers' = IF c \in Timed THEN timers \cup {c} ELSE timers
    /\ outcome' = [outcome EXCEPT ![c] = Settled("pending")]
    /\ toPrimary' = Sent(toPrimary, Caller[c], Command(c))

SendWorkerCommand(c) ==
    /\ c \in made /\ outcome[c].kind = "unsent" /\ Caller[c] \in up
    /\ UidFreeElsewhere(c)
    /\ RejectDuplicate(c) \/ PostCommand(c)
    /\ UNCHANGED <<made, clusterVars, toWorker, primaryVars, executing>>

\* The timer deletes the promise found under its uids; rejecting a promise
\* already settled does nothing.
Timeout(c) ==
    /\ c \in timers
    /\ timers' = timers \ {c}
    /\ uidsToCommandPromise' = [uidsToCommandPromise EXCEPT ![Caller[c]][Uid[c]] = Null]
    /\ outcome' = IF outcome[c].kind = "pending"
                  THEN [outcome EXCEPT ![c] = Settled("RequestTimeout")]
                  ELSE outcome
    /\ UNCHANGED <<made, clusterVars, toPrimary, toWorker, primaryVars, executing>>

\* commandResults and commandError: clear the timer, forget the promise and
\* settle it; an answer without a promise is dropped.
ClearTimer(c) == timers \ {c}

SettlePromise(w, u, settled) ==
    LET c == uidsToCommandPromise[w][u] IN
    \/ /\ c = Null
       /\ UNCHANGED callerVars
    \/ /\ c # Null
       /\ timers' = ClearTimer(c)
       /\ uidsToCommandPromise' = [uidsToCommandPromise EXCEPT ![w][u] = Null]
       /\ outcome' = [outcome EXCEPT ![c] = settled]

ReceiveAnswer(w) ==
    /\ w \in up /\ toWorker[w] # <<>>
    /\ LET m == Head(toWorker[w]) IN
        \/ /\ m.type = "commandResults"
           /\ SettlePromise(w, m.uids, Resolved(m.payload))
        \/ /\ m.type = "commandError"
           /\ SettlePromise(w, m.uids, Settled(m.payload))
    /\ toWorker' = [toWorker EXCEPT ![w] = Tail(@)]
    /\ UNCHANGED <<made, clusterVars, toPrimary, primaryVars, executing>>

-----------------------------------------------------------------------------
(* The processes that execute.                                             *)

\* A worker gets a command: start its handler, or answer NotImplemented.
ReceiveCommand(w) ==
    /\ w \in up /\ toWorker[w] # <<>> /\ Head(toWorker[w]).type = "command"
    /\ toWorker' = [toWorker EXCEPT ![w] = Tail(@)]
    /\ LET c == Head(toWorker[w]).call IN
        IF c \in Handled
        THEN /\ executing' = executing \cup {<<w, c, MaxCallbacks>>}
             /\ UNCHANGED toPrimary
        ELSE /\ toPrimary' = Sent(toPrimary, w, CommandResult(Uid[c], Computed(c)))
             /\ UNCHANGED executing
    /\ UNCHANGED <<made, clusterVars, primaryVars, callerVars>>

\* The handler of call c at p calls its callback, of which it then has one
\* less to make.
HandlerCallback(p, c, left) ==
    /\ <<p, c, left>> \in executing
    /\ executing' = (executing \ {<<p, c, left>>})
                    \cup (IF left > 1 THEN {<<p, c, left - 1>>} ELSE {})
    /\ IF p = Primary
       THEN /\ toWorker' = Sent(toWorker, Caller[c],
                    CommandResults(Uid[c], [q \in {Primary} |-> Computed(c)]))
            /\ UNCHANGED toPrimary
       ELSE /\ toPrimary' = Sent(toPrimary, p, CommandResult(Uid[c], Computed(c)))
            /\ UNCHANGED toWorker
    /\ UNCHANGED <<made, clusterVars, primaryVars, callerVars>>

-----------------------------------------------------------------------------
(* The primary.                                                            *)

\* _handlePrimaryCommandMessage with toWorkers = "*".
DispatchToAll(w, c) ==
    /\ Target[c] = "*"
    /\ IF uidsToWorkerId[Uid[c]] # Null
       THEN UNCHANGED <<primaryVars, toWorker>>
       ELSE /\ uidsToWorkerId' = [uidsToWorkerId EXCEPT ![Uid[c]] = w]
            /\ uidsToCommandResults' =
                [uidsToCommandResults EXCEPT ![Uid[c]] = [p \in workers |-> Null]]
            /\ asked' = [asked EXCEPT ![c] = workers]
            /\ toWorker' = SentToAll(toWorker, Command(c))
    /\ UNCHANGED executing

\* toWorkers = "PRIMARY": the primary's own handlers.
ExecuteInPrimary(w, c) ==
    /\ Target[c] = Primary
    /\ asked' = [asked EXCEPT ![c] = {Primary}]
    /\ IF c \in Handled
       THEN /\ executing' = executing \cup {<<Primary, c, MaxCallbacks>>}
            /\ UNCHANGED toWorker
       ELSE /\ toWorker' = Sent(toWorker, w,
                    CommandResults(Uid[c], [q \in {Primary} |-> Computed(c)]))
            /\ UNCHANGED executing
    /\ UNCHANGED <<uidsToWorkerId, uidsToCommandResults>>

\* Any other target is refused.
RefuseTarget(w, c) ==
    /\ Target[c] \notin {"*", Primary}
    /\ toWorker' = Sent(toWorker, w, CommandError(Uid[c], "NotImplemented"))
    /\ UNCHANGED <<primaryVars, executing>>

PrimaryReceivesCommand(w) ==
    /\ w \in workers /\ toPrimary[w] # <<>> /\ Head(toPrimary[w]).type = "command"
    /\ toPrimary' = [toPrimary EXCEPT ![w] = Tail(@)]
    /\ LET c == Head(toPrimary[w]).call IN
        DispatchToAll(w, c) \/ ExecuteInPrimary(w, c) \/ RefuseTarget(w, c)
    /\ UNCHANGED <<made, clusterVars, callerVars>>

\* Only the first result of a worker that was asked counts.
ResultCounts(w, u) ==
    /\ uidsToCommandResults[u] # Null
    /\ w \in DOMAIN uidsToCommandResults[u]
    /\ uidsToCommandResults[u][w] = Null

\* Mutant: a worker that exited is not waited for.
LiveResponded(results) == \A w \in DOMAIN results \cap workers : results[w] # Null

AllResponded(results) == \A w \in DOMAIN results : results[w] # Null

\* What completing a command leaves of its uids in the primary.
OwnerKept(owners, u) == owners    \* mutant
Forgotten(owners, u) == [owners EXCEPT ![u] = Null]

CompleteCommand(u, results) ==
    /\ uidsToCommandResults' = [uidsToCommandResults EXCEPT ![u] = Null]
    /\ uidsToWorkerId' = Forgotten(uidsToWorkerId, u)
    /\ IF uidsToWorkerId[u] \in workers
       THEN toWorker' = Sent(toWorker, uidsToWorkerId[u], CommandResults(u, results))
       ELSE UNCHANGED toWorker

StoreResult(w, u, value) ==
    LET results == [uidsToCommandResults[u] EXCEPT ![w] = value] IN
    IF AllResponded(results)
    THEN CompleteCommand(u, results)
    ELSE /\ uidsToCommandResults' = [uidsToCommandResults EXCEPT ![u] = results]
         /\ UNCHANGED <<uidsToWorkerId, toWorker>>

PrimaryReceivesResult(w) ==
    /\ w \in workers /\ toPrimary[w] # <<>>
    /\ Head(toPrimary[w]).type = "commandResult"
    /\ toPrimary' = [toPrimary EXCEPT ![w] = Tail(@)]
    /\ LET m == Head(toPrimary[w]) IN
        IF ResultCounts(w, m.uids)
        THEN StoreResult(w, m.uids, m.payload)
        ELSE UNCHANGED <<uidsToWorkerId, uidsToCommandResults, toWorker>>
    /\ UNCHANGED <<made, clusterVars, asked, callerVars, executing>>

-----------------------------------------------------------------------------
(* The cluster module: workers exit, the primary learns of it, forks more. *)

Exit(w) ==
    /\ w \in up /\ Cardinality(started \ up) < MaxExits
    /\ up' = up \ {w}
    /\ toWorker' = [toWorker EXCEPT ![w] = <<>>]
    /\ executing' = {e \in executing : e[1] # w}
    /\ timers' = {c \in timers : Caller[c] # w}
    /\ uidsToCommandPromise' =
        [uidsToCommandPromise EXCEPT ![w] = [u \in Uids |-> Null]]
    /\ outcome' = [c \in Calls |->
         IF Caller[c] = w /\ outcome[c].kind = "pending" THEN Settled("lost")
                                                         ELSE outcome[c]]
    /\ UNCHANGED <<made, started, workers, toPrimary, primaryVars>>

\* The primary reads what the worker wrote before it died, or part of it.
ForgetWorker(w) ==
    /\ w \in workers \ up
    /\ workers' = workers \ {w}
    /\ toPrimary' = [toPrimary EXCEPT ![w] = <<>>]
    /\ UNCHANGED <<made, up, started, toWorker, primaryVars, callerVars, executing>>

Fork(w) ==
    /\ w \notin started
    /\ started' = started \cup {w}
    /\ up' = up \cup {w} /\ workers' = workers \cup {w}
    /\ UNCHANGED <<made, toPrimary, toWorker, primaryVars, callerVars, executing>>

-----------------------------------------------------------------------------
Next ==
    \/ \E c \in Calls : SendWorkerCommand(c) \/ Timeout(c)
    \/ \E w \in Workers :
        \/ ReceiveAnswer(w) \/ ReceiveCommand(w)
        \/ PrimaryReceivesCommand(w) \/ PrimaryReceivesResult(w)
        \/ Exit(w) \/ ForgetWorker(w) \/ Fork(w)
    \/ \E p \in Workers \cup {Primary}, c \in Calls, left \in 1..MaxCallbacks :
        HandlerCallback(p, c, left)

\* Event loops run, handlers call back at least once, timers fire.
Fairness ==
    /\ \A w \in Workers :
        /\ WF_vars(ReceiveAnswer(w)) /\ WF_vars(ReceiveCommand(w))
        /\ WF_vars(PrimaryReceivesCommand(w)) /\ WF_vars(PrimaryReceivesResult(w))
    /\ \A c \in Calls : WF_vars(Timeout(c))
    /\ \A p \in Workers \cup {Primary}, c \in Calls :
        WF_vars(HandlerCallback(p, c, MaxCallbacks))

CrSpec == Init /\ [][Next]_vars
FairCrSpec == CrSpec /\ Fairness

-----------------------------------------------------------------------------
(* Properties.                                                             *)

\* The type of the tables and of the outcomes.
CrTypeOK ==
    /\ up \subseteq started /\ up \subseteq workers /\ workers \subseteq started
    /\ uidsToWorkerId \in [Uids -> Workers \cup {Null}]
    /\ \A u \in Uids : (uidsToCommandResults[u] = Null) <=> (uidsToWorkerId[u] = Null)
    /\ uidsToCommandPromise \in [Workers -> [Uids -> Calls \cup {Null}]]
    /\ timers \subseteq Calls
    /\ \A c \in Calls : outcome[c].kind \in
        {"unsent", "pending", "lost", "results", "RequestTimeout",
         "OperationAborted", "NotImplemented"}

\* "the primary gathers all workers results into an array": a command that is
\* resolved has exactly one result from each worker that was in the cluster when
\* it was dispatched, none from a worker forked later, and each is the result of
\* this very command; only an unknown target is refused as a whole.
ResultsAreComplete ==
    \A c \in Calls :
        /\ outcome[c].kind = "results" =>
            /\ Target[c] \in {"*", Primary}
            /\ DOMAIN outcome[c].results = asked[c]
            /\ \A p \in asked[c] : outcome[c].results[p] = Computed(c)
        /\ outcome[c].kind = "NotImplemented" => Target[c] \notin {"*", Primary}

\* Nobody waits, nothing executes and no message travels.
Idle ==
    /\ executing = {} /\ \A c \in Calls : outcome[c].kind # "pending"
    /\ \A w \in Workers : toPrimary[w] = <<>> /\ toWorker[w] = <<>>

\* Every command sent is eventually settled at its caller: resolved, refused,
\* timed out, or lost with its caller. Without a timeout it is, unless a
\* process exits, whose results the primary then waits for.
EveryCommandSettles ==
    \A c \in Calls : (outcome[c].kind = "pending")
                        ~> (outcome[c].kind # "pending" \/ (c \notin Timed /\ up # started))
=============================================================================
