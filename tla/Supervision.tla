------------------------------ MODULE Supervision ------------------------------
(***************************************************************************)
(* Clustering: the primary process forks a worker for each slot, forks     *)
(* another when one exits, and on stop() asks the workers to terminate,    *)
(* kills those that do not, and exits with the status of the workers.      *)
(***************************************************************************)
EXTENDS Integers, SequencesExt, FiniteSetsExt

CONSTANTS
    Slots,        \* the workers' indexes
    Processes,    \* 1 .. the number of processes forked (bound)
    MaxCrashes,  \* bound: workers that exit on their own
    MaxStops      \* bound: calls of stop(), one per signal received

ASSUME SupervisionAssumption ==
    /\ Slots \subseteq Nat \ {0} /\ Processes \subseteq Nat \ {0}
    /\ MaxCrashes \in Nat /\ MaxStops \in Nat

NoProcess == 0
Clean == "none"   \* workersStatus: undefined

VARIABLES
    process,       \* process[p]: [slot, state, exit, ready, setup, index]
    workers,       \* workers[slot]: a process, or NoProcess
    workersTimeout,      \* workersTimeout[slot]: the process to kill, or NoProcess
    lostTimeouts,  \* timers that are armed and that no slot holds any more
    workersStatus,
    toStart,       \* slots that nextTick will start
    shutdown,
    primary,       \* "running", "stopped" or "crashed"
    exitStatus,
    crashes,
    stops

svVars == <<process, workers, workersTimeout, lostTimeouts, workersStatus, toStart, shutdown, primary,
            exitStatus, crashes, stops>>

Running(p) == process[p].state \in {"running", "terminating"}

Forked(processes, slot) ==
    LET p == Min({q \in Processes : processes[q].state = "none"})
    IN  [p |-> p, processes |-> [processes EXCEPT ![p].state = "running", ![p].slot = slot]]

-----------------------------------------------------------------------------
(* The primary. *)

SvInit ==
    /\ \E order \in {SetToSeq(Slots)} :
        /\ process = [p \in Processes |->
                [slot |-> IF p \in DOMAIN order THEN order[p] ELSE NoProcess,
                 state |-> IF p \in DOMAIN order THEN "running" ELSE "none",
                 exit |-> Clean, ready |-> "no", setup |-> 0, index |-> NoProcess]]
        /\ workers = [slot \in Slots |-> CHOOSE p \in DOMAIN order : order[p] = slot]
    /\ workersTimeout = [slot \in Slots |-> NoProcess]
    /\ lostTimeouts = {}
    /\ workersStatus = [slot \in Slots |-> Clean]
    /\ toStart = <<>>
    /\ shutdown = FALSE
    /\ primary = "running"
    /\ exitStatus = 0
    /\ crashes = 0
    /\ stops = 0

PrimaryEvent == primary = "running" /\ toStart = <<>>

StartWorker ==
    /\ primary = "running" /\ toStart # <<>>
    /\ toStart' = Tail(toStart)
    /\ \E forked \in {Forked(process, Head(toStart))} :
        /\ process' = forked.processes
        /\ workers' = [workers EXCEPT ![Head(toStart)] = forked.p]
    /\ UNCHANGED <<workersTimeout, lostTimeouts, workersStatus, shutdown, primary, exitStatus,
                   crashes, stops>>

\* The message goes to whoever is in the slot now; nobody is an exception.
ReceiveReady(p) ==
    /\ PrimaryEvent
    /\ process[p].ready = "sent"
    /\ LET worker == workers[process[p].slot]
           read == [process EXCEPT ![p].ready = IF @ = "sent" /\ process[p].state = "gone"
                                                THEN "late" ELSE "read"]
       IN  IF worker = NoProcess
           THEN primary' = "crashed" /\ exitStatus' = 1 /\ process' = read
           ELSE process' = [read EXCEPT ![worker].setup = @ + 1] /\ UNCHANGED <<primary, exitStatus>>
    /\ UNCHANGED <<workers, workersTimeout, lostTimeouts, workersStatus, toStart, shutdown,
                   crashes, stops>>

\* The status of the first slot whose worker did not end well.
StatusOf(statuses) ==
    LET bad == {slot \in Slots : statuses[slot] # Clean}
    IN  IF bad = {} THEN 0 ELSE IF statuses[Min(bad)] = "signal" THEN 1 ELSE 2

\* Mutant: the primary exits with the first worker.
ExitedWithFirst(p) ==
    LET slot == process[p].slot
        statuses == [workersStatus EXCEPT ![slot] = process[p].exit]
    IN  /\ PrimaryEvent
        /\ process[p].state = "dead"
        /\ process' = [process EXCEPT ![p].state = "gone"]
        /\ workersStatus' = statuses
        /\ workers' = [workers EXCEPT ![slot] = NoProcess]
        /\ workersTimeout' = [workersTimeout EXCEPT ![slot] = NoProcess]
        /\ toStart' = IF shutdown THEN toStart ELSE Append(toStart, slot)
        /\ IF shutdown THEN primary' = "stopped" /\ exitStatus' = StatusOf(statuses)
           ELSE UNCHANGED <<primary, exitStatus>>
        /\ UNCHANGED <<lostTimeouts, shutdown, crashes, stops>>

WorkerExited(p) ==
    LET slot == process[p].slot
        statuses == [workersStatus EXCEPT ![slot] = process[p].exit]
        left == [workers EXCEPT ![slot] = NoProcess]
    IN  /\ PrimaryEvent
        /\ process[p].state = "dead"
        /\ process' = [process EXCEPT ![p].state = "gone"]
        /\ workersStatus' = statuses
        /\ workers' = left
        /\ workersTimeout' = [workersTimeout EXCEPT ![slot] = NoProcess]
        /\ toStart' = IF shutdown THEN toStart ELSE Append(toStart, slot)
        /\ IF shutdown /\ \A s \in Slots : left[s] = NoProcess
           THEN primary' = "stopped" /\ exitStatus' = StatusOf(statuses)
           ELSE UNCHANGED <<primary, exitStatus>>
        /\ UNCHANGED <<lostTimeouts, shutdown, crashes, stops>>

\* Each call arms a timer per worker, also over one that is armed.
Stop ==
    /\ PrimaryEvent
    /\ stops < MaxStops
    /\ stops' = stops + 1
    /\ shutdown' = TRUE
    /\ workersTimeout' = workers
    /\ lostTimeouts' = (lostTimeouts \cup Range(workersTimeout)) \ {NoProcess}
    /\ process' = [p \in Processes |->
            IF p \in Range(workers) /\ process[p].state = "running"
            THEN [process[p] EXCEPT !.state = "terminating"] ELSE process[p]]
    /\ UNCHANGED <<workers, workersStatus, toStart, primary, exitStatus, crashes>>

\* process.kill() of a process that is gone throws.
Kill(p) ==
    IF process[p].state = "gone"
    THEN primary' = "crashed" /\ exitStatus' = 1 /\ UNCHANGED process
    ELSE /\ process' = IF Running(p)
                       THEN [process EXCEPT ![p].state = "dead", ![p].exit = "signal"] ELSE process
         /\ UNCHANGED <<primary, exitStatus>>

KillTimeout(slot) ==
    /\ PrimaryEvent
    /\ workersTimeout[slot] # NoProcess
    /\ Kill(workersTimeout[slot])
    /\ workersTimeout' = [workersTimeout EXCEPT ![slot] = NoProcess]
    /\ UNCHANGED <<workers, lostTimeouts, workersStatus, toStart, shutdown, crashes, stops>>

LostTimeout(p) ==
    /\ PrimaryEvent
    /\ p \in lostTimeouts
    /\ Kill(p)
    /\ lostTimeouts' = lostTimeouts \ {p}
    /\ UNCHANGED <<workers, workersTimeout, workersStatus, toStart, shutdown, crashes, stops>>

-----------------------------------------------------------------------------
(* The workers; when the primary is gone node's cluster ends them. *)

SendReady(p) ==
    /\ primary = "running" /\ Running(p) /\ process[p].ready = "no"
    /\ process' = [process EXCEPT ![p].ready = "sent"]
    /\ UNCHANGED <<workers, workersTimeout, lostTimeouts, workersStatus, toStart, shutdown, primary,
                   exitStatus, crashes, stops>>

ReceiveSetup(p) ==
    /\ primary = "running" /\ Running(p) /\ process[p].setup > 0
    /\ process' = [process EXCEPT ![p].setup = @ - 1, ![p].index = process[p].slot]
    /\ UNCHANGED <<workers, workersTimeout, lostTimeouts, workersStatus, toStart, shutdown, primary,
                   exitStatus, crashes, stops>>

\* A worker exits because it was asked to, or on its own.
Exit(p, exit) ==
    /\ primary = "running"
    /\ \/ process[p].state = "terminating" /\ UNCHANGED crashes
       \/ /\ process[p].state = "running"
          /\ crashes < MaxCrashes
          /\ crashes' = crashes + 1
    /\ process' = [process EXCEPT ![p].state = "dead", ![p].exit = exit]
    /\ UNCHANGED <<workers, workersTimeout, lostTimeouts, workersStatus, toStart, shutdown, primary,
                   exitStatus, stops>>

SvNext ==
    \/ StartWorker \/ Stop
    \/ \E slot \in Slots : KillTimeout(slot)
    \/ \E p \in Processes :
        \/ ReceiveReady(p) \/ WorkerExited(p) \/ LostTimeout(p)
        \/ SendReady(p) \/ ReceiveSetup(p)
        \/ \E exit \in {Clean, "code"} : Exit(p, exit)

\* The event loops run, messages and exits are noticed, timers fire; a worker
\* need not terminate when it is asked to.
SvFairness ==
    /\ WF_svVars(StartWorker)
    /\ \A slot \in Slots : WF_svVars(KillTimeout(slot))
    /\ \A p \in Processes :
        WF_svVars(ReceiveReady(p)) /\ WF_svVars(WorkerExited(p))
        /\ WF_svVars(SendReady(p)) /\ WF_svVars(ReceiveSetup(p))

SvSpec == SvInit /\ [][SvNext]_svVars /\ SvFairness

-----------------------------------------------------------------------------
(* Properties. *)

\* After stop() the primary exits, with no worker left and the status of those
\* that ended badly, even if workers do not react; before, every slot gets a
\* worker that knows its index, whatever exits. Only a second stop() and a
\* message that comes after the exit of its worker make the primary fail.
WorkersAreSupervised ==
    /\ shutdown ~> \/ /\ primary = "stopped"
                      /\ \A p \in Processes : ~Running(p)
                      /\ (exitStatus = 0) = (\A slot \in Slots : workersStatus[slot] = Clean)
                   \/ /\ primary = "crashed"
                      /\ stops > 1 \/ \E p \in Processes : process[p].ready = "late"
    /\ \/ <>shutdown
       \/ <>[](\A slot \in Slots : workers[slot] # NoProcess /\ process[workers[slot]].index = slot)
=============================================================================
