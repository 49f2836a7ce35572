-------------------------------- MODULE Host --------------------------------
(***************************************************************************)
(* A component group: the coordinator (component/coordinator), one worker  *)
(* task per instance (component/worker), the local admission controller    *)
(* (component/staged), the group's handle, and the context state they      *)
(* share (managed/admission, shutdown).                                    *)
(*                                                                         *)
(* A hook is user code: it may return, fail, panic, drop an endpoint or    *)
(* never come back.  A hook's result may be delivered after a stop command *)
(* is already visible, because a worker only looks at the command when it  *)
(* polls the hook, and a poll is as long as the hook makes it.             *)
(***************************************************************************)
EXTENDS Naturals, Sequences, FiniteSets

CONSTANTS
    N,           \* number of component instances, numbered in bindings order
    MaxFaults    \* bound: disturbances (failures, losses, stops) per group

ASSUME NAssumption == N \in Nat \ {0}
ASSUME FaultsAssumption == MaxFaults \in Nat

Instances == 1..N

NoError == [code |-> "none", instance |-> 0]

\* HostError: a code and the instance it names (0: the group).
HostError(code, i) == [code |-> code, instance |-> i]

VARIABLES
    host,        \* HostStatus.phase
    comp,        \* HostStatus.components
    stop,        \* the handle's stop watch
    outcome,     \* the terminal watch
    commands,    \* the command watch: "Prepare", "Run" or a StopReason
    events,      \* the worker-to-coordinator queue
    control,     \* the controller-to-coordinator queue, capacity one
    reports,     \* the reports watch: are they published?
    acked,       \* has the commit stage been acknowledged?
    coord,       \* the coordinator: where it is, next to commit, failures
    contexts,    \* instances whose context the coordinator holds
    tickets,     \* instances whose prepared ticket the coordinator holds
    ready,       \* instances whose ready admission the coordinator holds
    pending,     \* instances whose task is not joined
    worker,      \* the worker tasks
    hosted,      \* each context's retained hosted event
    ports,       \* each context's declared endpoint and its admission
    losing,      \* contexts whose ports are locked by ManagedPort::drop, which
                 \* took the admission and has not retained the loss yet
    gate,        \* the group's step gate
    driver,      \* the step driver task
    controller,  \* the admission controller
    doomed,      \* history: a stop or loss preceded the final check
    faults       \* disturbances so far

status == <<host, comp>>
watches == <<stop, outcome, commands, reports, acked>>
queues == <<events, control>>
held == <<coord, contexts, tickets, ready, pending>>
shared == <<hosted, ports, losing, gate, doomed>>
peers == <<driver, controller>>
vars == <<status, watches, queues, held, worker, shared, peers, faults>>

StopReasons == {"Requested", "StartupFailure", "ComponentFailure"}

HostTerminal == {"Stopped", "Failed", "Unresponsive"}

NoOutcome == [kind |-> "none"]

NoPorts == [live |-> FALSE, admission |-> "none"]

\* The event and request queues are closed once the coordinator is dropped.
Closed == outcome # NoOutcome

\* "At most Opened, Prepared and Failure per component".
EventCapacity == 3 * N

Init ==
    /\ host = "Starting"
    /\ comp = [i \in Instances |-> [phase |-> "Starting", error |-> NoError]]
    /\ stop = FALSE
    /\ outcome = NoOutcome
    /\ commands = "Prepare"
    /\ events = <<>> /\ control = <<>>
    /\ reports = FALSE /\ acked = FALSE
    /\ coord = [at |-> "collect", next |-> 1, primary |-> NoError,
                cleanup |-> <<>>]
    /\ contexts = {} /\ tickets = {} /\ ready = {} /\ pending = Instances
    /\ worker = [i \in Instances |->
                    [at |-> "open", made |-> FALSE, panicked |-> FALSE,
                     stops |-> 0, error |-> NoError]]
    /\ hosted = [i \in Instances |-> "none"]
    /\ ports = [i \in Instances |-> NoPorts] /\ losing = {}
    /\ \/ gate = "absent" /\ driver = "absent"
       \/ gate = "idle" /\ driver = "running"
    /\ controller = "reports"
    /\ doomed = FALSE
    /\ faults = 0

-----------------------------------------------------------------------------
(* Shared helpers.                                                         *)

\* Mutant: a worker that outlives its group goes on reporting its phase.
PhaseAnytime(i, p) == [comp EXCEPT ![i].phase = p]

\* status::phase: ignored once the group is terminal or the instance was
\* given up.
Phase(i, p) ==
    IF host \in HostTerminal \/ comp[i].phase = "Unresponsive" THEN comp
    ELSE [comp EXCEPT ![i].phase = p]

\* Coordinator::record: the first error of an instance is kept.
Record(table, e) ==
    IF e.instance = 0 THEN table
    ELSE [table EXCEPT ![e.instance] =
            [phase |-> "Failed",
             error |-> IF @.error = NoError THEN e ELSE @.error]]

\* Gate::stop and Gate::mark_stop, as far as the group sees them.
GateStopped == IF gate = "absent" THEN gate ELSE "stopped"

\* Shutdown::hosted_event: the first event is retained.
Retained(table, i, event) ==
    IF table[i] = "none" THEN [table EXCEPT ![i] = event] ELSE table

\* A stop or a loss is too late for the final check only after it.
BeforeFinalCheck ==
    coord.at \in {"collect", "checkPrepared", "waitCommit", "commit",
                  "checkCommitted", "waitActivate", "checkActivated"}

Send(event) == events' = IF Closed THEN events ELSE Append(events, event)

Failure(e) == [kind |-> "Failure", error |-> e, from |-> e.instance]
Event(kind, i) == [kind |-> kind, error |-> NoError, from |-> i]

\* A worker task drops its component and with it the endpoints.  By then the
\* admission is withdrawn or the context is shut down, and an event that was
\* retained stays: ManagedPort::drop adds nothing to it.
ComponentGone(i) ==
    /\ ports' = [ports EXCEPT ![i] = NoPorts]
    /\ UNCHANGED <<hosted, losing, gate, doomed>>

-----------------------------------------------------------------------------
(* Workers.  `at' names the await a worker is in:                          *)
(*   open, create, prepare, admit, activation, run   the lifecycle         *)
(*   awaitOpen, awaitCreate, await   a reported interruption, waiting for  *)
(*                                   the group's stop                      *)
(*   stop                            the stop hook                         *)
(*   drop                            an unwound component is dropped        *)
(*   done, crashed, aborted          task over: returned, panicked, dropped*)

Over == {"done", "crashed", "aborted"}

StopSeen == commands \in StopReasons

At(i, at) == worker' = [worker EXCEPT ![i].at = at]

\* Worker::run up to the opened context: a stop, a failed open, or a context
\* that is attached to the gate, which a stop received meanwhile closes.
OpenStopped(i) ==
    /\ worker[i].at = "open"
    /\ StopSeen
    /\ At(i, "done")
    /\ UNCHANGED <<status, watches, queues, held, shared, peers>>

OpenFails(i) ==
    /\ worker[i].at = "open"
    /\ Send(Failure(HostError("ContextOpen", i)))
    /\ At(i, IF Closed THEN "done" ELSE "awaitOpen")
    /\ UNCHANGED <<status, watches, control, held, shared, peers>>

Opened(i) ==
    /\ worker[i].at = "open"
    /\ Send(Event("Opened", i))
    /\ At(i, IF Closed THEN "done" ELSE "create")
    /\ hosted' = IF Closed THEN Retained(hosted, i, "StopRequested")
                 ELSE hosted
    /\ gate' = IF hosted'[i] # "none" THEN GateStopped ELSE gate
    /\ UNCHANGED <<status, watches, control, held, ports, losing, doomed, peers>>

\* Mutant: a component that reported its own failure is not stopped.
GetsStopHookUnreported(w) ==
    w.at \notin {"create", "awaitCreate", "await"} /\ ~w.panicked

\* A component that exists and did not panic gets its stop hook.
GetsStopHook(w) == w.at \notin {"create", "awaitCreate"} /\ ~w.panicked

\* Mutant: the stop hook runs, and the worker waits for the stop once more.
StoppingAgain(w) == [w EXCEPT !.stops = @ + 1]

\* The worker in its stop hook.
Stopping(w) == [w EXCEPT !.at = "stop", !.stops = @ + 1]

\* The end of an interruption: the context is shut down; the worker enters the
\* stop hook or, when there is none, drops what it has of the component.
AfterInterruption(i, w) ==
    /\ worker' = [worker EXCEPT ![i] =
            IF GetsStopHook(w) THEN Stopping(w)
            ELSE [w EXCEPT !.at = IF w.made THEN "drop" ELSE "done"]]
    /\ comp' = IF GetsStopHook(w) THEN Phase(i, "Stopping") ELSE comp
    /\ hosted' = Retained(hosted, i, "StopRequested")
    /\ gate' = GateStopped
    /\ UNCHANGED <<host, ports, losing, doomed>>

\* finish_interruption for an interruption that is reported: the event is sent
\* and the worker waits for the group's stop, unless nobody listens any more.
\* Monitor::during has stopped the gate if it was the one interrupted.
Report(i, w, event, during) ==
    /\ Send(event)
    /\ IF Closed THEN AfterInterruption(i, w)
       ELSE /\ worker' = [worker EXCEPT ![i] =
                    [w EXCEPT !.at = IF w.at = "create" THEN "awaitCreate"
                                     ELSE "await"]]
            /\ gate' = IF during THEN GateStopped ELSE gate
            /\ UNCHANGED <<status, hosted, ports, losing, doomed>>
    /\ UNCHANGED <<watches, control, held, peers>>

Hooks == {"create", "prepare", "admit", "run"}

\* Monitor::during, first branch: the group's stop interrupts the hook.
HookStopped(i) ==
    /\ worker[i].at \in Hooks
    /\ StopSeen
    /\ AfterInterruption(i, worker[i])
    /\ UNCHANGED <<watches, queues, held, peers>>

\* Monitor::during and Monitor::activation: a retained context event
\* interrupts; activation looks at it before it looks at the command.
HostedSeen(i) ==
    /\ worker[i].at \in Hooks \cup {"activation"}
    /\ hosted[i] # "none"
    /\ Report(i, worker[i],
              IF hosted[i] = "StopRequested" THEN Event("StopRequested", i)
              ELSE Failure(HostError("ReadinessLost", i)),
              worker[i].at # "activation")

\* Monitor::during, last branch: the hook itself fails or unwinds.  Only an
\* unwound hook of an existing component makes a difference to the worker.
FailureCodes(at) ==
    CASE at = "create"  -> {"Factory"}
      [] at = "prepare" -> {"Prepare", "Panic"}
      [] at = "run"     -> {"Run", "Panic"}

HookFails(i) ==
    /\ worker[i].at \in {"create", "prepare", "run"}
    /\ \E code \in FailureCodes(worker[i].at) :
            Report(i, [worker[i] EXCEPT !.panicked = (code = "Panic")],
                   Failure(HostError(code, i)), TRUE)

\* The run hook returns although nobody asked the group to stop: `during' was
\* not interrupted and the gate stays as it is.
RunReturns(i) ==
    /\ worker[i].at = "run"
    /\ Report(i, worker[i], Failure(HostError("UnexpectedExit", i)), FALSE)

Created(i) ==
    /\ worker[i].at = "create"
    /\ worker' = [worker EXCEPT ![i].at = "prepare", ![i].made = TRUE]
    /\ comp' = Phase(i, "Preparing")
    /\ UNCHANGED <<host, watches, queues, held, shared, peers>>

\* The prepare hook opened its declared endpoint.
HookPrepared(i) ==
    /\ worker[i].at = "prepare"
    /\ At(i, "admit")
    /\ ports' = [ports EXCEPT ![i].live = TRUE]
    /\ UNCHANGED <<status, watches, queues, held, hosted, losing, gate, doomed,
                   peers>>

\* prepare_admission: refused while shutting down or without a live handle.
AdmissionRefused(i) ==
    /\ worker[i].at = "admit"
    /\ hosted[i] # "none" \/ ~ports[i].live
    /\ Report(i, worker[i], Failure(HostError("Admission", i)), TRUE)

PrepareAdmission(i) ==
    /\ worker[i].at = "admit"
    /\ hosted[i] = "none" /\ ports[i].live
    /\ IF Closed
       THEN /\ AfterInterruption(i, worker[i])
            /\ UNCHANGED events
       ELSE /\ At(i, "activation")
            /\ ports' = [ports EXCEPT ![i].admission = "prepared"]
            /\ comp' = Phase(i, "Prepared")
            /\ Send(Event("Prepared", i))
            /\ UNCHANGED <<host, hosted, losing, gate, doomed>>
    /\ UNCHANGED <<watches, control, held, peers>>

\* Mutant: activation looks at the command first.
ActivationRunFirst(i) ==
    /\ worker[i].at = "activation"
    /\ commands = "Run"
    /\ At(i, "run")
    /\ comp' = Phase(i, "Running")
    /\ UNCHANGED <<host, watches, queues, held, shared, peers>>

\* Monitor::activation: the command watch, once no context event is retained.
ActivationRun(i) ==
    /\ worker[i].at = "activation"
    /\ hosted[i] = "none"
    /\ commands = "Run"
    /\ At(i, "run")
    /\ comp' = Phase(i, "Running")
    /\ UNCHANGED <<host, watches, queues, held, shared, peers>>

ActivationStopped(i) ==
    /\ worker[i].at = "activation"
    /\ hosted[i] = "none"
    /\ StopSeen
    /\ AfterInterruption(i, worker[i])
    /\ UNCHANGED <<watches, queues, held, peers>>

\* The reported interruption ends with the group's stop.
AwaitOpenEnds(i) ==
    /\ worker[i].at = "awaitOpen"
    /\ StopSeen
    /\ At(i, "done")
    /\ UNCHANGED <<status, watches, queues, held, shared, peers>>

AwaitEnds(i) ==
    /\ worker[i].at \in {"await", "awaitCreate"}
    /\ StopSeen
    /\ AfterInterruption(i, worker[i])
    /\ UNCHANGED <<watches, queues, held, peers>>

\* The stop hook returns, or fails or unwinds; its component is dropped.
StopHookEnds(i) ==
    /\ worker[i].at = "stop"
    /\ At(i, "done")
    /\ ComponentGone(i)
    /\ UNCHANGED <<status, watches, queues, held, peers>>

StopHookFails(i) ==
    /\ worker[i].at = "stop"
    /\ worker' = [worker EXCEPT ![i].at = "done",
                                ![i].error = HostError("StopHook", i)]
    /\ ComponentGone(i)
    /\ UNCHANGED <<status, watches, queues, held, peers>>

\* An unwound component gets no stop hook.
Dropped(i) ==
    /\ worker[i].at = "drop"
    /\ At(i, "done")
    /\ ComponentGone(i)
    /\ UNCHANGED <<status, watches, queues, held, peers>>

\* Dropping an interrupted hook's future, or the component after its stop hook
\* or after a hook that unwound, runs destructors of user code outside the
\* guard: a panic there ends the task.
Crash(i) ==
    /\ \/ worker[i].at \in {"stop", "drop"}
       \/ /\ worker[i].at \in {"prepare", "run"}
          /\ StopSeen \/ hosted[i] # "none"
    /\ At(i, "crashed")
    /\ ComponentGone(i)
    /\ UNCHANGED <<status, watches, queues, held, peers>>

\* Dropping the coordinator aborts the tasks it did not join.
Abort(i) ==
    /\ Closed
    /\ worker[i].at \notin Over
    /\ At(i, "aborted")
    /\ ComponentGone(i)
    /\ UNCHANGED <<status, watches, queues, held, peers>>

\* ManagedPort::drop of an endpoint that a hook or detached work lets go: under
\* the lock of the ports the admission is taken and its announcement ends ...
PortDropped(i) ==
    /\ ports[i].live
    /\ ports' = [ports EXCEPT ![i] = NoPorts]
    /\ losing' = IF ports[i].admission = "none" THEN losing
                 ELSE losing \cup {i}
    /\ UNCHANGED <<status, watches, queues, held, worker, hosted, gate, doomed,
                   peers>>

\* ... and then the loss is retained, which worker and coordinator look for
\* without that lock.
LossRetained(i) ==
    /\ i \in losing
    /\ losing' = losing \ {i}
    /\ hosted' = Retained(hosted, i, "ReadinessLost")
    /\ gate' = GateStopped
    /\ doomed' = (doomed \/ BeforeFinalCheck)
    /\ UNCHANGED <<status, watches, queues, held, worker, ports, peers>>

\* A stop query arrives over the transport (Shutdown::trigger), from the
\* moment the context being opened answers it.
TransportStop(i) ==
    /\ worker[i].at \notin {"awaitOpen"} \cup Over
    /\ hosted[i] = "none"
    /\ hosted' = Retained(hosted, i, "StopRequested")
    /\ gate' = IF worker[i].at = "open" THEN gate ELSE GateStopped
    /\ doomed' = (doomed \/ BeforeFinalCheck)
    /\ UNCHANGED <<status, watches, queues, held, worker, ports, losing, peers>>

\* Steps the scheduler takes, steps a cooperative hook takes, and disturbances.
WorkerStep(i) ==
    \/ OpenStopped(i) \/ Opened(i)
    \/ HookStopped(i) \/ HostedSeen(i) \/ Created(i)
    \/ AdmissionRefused(i) \/ PrepareAdmission(i)
    \/ ActivationRun(i) \/ ActivationStopped(i)
    \/ AwaitOpenEnds(i) \/ AwaitEnds(i) \/ Abort(i) \/ LossRetained(i)

HookStep(i) ==
    HookPrepared(i) \/ StopHookEnds(i) \/ StopHookFails(i) \/ Dropped(i)
        \/ Crash(i)

HookFault(i) ==
    \/ OpenFails(i) \/ HookFails(i) \/ RunReturns(i)
    \/ PortDropped(i) \/ TransportStop(i)

-----------------------------------------------------------------------------
(* The coordinator.  `coord.at' names where it is:                         *)
(*   collect, waitCommit, waitActivate, serve       its select loops       *)
(*   checkPrepared, checkCommitted, checkActivated  check_admission        *)
(*   commit, release                                between them           *)
(*   dropReady, dropTickets, broadcast, shutContexts   the head of cleanup *)
(*   cleanup, cleanupJoin, joinDriver, terminal     its loop, about to     *)
(*          take an event or after the queue was found empty, and its end  *)

Waiting == {"collect", "waitCommit", "waitActivate", "serve"}

Finished(i) == i \in pending /\ worker[i].at \in {"done", "crashed"}

\* Mutant: a task that unwound counts as one that returned.
JoinedQuietly(i) == worker[i].error

\* The join result of a task: a panic, the error it returned, or nothing.
Joined(i) ==
    IF worker[i].at = "crashed" THEN HostError("Panic", i) ELSE worker[i].error

Goto(at) == coord' = [coord EXCEPT !.at = at]

First(S) == CHOOSE i \in S : \A j \in S : i <= j

\* Mutant: only the tickets that were not committed are dropped.
NextToDropTickets(admissions, rest) ==
    IF rest # {} THEN "dropTickets" ELSE "broadcast"

\* What Coordinator::cleanup drops next before it broadcasts the stop: a ready
\* admission, then a ticket.
NextToDrop(admissions, rest) ==
    CASE admissions # {} -> "dropReady"
      [] admissions = {} /\ rest # {} -> "dropTickets"
      [] OTHER -> "broadcast"

\* Coordinator::run after startup or service ended with `primary', and the
\* first lines of Coordinator::cleanup: the gate is stopped, the failure
\* recorded and the group Stopping.  Nobody reads the gate and the status
\* together.
Cleanup(primary, table, unjoined) ==
    /\ coord' = [coord EXCEPT !.at = NextToDrop(ready, tickets'),
                              !.primary = primary]
    /\ host' = "Stopping"
    /\ comp' = Record(table, primary)
    /\ pending' = unjoined
    /\ gate' = GateStopped
    /\ UNCHANGED <<watches, contexts, ready, worker, hosted, losing, doomed,
                   peers>>

GoCleanup(primary) ==
    UNCHANGED <<tickets, ports>> /\ Cleanup(primary, comp, pending)

\* Branch 1 of every select loop: the handle's stop.
SeeStop ==
    /\ coord.at \in Waiting
    /\ stop
    /\ GoCleanup(NoError)
    /\ UNCHANGED <<queues>>

\* Branch 2: Coordinator::observe.
SeeEvent ==
    /\ coord.at \in Waiting
    /\ ~stop /\ events # <<>>
    /\ events' = Tail(events)
    /\ LET e == Head(events) IN
       \/ /\ e.kind = "Opened"
          /\ contexts' = contexts \cup {e.from}
          /\ UNCHANGED <<status, watches, coord, tickets, ready, pending,
                         worker, shared, peers>>
       \/ /\ e.kind = "Prepared"
          /\ tickets' = tickets \cup {e.from}
          /\ IF tickets' = Instances THEN Goto("checkPrepared")
             ELSE UNCHANGED coord
          /\ UNCHANGED <<status, watches, contexts, ready, pending, worker,
                         shared, peers>>
       \/ e.kind = "Failure" /\ GoCleanup(e.error)
       \/ e.kind = "StopRequested" /\ GoCleanup(NoError)
    /\ UNCHANGED control

\* Every event sender is gone, which the event branch sees first.
SendersGone == \A i \in Instances : worker[i].at \in Over

\* Coordinator::early_exit.
EarlyExit(i) ==
    LET e == IF Joined(i) = NoError THEN HostError("UnexpectedExit", i)
             ELSE Joined(i)
    IN  /\ UNCHANGED <<tickets, ports>>
        /\ Cleanup(e, Record(comp, e), pending \ {i})

\* Branch 3: a task ended before anyone asked it to.
SeeJoin ==
    /\ coord.at \in Waiting
    /\ ~stop /\ events = <<>>
    /\ \E i \in Instances :
        /\ Finished(i)
        /\ IF SendersGone THEN GoCleanup(HostError("UnexpectedExit", 0))
           ELSE EarlyExit(i)
    /\ UNCHANGED <<queues>>

Quiet ==
    /\ ~stop /\ events = <<>>
    /\ \A i \in Instances : ~Finished(i)

\* Branch 4: the stage the coordinator waits for.
Expected == IF coord.at = "waitCommit" THEN "Commit" ELSE "Activate"

SeeStage ==
    /\ coord.at \in {"waitCommit", "waitActivate"}
    /\ Quiet
    /\ control # <<>>
    /\ Head(control).stage = Expected
    /\ control' = Tail(control)
    /\ Goto(IF coord.at = "waitCommit" THEN "commit" ELSE "checkActivated")
    /\ UNCHANGED <<status, watches, events, contexts, tickets, ready,
                   pending, worker, shared, peers>>

\* Branch 4: an abort, or a request out of order (admission::reject).
SeeReject ==
    /\ coord.at \in Waiting
    /\ Quiet
    /\ control # <<>>
    /\ ~(coord.at \in {"waitCommit", "waitActivate"}
            /\ Head(control).stage = Expected)
    /\ control' = Tail(control)
    /\ GoCleanup(IF Head(control).stage = "Abort" THEN Head(control).error
                 ELSE HostError("Admission", 0))
    /\ UNCHANGED events

\* Driver::serve has returned, or can: a stopped gate ends it.
DriverOver ==
    driver # "aborting" /\ (driver = "running" => gate = "stopped")

\* Branch 4: every request sender is gone; serve only stops listening.
SeeControllerGone ==
    /\ coord.at \in Waiting \ {"serve"}
    /\ Quiet
    /\ control = <<>> /\ controller = "gone"
    /\ DriverOver
    /\ GoCleanup(NoError)
    /\ UNCHANGED <<queues>>

\* The startup deadline; the future it cancels is always at an await.
StartupExpires ==
    /\ coord.at \in Waiting \ {"serve"}
    /\ GoCleanup(HostError("Timeout", 0))
    /\ UNCHANGED <<queues>>

-----------------------------------------------------------------------------
(* Admission: check_admission, the commit loop and the release.            *)

\* check_admission finds nothing: no stop, no retained event, no queued
\* event, no ended task.  Everything it reads only ever goes from absent to
\* present, so one look at all of it is as good as one after the other.
AdmissionHolds ==
    Quiet /\ \A i \in contexts : hosted[i] = "none"

\* ... or it finds something: the first in the order of the code.
AdmissionFails ==
    LET lost == {i \in contexts : hosted[i] # "none"}
        first == First(lost)
    IN  \/ stop /\ GoCleanup(NoError) /\ UNCHANGED events
        \/ /\ ~stop /\ lost # {}
           /\ GoCleanup(IF hosted[first] = "ReadinessLost"
                        THEN HostError("ReadinessLost", first) ELSE NoError)
           /\ UNCHANGED events
        \/ /\ ~stop /\ lost = {} /\ events # <<>>
           /\ GoCleanup(Head(events).error)
           /\ events' = Tail(events)
        \/ /\ ~stop /\ lost = {} /\ events = <<>>
           /\ \E i \in Instances : Finished(i) /\ EarlyExit(i)
           /\ UNCHANGED events

CheckFails ==
    /\ coord.at \in {"checkPrepared", "checkCommitted", "checkActivated"}
    /\ ~AdmissionHolds
    /\ AdmissionFails
    /\ UNCHANGED control

\* Reports are published and the group is Prepared.
CheckPrepared ==
    /\ coord.at = "checkPrepared"
    /\ AdmissionHolds
    /\ reports' = TRUE
    /\ host' = "Prepared"
    /\ Goto("waitCommit")
    /\ UNCHANGED <<comp, stop, outcome, commands, acked, queues, contexts,
                   tickets, ready, pending, worker, shared, peers>>

\* One turn of the commit loop: commit_admission of the next ticket, under the
\* lock of its ports; refused when the ticket is stale or its context is
\* shutting down.  A refused ticket is dropped on the way out.
CommitStopped ==
    /\ coord.at = "commit"
    /\ stop
    /\ GoCleanup(NoError)
    /\ UNCHANGED <<queues>>

Committable(i) == ports[i].admission = "prepared" /\ hosted[i] = "none"

CommitRefused ==
    /\ coord.at = "commit"
    /\ ~stop /\ coord.next \notin losing /\ ~Committable(coord.next)
    /\ tickets' = tickets \ {coord.next}
    /\ ports' = [ports EXCEPT ![coord.next].admission = "none"]
    /\ Cleanup(HostError("Activate", coord.next), comp, pending)
    /\ UNCHANGED <<queues>>

Commit ==
    /\ coord.at = "commit"
    /\ ~stop /\ coord.next \notin losing /\ Committable(coord.next)
    /\ ports' = [ports EXCEPT ![coord.next].admission = "ready"]
    /\ tickets' = tickets \ {coord.next}
    /\ ready' = ready \cup {coord.next}
    /\ comp' = Phase(coord.next, "Ready")
    /\ coord' = [coord EXCEPT !.next = @ + 1,
                              !.at = IF coord.next = N THEN "checkCommitted"
                                     ELSE "commit"]
    /\ UNCHANGED <<host, watches, queues, contexts, pending, worker, hosted,
                   losing, gate, doomed, peers>>

\* Mutant: step admission opens with the commit instead of the release.
CheckCommittedReady ==
    /\ coord.at = "checkCommitted"
    /\ AdmissionHolds
    /\ host' = "Committed"
    /\ acked' = TRUE
    /\ gate' = IF gate = "idle" THEN "ready" ELSE gate
    /\ Goto("waitActivate")
    /\ UNCHANGED <<comp, stop, outcome, commands, reports, queues, contexts,
                   tickets, ready, pending, worker, hosted, ports, losing,
                   doomed, peers>>

CheckCommitted ==
    /\ coord.at = "checkCommitted"
    /\ AdmissionHolds
    /\ host' = "Committed"
    /\ acked' = TRUE
    /\ Goto("waitActivate")
    /\ UNCHANGED <<comp, stop, outcome, commands, reports, queues, contexts,
                   tickets, ready, pending, worker, shared, peers>>

\* Mutant: the group is released without a last look.
CheckActivatedBlind ==
    /\ coord.at = "checkActivated"
    /\ Goto("release")
    /\ UNCHANGED <<status, watches, queues, contexts, tickets, ready,
                   pending, worker, shared, peers>>

\* The final check, and then the release: a loss between the two, or before a
\* worker's first poll of `run', is not seen any more.
CheckActivated ==
    /\ coord.at = "checkActivated"
    /\ AdmissionHolds
    /\ Goto("release")
    /\ UNCHANGED <<status, watches, queues, contexts, tickets, ready,
                   pending, worker, shared, peers>>

\* Mutant: Gate::activate of a stopped gate.
ActivatedAgain == IF gate = "absent" THEN gate ELSE "ready"

\* Gate::activate: a stopped gate stays stopped.
Activated == IF gate = "idle" THEN "ready" ELSE gate

Release ==
    /\ coord.at = "release"
    /\ gate' = Activated
    /\ host' = "Running"
    /\ commands' = "Run"
    /\ Goto("serve")
    /\ UNCHANGED <<comp, stop, outcome, reports, acked, queues, contexts,
                   tickets, ready, pending, worker, hosted, ports, losing,
                   doomed, peers>>

-----------------------------------------------------------------------------
(* Coordinator::cleanup.                                                   *)

\* The ready admissions are dropped, one after the other, each under the lock
\* of its ports, and then the tickets; workers go on in between.
DropReady ==
    /\ coord.at = "dropReady"
    /\ First(ready) \notin losing
    /\ ready' = ready \ {First(ready)}
    /\ ports' = [ports EXCEPT ![First(ready)].admission = "none"]
    /\ Goto(NextToDrop(ready', tickets))
    /\ UNCHANGED <<status, watches, queues, contexts, tickets, pending, worker,
                   hosted, losing, gate, doomed, peers>>

DropTicket ==
    /\ coord.at = "dropTickets"
    /\ First(tickets) \notin losing
    /\ tickets' = tickets \ {First(tickets)}
    /\ ports' = [ports EXCEPT ![First(tickets)].admission = "none"]
    /\ Goto(NextToDrop(ready, tickets'))
    /\ UNCHANGED <<status, watches, queues, contexts, ready, pending, worker,
                   hosted, losing, gate, doomed, peers>>

\* The StopReason of Coordinator::run.  Run was commanded if and only if the
\* group was served.
Reason ==
    CASE coord.primary = NoError -> "Requested"
      [] coord.primary # NoError /\ commands = "Run" -> "ComponentFailure"
      [] OTHER -> "StartupFailure"

BroadcastStop ==
    /\ coord.at = "broadcast"
    /\ commands' = Reason
    /\ Goto("shutContexts")
    /\ UNCHANGED <<status, stop, outcome, reports, acked, queues, contexts,
                   tickets, ready, pending, worker, shared, peers>>

\* The top of the cleanup loop, which ends when every task is joined, and else
\* looks at the queue first and, if there is nothing in it, at the tasks.
LoopTop(unjoined, queue) ==
    CASE unjoined = {} -> "joinDriver"
      [] unjoined # {} /\ queue # <<>> -> "cleanup"
      [] OTHER -> "cleanupJoin"

\* ModuleContext::shutdown_now of one context after the other; one that has
\* retained an event already is not changed by it.
ShutContext ==
    LET open(table) == {i \in contexts : table[i] = "none"}
    IN  /\ coord.at = "shutContexts"
        /\ hosted' = IF open(hosted) = {} THEN hosted
                     ELSE Retained(hosted, First(open(hosted)), "StopRequested")
        /\ IF open(hosted') = {} THEN Goto(LoopTop(pending, events))
           ELSE UNCHANGED coord
        /\ UNCHANGED <<status, watches, queues, contexts, tickets, ready,
                       pending, worker, ports, losing, gate, doomed, peers>>

\* One event of the cleanup loop.  A late context is shut down, a late ticket
\* dropped, a late failure recorded and, unless it repeats the primary one,
\* listed.
CleanupEvent ==
    /\ coord.at \in {"cleanup", "cleanupJoin"}
    /\ events # <<>>
    /\ Head(events).kind = "Prepared" => Head(events).from \notin losing
    /\ events' = Tail(events)
    /\ LET e == Head(events)
           repeats == /\ coord.primary # NoError
                      /\ coord.primary = e.error
       IN  /\ hosted' = IF e.kind = "Opened"
                        THEN Retained(hosted, e.from, "StopRequested")
                        ELSE hosted
           /\ ports' = IF e.kind = "Prepared"
                       THEN [ports EXCEPT ![e.from].admission = "none"]
                       ELSE ports
           /\ comp' = IF e.kind = "Failure" THEN Record(comp, e.error)
                      ELSE comp
           /\ coord' = [coord EXCEPT
                    !.at = LoopTop(pending, events'),
                    !.cleanup = IF e.kind = "Failure" /\ ~repeats
                                THEN Append(@, e.error) ELSE @]
    /\ UNCHANGED <<host, watches, control, contexts, tickets, ready, pending,
                   worker, losing, gate, doomed, peers>>

\* The select, having found no event, takes a task that ended, whatever was
\* queued in the meantime.
CleanupJoin ==
    /\ coord.at = "cleanupJoin"
    /\ \E i \in Instances :
        /\ Finished(i)
        /\ LET e == Joined(i)
               table == IF e = NoError THEN comp ELSE Record(comp, e)
           IN  /\ comp' = [table EXCEPT ![i].phase =
                            IF table[i].error # NoError THEN "Failed"
                            ELSE "Stopped"]
               /\ coord' = [coord EXCEPT
                                !.at = LoopTop(pending \ {i}, events),
                                !.cleanup = IF e = NoError THEN @
                                            ELSE Append(@, e)]
        /\ pending' = pending \ {i}
    /\ UNCHANGED <<host, watches, queues, contexts, tickets, ready, worker,
                   shared, peers>>

\* The end of Coordinator::run: contexts released, final phase and outcome
\* published, and the coordinator dropped with its queues and the tickets that
\* are still in them.
Publish(o, table, cleanup) ==
    /\ outcome' = o
    /\ host' = o.kind
    /\ comp' = table
    /\ contexts' = {}
    /\ coord' = [coord EXCEPT !.at = "terminal", !.cleanup = cleanup]
    /\ gate' = GateStopped
    /\ ports' = [i \in Instances |->
                    IF \E k \in DOMAIN events :
                            events[k].kind = "Prepared" /\ events[k].from = i
                    THEN [ports[i] EXCEPT !.admission = "none"]
                    ELSE ports[i]]
    /\ events' = <<>> /\ control' = <<>>
    /\ UNCHANGED <<stop, commands, reports, acked, tickets, ready, pending,
                   worker, hosted, losing, doomed, controller>>

\* The driver has not joined when the deadline is over: nothing is known of
\* anyone.
DriverUnjoined ==
    /\ driver \in {"running", "aborting"}
    /\ driver' = "done"
    /\ Publish([kind |-> "Unresponsive", primary |-> coord.primary,
                instances |-> Instances],
               comp, coord.cleanup)

\* Mutant: the driver is awaited without the deadline.
DriverAwaited == FALSE

\* The deadline is over while the coordinator waits for the driver alone.
DriverExpires ==
    /\ coord.at = "joinDriver"
    /\ DriverUnjoined

GiveUp(table) ==
    [i \in Instances |-> IF i \in pending
                         THEN [table[i] EXCEPT !.phase = "Unresponsive"]
                         ELSE table[i]]

\* The outcome, once there is no driver to wait for.
Conclude ==
    /\ DriverOver
    /\ UNCHANGED driver
    /\ LET failures == IF driver = "panicked"
                       THEN Append(coord.cleanup, HostError("Step", 0))
                       ELSE coord.cleanup
       IN  \/ /\ pending # {}
              /\ Publish([kind |-> "Unresponsive", primary |-> coord.primary,
                          instances |-> pending],
                         GiveUp(comp), failures)
           \/ /\ pending = {}
              /\ coord.primary # NoError
              /\ Publish([kind |-> "Failed", primary |-> coord.primary,
                          instances |-> {}], comp, failures)
           \/ /\ pending = {}
              /\ coord.primary = NoError /\ failures # <<>>
              /\ Publish([kind |-> "Failed", primary |-> Head(failures),
                          instances |-> {}], comp, Tail(failures))
           \/ /\ pending = {}
              /\ coord.primary = NoError /\ failures = <<>>
              /\ Publish([kind |-> "Stopped", primary |-> NoError,
                          instances |-> {}], comp, failures)

Finish ==
    /\ coord.at = "joinDriver"
    /\ Conclude

\* The stop deadline ends the loop.  It is the driver's deadline too, so the
\* driver is not waited for any more: it has returned by now or it has not.
StopExpires ==
    /\ coord.at \in {"cleanup", "cleanupJoin"}
    /\ Conclude \/ DriverUnjoined

CoordinatorStep ==
    \/ SeeStop \/ SeeEvent \/ SeeJoin \/ SeeStage
    \/ SeeReject \/ SeeControllerGone
    \/ CheckFails \/ CheckPrepared \/ CommitStopped \/ CommitRefused
    \/ Commit \/ CheckCommitted \/ CheckActivated \/ Release
    \/ DropReady \/ DropTicket \/ BroadcastStop \/ ShutContext
    \/ CleanupEvent \/ CleanupJoin \/ Finish

Expiry == StopExpires \/ DriverExpires

-----------------------------------------------------------------------------
(* The controller, the handle and the step driver.                         *)

\* HostControl::admit_local: wait for the reports, validate the graph, submit
\* one stage after the other, each after the previous acknowledgement.
SubmitCommit ==
    /\ controller = "reports"
    /\ reports /\ ~Closed /\ control = <<>>
    /\ control' = <<[stage |-> "Commit", error |-> NoError]>>
    /\ controller' = "commit"
    /\ UNCHANGED <<status, watches, events, held, worker, shared, driver>>

RejectGraph ==
    /\ controller = "reports"
    /\ reports /\ ~Closed /\ control = <<>>
    /\ control' = <<[stage |-> "Abort", error |-> HostError("Graph", 0)]>>
    /\ controller' = "gone"
    /\ UNCHANGED <<status, watches, events, held, worker, shared, driver>>

SubmitActivate ==
    /\ controller = "commit"
    /\ acked /\ ~Closed /\ control = <<>>
    /\ control' = <<[stage |-> "Activate", error |-> NoError]>>
    /\ controller' = "activate"
    /\ UNCHANGED <<status, watches, events, held, worker, shared, driver>>

\* Whoever holds the controller drops it, while the coordinator still looks.
ControllerDropped ==
    /\ controller # "gone"
    /\ host # "Stopping" /\ ~Closed
    /\ controller' = "gone"
    /\ UNCHANGED <<status, watches, queues, held, worker, shared, driver>>

\* HostHandle::stop, and its Drop, while the coordinator still looks.
HandleStop ==
    /\ ~stop /\ host # "Stopping" /\ ~Closed
    /\ stop' = TRUE
    /\ gate' = GateStopped
    /\ doomed' = (doomed \/ BeforeFinalCheck)
    /\ UNCHANGED <<status, outcome, commands, reports, acked, queues, held,
                   worker, hosted, ports, losing, peers>>

\* Driver::serve: a step fails and aborts the group.
StepFails ==
    /\ driver = "running" /\ gate = "ready"
    /\ driver' = "aborting"
    /\ gate' = "stopped"
    /\ UNCHANGED <<status, watches, queues, held, worker, hosted, ports,
                   losing, doomed, controller>>

DriverAborts ==
    /\ driver = "aborting"
    /\ control = <<>> \/ Closed
    /\ control' = IF Closed THEN control
                  ELSE <<[stage |-> "Abort", error |-> HostError("Step", 0)]>>
    /\ driver' = "done"
    /\ UNCHANGED <<status, watches, events, held, worker, shared, controller>>

\* The driver task unwinds: its Lifetime guard requests the group's stop.
DriverPanics ==
    /\ driver = "running"
    /\ driver' = "panicked"
    /\ stop' = TRUE
    /\ gate' = "stopped"
    /\ doomed' = (doomed \/ BeforeFinalCheck)
    /\ UNCHANGED <<status, outcome, commands, reports, acked, queues, held,
                   worker, hosted, ports, losing, controller>>

\* The group is over and nothing is left to run.
Ended ==
    /\ Closed /\ driver # "aborting"
    /\ \A i \in Instances : worker[i].at \in Over
    /\ UNCHANGED vars

GroupFault ==
    \/ RejectGraph \/ ControllerDropped \/ StepFails \/ DriverPanics
    \/ StartupExpires

Fault ==
    /\ faults < MaxFaults
    /\ faults' = faults + 1
    /\ GroupFault \/ \E i \in Instances : HookFault(i)

Step ==
    /\ \/ CoordinatorStep \/ Expiry
       \/ \E i \in Instances : WorkerStep(i) \/ HookStep(i)
       \/ SubmitCommit \/ SubmitActivate \/ HandleStop
       \/ DriverAborts
    /\ UNCHANGED faults

Next == Step \/ Fault \/ Ended

Spec == Init /\ [][Next]_vars

\* The coordinator task is scheduled, both stop deadlines are configured and
\* fire, and a thread inside ManagedPort::drop goes on.  Nothing is assumed of
\* hooks, workers or the driver.
FairSpec ==
    /\ Spec
    /\ WF_vars(CoordinatorStep /\ UNCHANGED faults)
    /\ WF_vars(Expiry /\ UNCHANGED faults)
    /\ \A i \in Instances : WF_vars(LossRetained(i) /\ UNCHANGED faults)

-----------------------------------------------------------------------------
(* Properties.                                                             *)

Codes == {"ContextOpen", "Factory", "Prepare", "Admission", "Run", "Panic",
          "ReadinessLost", "StopHook", "Activate", "UnexpectedExit", "Graph",
          "Timeout", "Step"}

Errors == [code : Codes, instance : 0..N] \cup {NoError}

\* Every variable has its type; in particular a stop hook runs at most once.
TypeOK ==
    /\ host \in {"Starting", "Prepared", "Committed", "Running", "Stopping"}
                \cup HostTerminal
    /\ comp \in [Instances ->
            [phase : {"Starting", "Preparing", "Prepared", "Ready", "Running",
                      "Stopping", "Stopped", "Failed", "Unresponsive"},
             error : Errors]]
    /\ stop \in BOOLEAN /\ reports \in BOOLEAN /\ acked \in BOOLEAN
    /\ commands \in {"Prepare", "Run"} \cup StopReasons
    /\ events \in Seq([kind : {"Opened", "Prepared", "Failure",
                                "StopRequested"},
                        error : Errors, from : Instances])
    /\ control \in Seq([stage : {"Commit", "Activate", "Abort"},
                         error : Errors])
    /\ Len(control) <= 1
    /\ contexts \subseteq Instances /\ tickets \subseteq Instances
    /\ ready \subseteq Instances /\ pending \subseteq Instances
    /\ losing \subseteq Instances
    /\ worker \in [Instances ->
            [at : {"open", "create", "prepare", "admit", "activation", "run",
                   "awaitOpen", "awaitCreate", "await", "stop", "drop"}
                  \cup Over,
             made : BOOLEAN, panicked : BOOLEAN, stops : 0..1, error : Errors]]
    /\ hosted \in [Instances -> {"none", "StopRequested", "ReadinessLost"}]
    /\ ports \in [Instances ->
            [live : BOOLEAN, admission : {"none", "prepared", "ready"}]]
    /\ gate \in {"absent", "idle", "ready", "stopped"}
    /\ driver \in {"absent", "running", "aborting", "panicked", "done"}
    /\ controller \in {"reports", "commit", "activate", "gone"}
    /\ doomed \in BOOLEAN
    /\ faults \in 0..MaxFaults

RunStarts(i) == worker[i].at # "run" /\ worker'[i].at = "run"

\* "Readiness lost before activation prevents every run", and so does a stop:
\* if either precedes the coordinator's final check_admission, then no run
\* hook of any component is ever polled.  A loss counts from when it is
\* retained, a moment after the announcement ended.
NoRunWhenDoomed == [][doomed => \A i \in Instances : ~RunStarts(i)]_vars

\* A run hook starts only after the readiness of every peer was committed, and
\* without its own only in two windows: the group is being stopped and the stop
\* is not broadcast yet, or the thread that drops the endpoint has not yet
\* retained the loss.
RunsAdmitted ==
    [][\A i \in Instances : RunStarts(i) =>
            /\ coord.next = N + 1
            /\ \/ ports[i].admission = "ready"
               \/ host = "Stopping" /\ i \notin ready
               \/ i \in losing]_vars

\* From the moment the stop is broadcast nobody in the group is announced as
\* ready, not even a component whose preparation was still under way, and a
\* joined component leaves no admission behind.  HostPhase::Stopping is
\* published before the admissions are dropped and does not say that much.
ReadinessWithdrawn ==
    /\ StopSeen => \A i \in Instances : ports[i].admission # "ready"
    /\ Closed => \A i \in Instances \ pending :
                    ports[i].admission = "none"

\* The terminal outcome accounts for every task: Stopped and Failed mean all
\* were joined, Unresponsive names at least those that were not; Stopped also
\* means that no join brought an error or a panic and none is recorded; the
\* failure that began the cleanup is the one reported, and the first one of
\* every other component is in the list of cleanup errors; and the final phase
\* of a joined component is Failed exactly if an error of it is recorded.
OutcomeIsHonest ==
    Closed =>
        /\ outcome.kind \in {"Stopped", "Failed"} => pending = {}
        /\ pending \subseteq outcome.instances
        /\ coord.primary # NoError => outcome.primary = coord.primary
        /\ \A i \in Instances :
            comp[i].error \in {NoError, outcome.primary}
                \/ \E k \in DOMAIN coord.cleanup :
                        coord.cleanup[k] = comp[i].error
        /\ outcome.kind = "Stopped" <=>
                outcome.primary = NoError /\ outcome.instances = {}
        /\ \A i \in Instances \ pending :
            /\ comp[i].phase = IF comp[i].error = NoError THEN "Stopped"
                               ELSE "Failed"
            /\ worker[i].at = "crashed" \/ worker[i].error # NoError =>
                    comp[i].error # NoError
            /\ comp[i].error # NoError => outcome.kind # "Stopped"

\* Once the terminal outcome is published the group's status never changes,
\* although workers that were given up may still be running.
StatusFrozen == [][Closed => UNCHANGED status]_vars

\* A task that returned ran its component's stop hook if and only if there was
\* a component and none of its hooks unwound: also after a partial prepare, and
\* never on a component that unwound.
StoppedIfUsable ==
    \A i \in Instances :
        /\ worker[i].at = "done" =>
                (worker[i].stops = 1 <=> worker[i].made /\ ~worker[i].panicked)
        /\ worker[i].panicked => worker[i].stops = 0

\* The two bounded queues never hold anyone up.  No worker waits for room for
\* an event, so one that failed cannot be kept from its stop by a coordinator
\* that is busy elsewhere; and a driver that wants to abort the group never
\* finds the one-place request queue occupied by a stage that nobody will read,
\* which would leave it and the coordinator waiting for each other.
QueuesSuffice ==
    /\ Len(events) <= EventCapacity
    /\ driver = "aborting" => control = <<>>

\* Steps are admitted only while no stop was requested and no context of the
\* group has retained a stop or a loss; the event source closes the gate
\* itself, before the coordinator hears of the event.
GateOpenMeansHealthy ==
    gate = "ready" => ~stop /\ \A i \in Instances : hosted[i] = "none"

\* A requested stop, and every cleanup that began for another reason, ends in
\* a terminal outcome whatever the hooks do, if the stop deadline is set.
StopEnds == (stop \/ host = "Stopping") ~> Closed

\* "The first failure in any component cancels the whole group and is kept as
\* `primary'": a group does not end as Stopped with a failure in its queue that
\* a worker sent and the coordinator did not look at.
FailuresHeard ==
    [][~Closed /\ Closed' /\ outcome'.kind = "Stopped" =>
            \A k \in DOMAIN events : events[k].kind # "Failure"]_vars

=============================================================================
