------------------------------ MODULE StepGate ------------------------------
(***************************************************************************)
(* Managed steps: the admission and commit gate, its callers, the driver   *)
(* that owns the scheduler, and the host that stops it                     *)
(* (crates/reiny/src/component/step and crates/reiny/src/step).            *)
(*                                                                         *)
(* Every critical section of the gate's mutex is one action.  What a       *)
(* critical section still owes after it unlocked, waking the observers and *)
(* publishing the clock, is kept in owed and paid by actions of its own.   *)
(* An attempt is named by its sequence number.                             *)
(***************************************************************************)
EXTENDS Integers, FiniteSets

CONSTANTS
    Callers,     \* threads holding a StepHandle
    MaxSeq,      \* stands for u64::MAX of State::sequence
    MaxTick,     \* stands for u64::MAX of next_index
    NodeCount,   \* nodes of the compiled plan, in scheduler order
    Local,       \* local handles may leave an attempt without a deadline
    Waiting      \* attempts some caller awaits with StepRun::wait

ASSUME StepGateAssumption ==
    /\ MaxSeq \in Nat /\ MaxTick \in Nat
    /\ NodeCount \in Nat \ {0}
    /\ Local \in BOOLEAN
    /\ Waiting \subseteq 0 .. (MaxSeq - 1)

Runs == 0 .. (MaxSeq - 1)

NoRun == MaxSeq     \* Option::None for an attempt

VARIABLES
    ready, stopped, seq, clock, active,   \* control.rs State, under the mutex
    lost,       \* Gate::lost
    owed,       \* notify_waiters and publish calls that are still to come
    published,  \* the value of the clock watch channel
    run,        \* the attempts: what was accepted, asked and retained
    caller,     \* where each caller is inside try_step
    chan,       \* the request channel to the driver
    sched,      \* StepScheduler: committed index and permanent fault
    drv,        \* the driver task
    waiter,     \* StepRun::wait futures
    host,       \* how far the host's stop has come
    ran         \* history: how many nodes each attempt has dispatched

gateVars == <<ready, stopped, seq, clock, active>>
vars == <<ready, stopped, seq, clock, active, lost, owed, published, run, caller,
          chan, sched, drv, waiter, host, ran>>

Results == {"none", "Committed", "CancelledBeforeDispatch", "TimedOutBeforeDispatch", "Failed"}

FailureKinds == {"none", "HostStopped", "Cancelled", "TimedOut", "WorkerLost", "NodeFailed"}

Phases == {"Starting", "Ready", "Running", "Faulted", "Stopped"}

DriverPCs == {"serve", "serveCheck", "recv", "servePark", "close", "tryRecv",
              "advReg", "advCheck", "advPoll", "advPark", "finish", "failStop",
              "abort", "exit", "done", "dropped"}

\* Mutant: the notification is enabled only when the task parks.
RegisteredWhenParked == {"servePark", "advPark"}

\* Where the driver holds an enabled Notified future of gate.changed.
Registered == {"serveCheck", "recv", "servePark", "advCheck", "advPoll", "advPark"}

\* Mutant: as RegisteredWhenParked, for StepRun::wait.
AwaitingWhenParked == {"park"}

\* Where StepRun::wait holds an enabled Notified future.
Awaiting == {"check", "looked", "park"}

\* An attempt that has not been accepted yet.
Fresh == [state |-> "none", tick |-> 0, bounded |-> FALSE, cancelled |-> FALSE,
          expired |-> FALSE, result |-> "none"]

\* A caller outside try_step.
Idle == [pc |-> "idle", seq |-> 0, ver |-> 0, index |-> 0]

\* A driver at the top of its serve loop.
Serving == [pc |-> "serve", run |-> NoRun, node |-> 0, reply |-> "none", kind |-> "none",
            woken |-> FALSE, drained |-> FALSE]

Init ==
    /\ ready = FALSE /\ stopped = FALSE /\ seq = 0 /\ active = NoRun
    /\ clock = [index |-> 0, phase |-> "Starting", ver |-> 0]
    /\ lost = FALSE /\ owed = {}
    /\ published = [index |-> 0, phase |-> "Starting"]
    /\ run = [r \in Runs |-> Fresh]
    /\ caller = [c \in Callers |-> Idle]
    /\ chan = [open |-> TRUE, senders |-> TRUE, items |-> {}]
    /\ sched = [index |-> 0, fault |-> FALSE]
    /\ drv = Serving
    /\ waiter = [r \in Runs |-> [pc |-> "idle", woken |-> FALSE]]
    /\ host = "running"
    /\ ran = [r \in Runs |-> 0]

-----------------------------------------------------------------------------
(* What every operation of the gate is made of *)

\* Mutant: a stop hides a fault.
SnapshotForgetsFault ==
    [index |-> clock.index,
     phase |-> IF stopped \/ lost THEN "Stopped"
               ELSE IF ready /\ clock.phase = "Starting" THEN "Ready"
               ELSE clock.phase]

\* Gate::snapshot: a stop or a loss overrides any phase but a fault.
Snapshot ==
    [index |-> clock.index,
     phase |-> IF clock.phase = "Faulted" THEN "Faulted"
               ELSE IF stopped \/ lost THEN "Stopped"
               ELSE IF ready /\ clock.phase = "Starting" THEN "Ready"
               ELSE clock.phase]

\* Gate::reason, and Gate::interruption when the gate is gone.
Reason(r) ==
    IF lost THEN "WorkerLost"
    ELSE IF stopped THEN "HostStopped"
    ELSE IF run[r].cancelled THEN "Cancelled"
    ELSE IF run[r].expired THEN "TimedOut"
    ELSE "none"

\* Gate::mark_stop: the lock is refused once the gate is gone.
MarkStop == stopped' = (stopped \/ ~lost)

\* A clock Arc is replaced: ver stands for the pointer identity.
NewClock(i, p) == [index |-> i, phase |-> p, ver |-> clock.ver + 1]

\* Settle attempt r under the lock: retain its result, free the slot and
\* replace the clock.  The notification and the publication follow.
Settle(r, result, i, p) ==
    /\ run' = [run EXCEPT ![r].result = IF @ = "none" THEN result ELSE @]
    /\ clock' = NewClock(i, p)
    /\ active' = NoRun
    /\ owed' = {"notify", "publish"}
    /\ UNCHANGED <<ready, stopped, seq, lost>>

\* Gate::finish, which returns silently when the gate is gone.
GateFinish(r, result, p) ==
    IF lost THEN UNCHANGED <<gateVars, lost, run, owed>>
            ELSE Settle(r, result, sched.index, p)

\* Mutant: the stop is not published.
GateStopQuietly ==
    /\ MarkStop
    /\ owed' = owed \cup {"notify"}
    /\ UNCHANGED <<ready, seq, clock, active, lost>>

\* Gate::stop: mark, then notify and publish.
GateStop ==
    /\ MarkStop
    /\ owed' = {"notify", "publish"}
    /\ UNCHANGED <<ready, seq, clock, active, lost>>

\* notify_waiters, the second half of every state change: it wakes exactly the
\* futures that are enabled by now.
Notify ==
    /\ "notify" \in owed
    /\ owed' = owed \ {"notify"}
    /\ drv' = [drv EXCEPT !.woken = @ \/ drv.pc \in Registered]
    /\ waiter' = [r \in Runs |->
                    [waiter[r] EXCEPT !.woken = @ \/ waiter[r].pc \in Awaiting]]
    /\ UNCHANGED <<gateVars, lost, published, run, caller, chan, sched, host, ran>>

\* Gate::publish samples the state inside the watch update.
Publish ==
    /\ "publish" \in owed
    /\ owed' = owed \ {"publish"}
    /\ published' = Snapshot
    /\ UNCHANGED <<gateVars, lost, run, caller, chan, sched, drv, waiter, host, ran>>

-----------------------------------------------------------------------------
(* The host: activation after admission, a stop that is first only marked by
   an event source, and the group stop *)

\* Gate::activate.
Activate ==
    /\ host = "running" /\ ~ready
    /\ ~lost /\ ~stopped
    /\ ready' = TRUE
    /\ owed' = owed \cup {"publish"}
    /\ UNCHANGED <<stopped, seq, clock, active, lost, published, run, caller, chan, sched,
                   drv, waiter, host, ran>>

\* Shutdown::hosted_event marks the gate before it publishes its event.
HostEvent ==
    /\ host = "running"
    /\ host' = "stopping"
    /\ MarkStop
    /\ UNCHANGED <<ready, seq, clock, active, lost, owed, published, run, caller, chan,
                   sched, drv, waiter, ran>>

\* The coordinator's cleanup stops the gate: after an event, a request, an
\* Abort of the driver or the driver's own loss.
HostStop ==
    /\ host \in {"running", "stopping"}
    /\ host' = "stopped"
    /\ GateStop
    /\ UNCHANGED <<published, run, caller, chan, sched, drv, waiter, ran>>

-----------------------------------------------------------------------------
(* Callers: StepHandle::try_step, StepRun::cancel and StepRun::wait *)

\* Mutant: attempt identities are not exhausted.
StartReadAnySequence(c) ==
    /\ chan.senders
    /\ caller[c].pc = "idle"
    /\ ~lost /\ clock.phase # "Faulted" /\ ~stopped /\ ready /\ active = NoRun
    /\ clock.index < MaxTick
    /\ caller' = [caller EXCEPT ![c] =
                     [pc |-> "read", seq |-> seq, ver |-> clock.ver, index |-> clock.index]]
    /\ UNCHANGED <<gateVars, lost, owed, published, run, chan, sched, drv, waiter, host, ran>>

\* Gate::start, first critical section and the checks on what it copied.  A
\* refusal changes nothing.
StartRead(c) ==
    /\ chan.senders
    /\ caller[c].pc = "idle"
    /\ ~lost /\ clock.phase # "Faulted" /\ ~stopped /\ ready /\ active = NoRun
    /\ clock.index < MaxTick
    /\ seq < MaxSeq
    /\ caller' = [caller EXCEPT ![c] =
                     [pc |-> "read", seq |-> seq, ver |-> clock.ver, index |-> clock.index]]
    /\ UNCHANGED <<gateVars, lost, owed, published, run, chan, sched, drv, waiter, host, ran>>

\* Gate::start, second critical section: refuse, go round again, or accept
\* the attempt with or without a deadline.
StartRefused(c) ==
    /\ caller[c].pc = "read"
    /\ \/ lost \/ stopped \/ active # NoRun
       \/ caller[c].seq # seq \/ caller[c].ver # clock.ver
    /\ caller' = [caller EXCEPT ![c] = Idle]
    /\ UNCHANGED <<gateVars, lost, owed, published, run, chan, sched, drv, waiter, host, ran>>

Accept(c, bounded) ==
    /\ seq' = caller[c].seq + 1
    /\ active' = caller[c].seq
    /\ clock' = NewClock(caller[c].index, "Running")
    /\ run' = [run EXCEPT ![caller[c].seq] =
                  [Fresh EXCEPT !.state = "accepted", !.tick = caller[c].index,
                                !.bounded = bounded]]
    /\ owed' = owed \cup {"publish"}
    /\ caller' = [caller EXCEPT ![c].pc = "send"]
    /\ UNCHANGED <<ready, stopped, lost, published, chan, sched, drv, waiter, host, ran>>

\* Mutant: the second section does not look whether anything has changed.
StartAcceptedStale(c, bounded) ==
    /\ caller[c].pc = "read"
    /\ Local \/ bounded
    /\ ~lost /\ ~stopped
    /\ Accept(c, bounded)

StartAccepted(c, bounded) ==
    /\ caller[c].pc = "read"
    /\ Local \/ bounded
    /\ ~lost /\ ~stopped /\ active = NoRun
    /\ caller[c].seq = seq /\ caller[c].ver = clock.ver
    /\ Accept(c, bounded)

\* The accepted request is sent; when the driver has closed its queue the
\* caller declares the supervisor gone and hands out no StepRun.
StartSend(c) ==
    /\ caller[c].pc = "send"
    /\ caller' = [caller EXCEPT ![c] = Idle]
    /\ IF chan.open
       THEN /\ chan' = [chan EXCEPT !.items = @ \cup {caller[c].seq}]
            /\ run' = [run EXCEPT ![caller[c].seq].state = "handed"]
            /\ UNCHANGED <<lost, owed>>
       ELSE /\ lost' = TRUE
            /\ owed' = owed \cup {"notify"}
            /\ UNCHANGED <<chan, run>>
    /\ UNCHANGED <<gateVars, published, sched, drv, waiter, host, ran>>

\* Every StepHandle is dropped.
DropHandles ==
    /\ chan.senders
    /\ \A c \in Callers : caller[c].pc = "idle"
    /\ chan' = [chan EXCEPT !.senders = FALSE]
    /\ UNCHANGED <<gateVars, lost, owed, published, run, caller, sched, drv, waiter, host, ran>>

\* Gate::cancel answering Requested.  The other answers change nothing.
Cancel(r) ==
    /\ run[r].state = "handed" /\ ~run[r].cancelled
    /\ ~lost /\ run[r].result = "none"
    /\ run' = [run EXCEPT ![r].cancelled = TRUE]
    /\ owed' = owed \cup {"notify"}
    /\ UNCHANGED <<gateVars, lost, published, caller, chan, sched, drv, waiter, host, ran>>

\* The attempt's deadline passes.
Expire(r) ==
    /\ run[r].state # "none" /\ run[r].bounded /\ ~run[r].expired
    /\ run[r].result = "none"
    /\ run' = [run EXCEPT ![r].expired = TRUE]
    /\ UNCHANGED <<gateVars, lost, owed, published, caller, chan, sched, drv, waiter, host, ran>>

\* StepRun::wait: enable the notification, look, park.
WaitEnable(r) ==
    /\ r \in Waiting /\ run[r].state = "handed"
    /\ \/ waiter[r].pc = "idle"
       \/ waiter[r].pc = "park" /\ waiter[r].woken
    /\ waiter' = [waiter EXCEPT ![r] = [pc |-> "check", woken |-> FALSE]]
    /\ UNCHANGED <<gateVars, lost, owed, published, run, caller, chan, sched, drv, host, ran>>

WaitCheck(r) ==
    /\ waiter[r].pc = "check"
    /\ waiter' = [waiter EXCEPT ![r].pc =
                     IF run[r].result # "none" \/ lost THEN "returned" ELSE "looked"]
    /\ UNCHANGED <<gateVars, lost, owed, published, run, caller, chan, sched, drv, host, ran>>

WaitPark(r) ==
    /\ waiter[r].pc = "looked"
    /\ waiter' = [waiter EXCEPT ![r].pc = "park"]
    /\ UNCHANGED <<gateVars, lost, owed, published, run, caller, chan, sched, drv, host, ran>>

-----------------------------------------------------------------------------
(* The driver: Driver::serve.  Its select is biased: gate.stopped() is polled
   before requests.recv(), and again only after a wake-up of its Notified. *)

\* gate.stopped() enables its notification, on entry and after each wake-up.
ServeEnable ==
    /\ \/ drv.pc = "serve"
       \/ drv.pc = "servePark" /\ drv.woken
    /\ drv' = [drv EXCEPT !.pc = "serveCheck", !.woken = FALSE]
    /\ UNCHANGED <<gateVars, lost, owed, published, run, caller, chan, sched, waiter, host, ran>>

\* Running: nothing stopped, poll the queue.
ServeContinue ==
    /\ drv.pc = "serveCheck" /\ ~stopped /\ ~lost
    /\ drv' = [drv EXCEPT !.pc = "recv"]
    /\ UNCHANGED <<gateVars, lost, owed, published, run, caller, chan, sched, waiter, host, ran>>

\* Stopped or gone: stop the gate and go on to close the queue.  A driver that
\* already saw every handle dropped returns at once.
ServeStopped ==
    /\ drv.pc = "serveCheck" /\ (stopped \/ lost)
    /\ IF drv.drained
       THEN /\ drv' = [drv EXCEPT !.pc = "exit"]
            /\ UNCHANGED <<gateVars, lost, owed>>
       ELSE /\ drv' = [drv EXCEPT !.pc = "close"]
            /\ GateStop
    /\ UNCHANGED <<published, run, caller, chan, sched, waiter, host, ran>>

\* Mutant: the queue is closed without being drained.
CloseQueueAndReturn ==
    /\ drv.pc = "close"
    /\ chan' = [chan EXCEPT !.open = FALSE]
    /\ drv' = [drv EXCEPT !.pc = "exit"]
    /\ UNCHANGED <<gateVars, lost, owed, published, run, caller, sched, waiter, host, ran>>

CloseQueue ==
    /\ drv.pc = "close"
    /\ chan' = [chan EXCEPT !.open = FALSE]
    /\ drv' = [drv EXCEPT !.pc = "tryRecv"]
    /\ UNCHANGED <<gateVars, lost, owed, published, run, caller, sched, waiter, host, ran>>

\* A request is received, by recv or by the try_recv after the close: the
\* driver begins its advancement.
Receive(r) ==
    /\ \/ drv.pc \in {"recv", "tryRecv"}
       \/ drv.pc = "servePark" /\ ~drv.woken
    /\ r \in chan.items
    /\ chan' = [chan EXCEPT !.items = @ \ {r}]
    /\ drv' = [Serving EXCEPT !.pc = "advReg", !.run = r]
    /\ UNCHANGED <<gateVars, lost, owed, published, run, caller, sched, waiter, host, ran>>

\* Nothing to receive: return after a close, wait for a stop once no handle is
\* left, park otherwise.
ReceiveNothing ==
    /\ drv.pc \in {"recv", "tryRecv"} /\ chan.items = {}
    /\ drv' = IF drv.pc = "tryRecv" THEN [drv EXCEPT !.pc = "exit"]
              ELSE IF ~chan.senders /\ ~drv.drained
              THEN [drv EXCEPT !.pc = "serve", !.drained = TRUE]
              ELSE [drv EXCEPT !.pc = "servePark"]
    /\ UNCHANGED <<gateVars, lost, owed, published, run, caller, chan, sched, waiter, host, ran>>

\* The last handle is dropped while the driver is parked on the queue.
ReceiveClosed ==
    /\ drv.pc = "servePark" /\ ~drv.woken /\ ~drv.drained
    /\ chan.items = {} /\ ~chan.senders
    /\ drv' = [drv EXCEPT !.pc = "serve", !.drained = TRUE]
    /\ UNCHANGED <<gateVars, lost, owed, published, run, caller, chan, sched, waiter, host, ran>>

-----------------------------------------------------------------------------
(* Driver::advance: gate.interrupted() is polled before the advancement, and
   looks at the gate again only when notified or when the deadline passed. *)

AdvanceEnable ==
    /\ \/ drv.pc = "advReg"
       \/ drv.pc = "advPark" /\ (drv.woken \/ run[drv.run].expired)
    /\ drv' = [drv EXCEPT !.pc = "advCheck", !.woken = FALSE]
    /\ UNCHANGED <<gateVars, lost, owed, published, run, caller, chan, sched, waiter, host, ran>>

AdvanceContinue ==
    /\ drv.pc = "advCheck" /\ Reason(drv.run) = "none"
    /\ drv' = [drv EXCEPT !.pc = "advPoll"]
    /\ UNCHANGED <<gateVars, lost, owed, published, run, caller, chan, sched, waiter, host, ran>>

\* The terminal result of an attempt interrupted before its first dispatch.
PreDispatch(kind) ==
    IF kind = "Cancelled" THEN "CancelledBeforeDispatch"
    ELSE IF kind = "TimedOut" THEN "TimedOutBeforeDispatch"
    ELSE "Failed"

\* Mutant: an interruption after dispatch is taken for an early one.
InterruptedAnytime ==
    /\ drv.pc = "advCheck" /\ Reason(drv.run) # "none"
    /\ GateFinish(drv.run, PreDispatch(Reason(drv.run)), "Ready")
    /\ drv' = Serving
    /\ UNCHANGED <<published, caller, chan, sched, waiter, host, ran>>

\* Interrupted before dispatch: the scheduler stays usable and the loop goes on.
InterruptedEarly ==
    /\ drv.pc = "advCheck" /\ drv.node = 0 /\ Reason(drv.run) # "none"
    /\ GateFinish(drv.run, PreDispatch(Reason(drv.run)), "Ready")
    /\ drv' = Serving
    /\ UNCHANGED <<published, caller, chan, sched, waiter, host, ran>>

\* The advancement fails for good: AdvanceGuard (its Drop or its fail) faults
\* the epoch, and the driver goes on to retain the failure.
Fault(kind) ==
    /\ sched' = [sched EXCEPT !.fault = TRUE]
    /\ drv' = [drv EXCEPT !.pc = "finish", !.kind = kind, !.woken = FALSE]

\* Interrupted after a dispatch: dropping the future trips the armed guard.
InterruptedLate ==
    /\ drv.pc = "advCheck" /\ drv.node > 0 /\ Reason(drv.run) # "none"
    /\ Fault(Reason(drv.run))
    /\ UNCHANGED <<gateVars, lost, owed, published, run, caller, chan, waiter, host, ran>>

\* advance_controlled dispatches the first or the next node.  A request the
\* scheduler refuses makes the supervisor disappear.
Dispatch ==
    /\ drv.pc = "advPoll"
    /\ drv.node = 0 \/ drv.reply = "ok"
    /\ drv.node < NodeCount
    /\ IF drv.node = 0 /\ sched.index >= MaxTick
       THEN /\ lost' = TRUE
            /\ owed' = owed \cup {"notify"}
            /\ drv' = [drv EXCEPT !.pc = "failStop", !.kind = "WorkerLost"]
            /\ UNCHANGED ran
       ELSE /\ drv' = [drv EXCEPT !.node = @ + 1, !.reply = "none"]
            /\ ran' = [ran EXCEPT ![drv.run] = @ + 1]
            /\ UNCHANGED <<lost, owed>>
    /\ UNCHANGED <<gateVars, published, run, caller, chan, sched, waiter, host>>

\* The node's worker answers: outputs that fit the schema, or an error, a
\* panic, invalid outputs or its own disappearance.
Reply(answer) ==
    /\ drv.pc \in {"advReg", "advCheck", "advPoll", "advPark"}
    /\ drv.node > 0 /\ drv.reply = "none"
    /\ drv' = [drv EXCEPT !.reply = answer]
    /\ UNCHANGED <<gateVars, lost, owed, published, run, caller, chan, sched, waiter, host, ran>>

AdvancePark ==
    /\ drv.pc = "advPoll" /\ drv.node > 0 /\ drv.reply = "none"
    /\ drv' = [drv EXCEPT !.pc = "advPark"]
    /\ UNCHANGED <<gateVars, lost, owed, published, run, caller, chan, sched, waiter, host, ran>>

\* Only the reply woke the task: gate.interrupted() stays pending.
AdvanceResume ==
    /\ drv.pc = "advPark" /\ ~drv.woken /\ ~run[drv.run].expired /\ drv.reply # "none"
    /\ drv' = [drv EXCEPT !.pc = "advPoll"]
    /\ UNCHANGED <<gateVars, lost, owed, published, run, caller, chan, sched, waiter, host, ran>>

NodeFailed ==
    /\ drv.pc = "advPoll" /\ drv.reply = "failed"
    /\ Fault("NodeFailed")
    /\ UNCHANGED <<gateVars, lost, owed, published, run, caller, chan, waiter, host, ran>>

\* ControlledCommit::commit, the linearization point: a reason at this moment
\* rejects the commit, and the epoch faults.
CommitRejected ==
    /\ drv.pc = "advPoll" /\ drv.node = NodeCount /\ drv.reply = "ok"
    /\ Reason(drv.run) # "none"
    /\ Fault(Reason(drv.run))
    /\ UNCHANGED <<gateVars, lost, owed, published, run, caller, chan, waiter, host, ran>>

\* Mutant: the commit does not look for a reason to reject.
CommitUnchecked ==
    /\ drv.pc = "advPoll" /\ drv.node = NodeCount /\ drv.reply = "ok"
    /\ sched' = [sched EXCEPT !.index = @ + 1]
    /\ Settle(drv.run, "Committed", sched.index + 1, "Ready")
    /\ drv' = Serving
    /\ UNCHANGED <<published, caller, chan, waiter, host, ran>>

\* Mutant: the gate keeps the old index.
CommitOldClock ==
    /\ drv.pc = "advPoll" /\ drv.node = NodeCount /\ drv.reply = "ok"
    /\ Reason(drv.run) = "none"
    /\ sched' = [sched EXCEPT !.index = @ + 1]
    /\ Settle(drv.run, "Committed", sched.index, "Ready")
    /\ drv' = Serving
    /\ UNCHANGED <<published, caller, chan, waiter, host, ran>>

Commit ==
    /\ drv.pc = "advPoll" /\ drv.node = NodeCount /\ drv.reply = "ok"
    /\ Reason(drv.run) = "none"
    /\ sched' = [sched EXCEPT !.index = @ + 1]
    /\ Settle(drv.run, "Committed", sched.index + 1, "Ready")
    /\ drv' = Serving
    /\ UNCHANGED <<published, caller, chan, waiter, host, ran>>

-----------------------------------------------------------------------------
(* The driver after a failure, and its end *)

\* Mutant: a failure leaves the epoch usable.
FinishFailedAndServe ==
    /\ drv.pc = "finish"
    /\ GateFinish(drv.run, "Failed", "Ready")
    /\ drv' = Serving
    /\ UNCHANGED <<published, caller, chan, sched, waiter, host, ran>>

\* advance retains the failure and faults the clock.
FinishFailed ==
    /\ drv.pc = "finish"
    /\ GateFinish(drv.run, "Failed", "Faulted")
    /\ drv' = [drv EXCEPT !.pc = "failStop", !.run = NoRun, !.node = 0, !.reply = "none"]
    /\ UNCHANGED <<published, caller, chan, sched, waiter, host, ran>>

\* serve stops the gate; unless the host asked for it, the host is to abort.
StopAfterFailure ==
    /\ drv.pc = "failStop"
    /\ GateStop
    /\ drv' = [drv EXCEPT !.pc = IF drv.kind = "HostStopped" THEN "exit" ELSE "abort"]
    /\ UNCHANGED <<published, run, caller, chan, sched, waiter, host, ran>>

\* The Abort reaches the coordinator, which goes on to its cleanup.
SendAbort ==
    /\ drv.pc = "abort"
    /\ drv' = [drv EXCEPT !.pc = "exit"]
    /\ host' = IF host = "running" THEN "stopping" ELSE host
    /\ UNCHANGED <<gateVars, lost, owed, published, run, caller, chan, sched, waiter, ran>>

\* run returns: the queue dies with the driver, and a gate that is gone makes
\* Lifetime ask for a group stop.
Exit ==
    /\ drv.pc = "exit"
    /\ drv' = [Serving EXCEPT !.pc = "done"]
    /\ chan' = [chan EXCEPT !.open = FALSE, !.items = {}]
    /\ owed' = owed \cup IF lost THEN {"notify", "publish"} ELSE {}
    /\ host' = IF lost /\ host = "running" THEN "stopping" ELSE host
    /\ UNCHANGED <<gateVars, lost, published, run, caller, sched, waiter, ran>>

\* The driver's task is aborted at an await: the guard of a dispatched
\* advancement faults the scheduler and Lifetime declares the gate gone.
DriverDropped ==
    /\ drv.pc \in {"serve", "servePark", "advPark", "abort", "exit"}
    /\ drv' = [Serving EXCEPT !.pc = "dropped"]
    /\ sched' = [sched EXCEPT !.fault = @ \/ drv.pc = "advPark"]
    /\ chan' = [chan EXCEPT !.open = FALSE, !.items = {}]
    /\ lost' = TRUE
    /\ owed' = {"notify", "publish"}
    /\ host' = IF host = "running" THEN "stopping" ELSE host
    /\ UNCHANGED <<gateVars, published, run, caller, waiter, ran>>

-----------------------------------------------------------------------------
ServeStep ==
    \/ ServeEnable \/ ServeContinue \/ ServeStopped \/ CloseQueue
    \/ \E r \in Runs : Receive(r)
    \/ ReceiveNothing \/ ReceiveClosed

AdvanceStep ==
    \/ AdvanceEnable \/ AdvanceContinue \/ InterruptedEarly \/ InterruptedLate
    \/ Dispatch \/ AdvancePark \/ AdvanceResume \/ NodeFailed \/ CommitRejected \/ Commit

EndStep == FinishFailed \/ StopAfterFailure \/ SendAbort \/ Exit

DriverStep == ServeStep \/ AdvanceStep \/ EndStep

CallerStep(c) ==
    \/ StartRefused(c)
    \/ \E bounded \in BOOLEAN : StartAccepted(c, bounded)
    \/ StartSend(c)

WaiterStep(r) == WaitEnable(r) \/ WaitCheck(r) \/ WaitPark(r)

Next ==
    \/ Notify \/ Publish
    \/ Activate \/ HostEvent \/ HostStop
    \/ \E c \in Callers : StartRead(c) \/ CallerStep(c)
    \/ DropHandles
    \/ \E r \in Runs : Cancel(r) \/ Expire(r) \/ WaiterStep(r)
    \/ DriverStep
    \/ \E answer \in {"ok", "failed"} : Reply(answer)
    \/ DriverDropped

Spec == Init /\ [][Next]_vars

\* The driver's task and the callers inside try_step are scheduled, a state
\* change is followed by its notification and its publication, and a host
\* that has begun to stop goes on.  No node is assumed to answer, no caller
\* to cancel, no deadline to pass and no host to stop.
Fairness ==
    /\ WF_vars(DriverStep)
    /\ WF_vars(Notify) /\ WF_vars(Publish)
    /\ \A c \in Callers : WF_vars(CallerStep(c))
    /\ \A r \in Runs : WF_vars(WaiterStep(r))
    /\ WF_vars(host = "stopping" /\ HostStop)

FairSpec == Spec /\ Fairness

-----------------------------------------------------------------------------
(* Properties *)

Accepted(r) == run[r].state # "none"
Handed(r) == run[r].state = "handed"
Settled(r) == run[r].result # "none"

\* Every variable has its type.
TypeOK ==
    /\ ready \in BOOLEAN /\ stopped \in BOOLEAN /\ lost \in BOOLEAN
    /\ seq \in 0 .. MaxSeq
    /\ clock \in [index : 0 .. MaxTick, phase : Phases, ver : Nat]
    /\ active \in Runs \cup {NoRun}
    /\ owed \subseteq {"notify", "publish"}
    /\ published \in [index : 0 .. MaxTick, phase : Phases]
    /\ run \in [Runs -> [state : {"none", "accepted", "handed"}, tick : 0 .. MaxTick,
                         bounded : BOOLEAN, cancelled : BOOLEAN, expired : BOOLEAN,
                         result : Results]]
    /\ caller \in [Callers -> [pc : {"idle", "read", "send"}, seq : 0 .. MaxSeq, ver : Nat,
                               index : 0 .. MaxTick]]
    /\ chan \in [open : BOOLEAN, senders : BOOLEAN, items : SUBSET Runs]
    /\ sched \in [index : 0 .. MaxTick, fault : BOOLEAN]
    /\ drv \in [pc : DriverPCs, run : Runs \cup {NoRun}, node : 0 .. NodeCount,
                reply : {"none", "ok", "failed"}, kind : FailureKinds, woken : BOOLEAN,
                drained : BOOLEAN]
    /\ waiter \in [Runs -> [pc : {"idle", "check", "looked", "park", "returned"}, woken : BOOLEAN]]
    /\ host \in {"running", "stopping", "stopped"}
    /\ ran \in [Runs -> 0 .. NodeCount]

\* A cancellation that was answered Requested excludes the commit of that
\* attempt, whatever the nodes do, and a commit excludes a later Requested.
CancelExcludesCommit ==
    \A r \in Runs : ~(run[r].cancelled /\ run[r].result = "Committed")

\* The slot of the gate is held by exactly the one accepted attempt that has
\* no result, so long as the supervisor is not gone.
SlotHoldsUnsettled ==
    ~lost => \A r \in Runs : (active = r) <=> (Accepted(r) /\ ~Settled(r))

\* The committed attempts are one for each tick below the committed index, every
\* node ran for each of them, and the gate's clock agrees with the scheduler.
TicksCommittedOnce ==
    LET done == {r \in Runs : run[r].result = "Committed"}
    IN  /\ \A r \in done : run[r].tick < sched.index /\ ran[r] = NodeCount
        /\ \A r, s \in done : r # s => run[r].tick # run[s].tick
        /\ Cardinality(done) = sched.index
        /\ clock.index = sched.index

\* A tick may be attempted again without repeating the effects of a node: a
\* result that says "before dispatch" is true, and of the attempts at a tick,
\* of which there may be several after early cancellations, one dispatches.
RetryIsSafe ==
    /\ \A r \in Runs :
        run[r].result \in {"CancelledBeforeDispatch", "TimedOutBeforeDispatch"} => ran[r] = 0
    /\ \A r, s \in Runs :
        r # s /\ Accepted(r) /\ Accepted(s) /\ run[r].tick = run[s].tick =>
            ran[r] = 0 \/ ran[s] = 0

\* A failed attempt is the last one: no later attempt dispatches a node or commits.
FailureEndsEpoch ==
    \A r, s \in Runs :
        run[r].result = "Failed" /\ r < s => ran[s] = 0 /\ run[s].result # "Committed"

\* No holder of a StepRun is stranded unless the driver was really dropped: a
\* driver that returned left no accepted request without its retained result,
\* and a caller that races with the closing of the queue and declares the
\* supervisor gone hides nobody else's.
NoAttemptStranded ==
    drv.pc = "done" \/ (lost /\ drv.pc # "dropped") =>
        \A r \in Runs : Handed(r) => Settled(r)

\* An observer of the published clock never sees it go back: the index does
\* not fall, a fault is final, and a stopped clock can only become a fault.
PublishedClockMonotone ==
    [][/\ published'.index >= published.index
       /\ published.phase = "Faulted" => published'.phase = "Faulted"
       /\ published.phase = "Stopped" => published'.phase \in {"Stopped", "Faulted"}]_published

\* An interrupted attempt ends even if its node never answers: a stop, a
\* cancellation or a deadline leads to a result or to a declared loss.
InterruptionSettles ==
    \A r \in Runs :
        (Handed(r) /\ (stopped \/ run[r].cancelled \/ run[r].expired))
            ~> (Settled(r) \/ lost)

\* wait returns once there is a result or a loss: no wake-up is missed.
WaitReturns ==
    \A r \in Waiting :
        (waiter[r].pc # "idle" /\ (Settled(r) \/ lost)) ~> waiter[r].pc = "returned"

\* A stop takes effect: the clock channel comes to show Stopped or Faulted,
\* and the driver ends.
StopTakesEffect ==
    stopped ~> (/\ published.phase \in {"Stopped", "Faulted"}
                /\ drv.pc \in {"done", "dropped"})
=============================================================================
