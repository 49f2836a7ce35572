-------------------------------- MODULE Job --------------------------------
(***************************************************************************)
(* In-process application jobs: crates/reiny/src/job.                      *)
(*                                                                         *)
(* A JobOwner owns a bounded set of workers.  Each job publishes one       *)
(* snapshot through a watch channel; every transition of a snapshot is one *)
(* atomic send_if_modified.  The worker task, cancellation requests from   *)
(* any handle, the owner's shutdown future and waiters all interleave.     *)
(*                                                                         *)
(* Workers are pushed in identifier order and only ever removed, so the    *)
(* owner's vector is the set of its identifiers read in ascending order.   *)
(***************************************************************************)
EXTENDS Integers, FiniteSets

CONSTANTS
    Capacity,   \* bound: the largest capacity an owner is created with
    MaxId,      \* stands for u64::MAX of NEXT_ID: identifiers are 1..MaxId-1
    MaxRev,     \* stands for u64::MAX of JobRevision
    Waiters,    \* the jobs some caller waits for
    Cooperative \* the jobs whose worker heeds a cancellation

ASSUME JobAssumption ==
    /\ Capacity \in Nat \ {0}
    /\ MaxId \in Nat \ {0}
    /\ MaxRev \in Nat /\ MaxRev >= 2
    /\ Waiters \subseteq 1 .. (MaxId - 1) /\ Cooperative \subseteq 1 .. (MaxId - 1)

VARIABLES
    nextId,     \* NEXT_ID
    snap,       \* the snapshot in each job's watch channel
    task,       \* where each spawned task is, and whether its join is an Err
    capacity,   \* JobOwner::capacity (NonZeroUsize), fixed by JobOwner::new
    closed,     \* JobOwner::closed
    workers,    \* JobOwner::workers
    dropped,    \* the owner has been dropped
    sd,         \* the shutdown future, and the report of the last one
    waiter,     \* a JobHandle::wait future for each job in Waiters
    requested   \* history: how often request_cancel answered Requested

ownerVars == <<capacity, closed, workers, dropped>>
vars == <<nextId, snap, task, capacity, closed, workers, dropped, sd, waiter, requested>>

Jobs == 1 .. (MaxId - 1)

Outcomes == {"Succeeded", "Failed", "Cancelled", "Panicked", "Interrupted"}

Statuses == {"Running", "Cancelling"} \cup Outcomes

TaskPCs == {"none", "work", "cleanup", "discard", "committed", "ended"}

SdPhases == {"never", "join", "timer", "returned", "abandoned"}

Complete(s) == s.status \in Outcomes

\* u64::saturating_add(1).
SatInc(r) == IF r < MaxRev THEN r + 1 ELSE MaxRev

NewSnapshot == [revision |-> 0, requested |-> FALSE, status |-> "Running"]

-----------------------------------------------------------------------------
(* The atomic transitions of a snapshot (job/state.rs).                    *)

RequestCancel(s) ==
    IF s.status = "Running"
    THEN [revision |-> SatInc(s.revision), requested |-> TRUE, status |-> "Cancelling"]
    ELSE s

\* Mutant: progress may use up the revisions kept for cancellation and result.
ProgressUnreserved(s) ==
    IF s.status = "Running"
    THEN [s EXCEPT !.revision = SatInc(s.revision)]
    ELSE s

\* Mutant: checked_add without a limit on the result.
ProgressUnchecked(s) ==
    IF s.status = "Running"
    THEN [s EXCEPT !.revision = s.revision + 1]
    ELSE s

\* Progress keeps two revisions back: one for the cancellation, one for the
\* result.
Progress(s) ==
    IF s.status = "Running" /\ s.revision + 1 <= MaxRev - 2
    THEN [s EXCEPT !.revision = s.revision + 1]
    ELSE s

\* A success that lost against cancellation is not published at all: the task
\* first destroys the value and then completes again with Cancelled.
Discards(s, result) == s.status = "Cancelling" /\ result = "Succeeded"

\* Mutant: a success is published although cancellation came first.
CommitEvenIfCancelling(s, result) ==
    IF Complete(s)
    THEN s
    ELSE [s EXCEPT !.status = result, !.revision = SatInc(s.revision)]

\* The atomic part of State::complete.
Commit(s, result) ==
    IF Complete(s) \/ Discards(s, result)
    THEN s
    ELSE [s EXCEPT !.status = result, !.revision = SatInc(s.revision)]

-----------------------------------------------------------------------------
(* The worker task spawned by JobOwner::start.                             *)

\* work(context) returned Ok or Err: State::complete(outcome).
Return(j, result) ==
    /\ task[j].pc \in {"work", "cleanup"}
    /\ snap' = [snap EXCEPT ![j] = Commit(@, result)]
    /\ task' = [task EXCEPT ![j].pc =
                    IF Discards(snap[j], result) THEN "discard" ELSE "committed"]
    /\ UNCHANGED <<nextId, ownerVars, sd, waiter, requested>>

\* The discarded value has been dropped outside the lock without unwinding:
\* complete(Cancelled).
DiscardDone(j) ==
    /\ task[j].pc = "discard"
    /\ snap' = [snap EXCEPT ![j] = Commit(@, "Cancelled")]
    /\ task' = [task EXCEPT ![j].pc = "committed"]
    /\ UNCHANGED <<nextId, ownerVars, sd, waiter, requested>>

\* Mutant: no Completion guard, an unwinding or dropped worker says nothing.
EndSilently(j, result, err) ==
    /\ task' = [task EXCEPT ![j] = [pc |-> "ended", err |-> err]]
    /\ UNCHANGED <<nextId, snap, ownerVars, sd, waiter, requested>>

\* The task's locals are dropped, Completion among them, and the task ends.
End(j, result, err) ==
    /\ snap' = [snap EXCEPT ![j] = Commit(@, result)]
    /\ task' = [task EXCEPT ![j] = [pc |-> "ended", err |-> err]]
    /\ UNCHANGED <<nextId, ownerVars, sd, waiter, requested>>

\* The normal end: Completion finds a retained result.
Finish(j) == task[j].pc = "committed" /\ End(j, "Interrupted", FALSE)

\* The closure, its future or the destructor of a discarded value unwinds.
Panic(j) ==
    /\ task[j].pc \in {"work", "cleanup", "discard"}
    /\ End(j, "Panicked", TRUE)

\* The runtime drops the future at an await, or before its first poll.
Interrupt(j) ==
    /\ task[j].pc \in {"work", "cleanup"}
    /\ End(j, "Interrupted", TRUE)

\* JobContext::report.
Report(j) ==
    /\ task[j].pc \in {"work", "cleanup"}
    /\ Progress(snap[j]) # snap[j]
    /\ snap' = [snap EXCEPT ![j] = Progress(@)]
    /\ UNCHANGED <<nextId, task, ownerVars, sd, waiter, requested>>

\* JobContext::cancelled resolves, or is_cancelled is seen: clean up.
ObserveCancel(j) ==
    /\ task[j].pc = "work"
    /\ snap[j].status # "Running"
    /\ task' = [task EXCEPT ![j].pc = "cleanup"]
    /\ UNCHANGED <<nextId, snap, ownerVars, sd, waiter, requested>>

-----------------------------------------------------------------------------
(* Handles (job/handle.rs).                                                *)

\* JobHandle::cancel, from any clone of the handle at any time.
Cancel(j) ==
    /\ task[j].pc # "none"
    /\ RequestCancel(snap[j]) # snap[j]
    /\ snap' = [snap EXCEPT ![j] = RequestCancel(@)]
    /\ requested' = [requested EXCEPT ![j] = @ + 1]
    /\ UNCHANGED <<nextId, task, ownerVars, sd, waiter>>

\* JobHandle::wait: borrow_and_update marks the current revision seen, then the
\* status decides between returning and waiting for a change.
WaitCheck(j) ==
    /\ j \in Waiters
    /\ task[j].pc # "none"
    /\ waiter[j].pc = "check"
    /\ waiter' = [waiter EXCEPT ![j] =
           [pc   |-> IF Complete(snap[j]) THEN "returned" ELSE "parked",
            seen |-> snap[j].revision,
            got  |-> snap[j].status]]
    /\ UNCHANGED <<nextId, snap, task, ownerVars, sd, requested>>

\* updates.changed() resolves once the channel holds an unseen revision.
WaitWake(j) ==
    /\ waiter[j].pc = "parked"
    /\ snap[j].revision # waiter[j].seen
    /\ waiter' = [waiter EXCEPT ![j].pc = "check"]
    /\ UNCHANGED <<nextId, snap, task, ownerVars, sd, requested>>

-----------------------------------------------------------------------------
(* The owner (job/owner.rs).  shutdown borrows the owner mutably, so start, *)
(* close and drop wait until its future has returned or been abandoned.     *)

InShutdown == sd.phase \in {"join", "timer"}

Unborrowed == ~dropped /\ ~InShutdown

Ended == {j \in Jobs : task[j].pc = "ended"}

\* Tasks that have been spawned and still run.
Live == {j \in Jobs : task[j].pc \notin {"none", "ended"}}

\* Mutant: start forgets workers whose result is out but whose task still runs.
ReapedOnResult == {j \in workers : ~Complete(snap[j])}

\* workers.retain(!is_finished) at the start of JobOwner::start.
Reaped == workers \ Ended

\* JobOwner::start.  Finished entries are reaped before the capacity check, and
\* stay reaped when start then fails; runtime is Handle::try_current's answer.
Start(runtime) ==
    /\ Unborrowed
    /\ ~closed
    /\ IF Cardinality(Reaped) < capacity /\ runtime /\ nextId < MaxId
       THEN /\ workers' = Reaped \cup {nextId}
            /\ nextId' = nextId + 1
            /\ snap' = [snap EXCEPT ![nextId] = NewSnapshot]
            /\ task' = [task EXCEPT ![nextId].pc = "work"]
       ELSE /\ workers' = Reaped
            /\ workers' # workers
            /\ UNCHANGED <<nextId, snap, task>>
    /\ UNCHANGED <<capacity, closed, dropped, sd, waiter, requested>>

\* Mutant: only the most recent worker is asked to cancel.
CancelNewest ==
    LET asked == {j \in workers : \A k \in workers : k <= j}
    IN /\ snap' = [j \in Jobs |-> IF j \in asked THEN RequestCancel(snap[j]) ELSE snap[j]]
       /\ requested' = [j \in Jobs |-> IF j \in asked /\ snap[j].status = "Running"
                                       THEN requested[j] + 1 ELSE requested[j]]

\* The loop of JobOwner::close.  Each cancel touches one job's channel only, so
\* the loop commutes with the steps of every other job.
CancelOwned ==
    /\ snap' = [j \in Jobs |-> IF j \in workers THEN RequestCancel(snap[j]) ELSE snap[j]]
    /\ requested' = [j \in Jobs |-> IF j \in workers /\ snap[j].status = "Running"
                                    THEN requested[j] + 1 ELSE requested[j]]

\* JobOwner::close, and a shutdown whose deadline is not representable.
Close ==
    /\ Unborrowed
    /\ closed' = TRUE
    /\ CancelOwned
    /\ UNCHANGED <<capacity, nextId, task, workers, dropped, sd, waiter>>

\* Drop for JobOwner: close; the join handles are detached, not aborted.
Drop ==
    /\ Unborrowed
    /\ closed' = TRUE
    /\ CancelOwned
    /\ dropped' = TRUE
    /\ workers' = {}
    /\ UNCHANGED <<capacity, nextId, task, sd, waiter>>

\* JobOwner::shutdown up to its first await.
ShutdownBegin ==
    /\ Unborrowed
    /\ closed' = TRUE
    /\ CancelOwned
    /\ sd' = [phase |-> "join", expired |-> FALSE, unresponsive |-> {}, failures |-> {}]
    /\ UNCHANGED <<capacity, nextId, task, workers, dropped, waiter>>

\* self.workers[index]: the first worker the loop has not passed yet.
AtIndex(j) ==
    /\ j \in workers \ sd.unresponsive
    /\ \A k \in workers \ sd.unresponsive : j <= k

\* timeout_at polls the join handle first ...
PollJoin(j) ==
    /\ sd.phase = "join"
    /\ AtIndex(j)
    /\ IF task[j].pc = "ended"
       THEN /\ workers' = workers \ {j}
            /\ sd' = [sd EXCEPT !.failures = IF task[j].err THEN @ \cup {j} ELSE @]
       ELSE /\ sd' = [sd EXCEPT !.phase = "timer"]
            /\ UNCHANGED workers
    /\ UNCHANGED <<capacity, nextId, snap, task, closed, dropped, waiter, requested>>

\* Mutant: a worker that missed the deadline is let go of.
PollTimerForgets(j) ==
    /\ sd.phase = "timer"
    /\ AtIndex(j)
    /\ sd' = [sd EXCEPT !.phase = "join"]
    /\ workers' = IF sd.expired THEN workers \ {j} ELSE workers
    /\ UNCHANGED <<capacity, nextId, snap, task, closed, dropped, waiter, requested>>

\* Mutant: the loop does not move past a worker that missed the deadline.
PollTimerStays(j) ==
    /\ sd.phase = "timer"
    /\ AtIndex(j)
    /\ sd' = [sd EXCEPT !.phase = "join"]
    /\ UNCHANGED <<nextId, snap, task, ownerVars, waiter, requested>>

\* ... and the shared deadline second; the task may have ended in between.
PollTimer(j) ==
    /\ sd.phase = "timer"
    /\ AtIndex(j)
    /\ sd' = [sd EXCEPT !.phase = "join",
                        !.unresponsive = IF sd.expired THEN @ \cup {j} ELSE @]
    /\ UNCHANGED <<nextId, snap, task, ownerVars, waiter, requested>>

\* The deadline passes.
Expire ==
    /\ InShutdown
    /\ ~sd.expired
    /\ sd' = [sd EXCEPT !.expired = TRUE]
    /\ UNCHANGED <<nextId, snap, task, ownerVars, waiter, requested>>

\* index has reached workers.len(): Ok(report).
ShutdownReturn ==
    /\ sd.phase = "join"
    /\ workers \subseteq sd.unresponsive
    /\ sd' = [sd EXCEPT !.phase = "returned"]
    /\ UNCHANGED <<nextId, snap, task, ownerVars, waiter, requested>>

\* The caller drops the shutdown future at its await.
ShutdownAbandon ==
    /\ sd.phase = "join"
    /\ sd' = [sd EXCEPT !.phase = "abandoned"]
    /\ UNCHANGED <<nextId, snap, task, ownerVars, waiter, requested>>

-----------------------------------------------------------------------------
Init ==
    /\ nextId = 1
    /\ snap = [j \in Jobs |-> NewSnapshot]
    /\ task = [j \in Jobs |-> [pc |-> "none", err |-> FALSE]]
    /\ capacity \in 1 .. Capacity
    /\ closed = FALSE
    /\ workers = {}
    /\ dropped = FALSE
    /\ sd = [phase |-> "never", expired |-> FALSE, unresponsive |-> {}, failures |-> {}]
    /\ waiter = [j \in Jobs |-> [pc |-> "check", seen |-> 0, got |-> "Running"]]
    /\ requested = [j \in Jobs |-> 0]

TaskStep(j) ==
    \/ \E result \in {"Succeeded", "Failed"} : Return(j, result)
    \/ DiscardDone(j)
    \/ Finish(j)
    \/ Panic(j)
    \/ Interrupt(j)
    \/ Report(j)
    \/ ObserveCancel(j)

HandleStep(j) == Cancel(j) \/ WaitCheck(j) \/ WaitWake(j)

ShutdownStep == (\E j \in Jobs : PollJoin(j) \/ PollTimer(j)) \/ ShutdownReturn

OwnerStep ==
    \/ \E runtime \in BOOLEAN : Start(runtime)
    \/ Close
    \/ Drop
    \/ ShutdownBegin
    \/ ShutdownAbandon

Next ==
    \/ \E j \in Jobs : TaskStep(j) \/ HandleStep(j)
    \/ OwnerStep
    \/ ShutdownStep
    \/ Expire

Spec == Init /\ [][Next]_vars

\* Tokio polls a woken future and fires a due timer: shutdown and waiters move.
SchedulerFairness ==
    /\ WF_vars(ShutdownStep)
    /\ WF_vars(Expire)
    /\ \A j \in Jobs : WF_vars(WaitCheck(j)) /\ WF_vars(WaitWake(j))

\* The module's documentation obliges workers to observe cancellation and
\* return; the others may ignore it for ever.  The tail of the task after that
\* contains no await.
Cooperation ==
    /\ \A j \in Cooperative : WF_vars(ObserveCancel(j))
    /\ \A j \in Jobs : WF_vars(task[j].pc # "work" /\ TaskStep(j))

FairSpec == Spec /\ SchedulerFairness /\ Cooperation

-----------------------------------------------------------------------------
(* Properties                                                              *)

TypeOK ==
    /\ nextId \in 1 .. MaxId
    /\ snap \in [Jobs -> [revision : 0 .. MaxRev, requested : BOOLEAN, status : Statuses]]
    /\ task \in [Jobs -> [pc : TaskPCs, err : BOOLEAN]]
    /\ capacity \in 1 .. Capacity
    /\ closed \in BOOLEAN
    /\ workers \subseteq Jobs
    /\ dropped \in BOOLEAN
    /\ sd \in [phase : SdPhases, expired : BOOLEAN,
               unresponsive : SUBSET Jobs, failures : SUBSET Jobs]
    /\ waiter \in [Jobs -> [pc : {"check", "parked", "returned"},
                            seen : 0 .. MaxRev, got : Statuses]]
    /\ requested \in [Jobs -> Nat]

\* Cancellation and success are linearised: a job ends Cancelled only if a
\* request was committed before, and ends Succeeded only if none was, whatever
\* happens while the discarded value is destroyed outside the lock; and the
\* handles and close together are answered Requested once, iff the snapshot
\* says so (State::request_cancel, State::complete, JobHandle::cancel).
CancellationLinearised ==
    \A j \in Jobs :
        /\ snap[j].status = "Cancelled" => snap[j].requested
        /\ snap[j].status = "Succeeded" => ~snap[j].requested
        /\ requested[j] = IF snap[j].requested THEN 1 ELSE 0

\* A result is published only by the worker leaving, and always before its join
\* handle resolves: a deadline or close never makes a snapshot terminal, and a
\* joined worker is never left without a result (Completion's Drop).
ResultIffWorkerLeft ==
    \A j \in Jobs :
        /\ Complete(snap[j]) => task[j].pc \in {"committed", "ended"}
        /\ task[j].pc = "ended" => Complete(snap[j])

\* The capacity bounds running tasks, not bookkeeping entries: reaping in start
\* never makes room for a task beyond the owner's capacity.
BoundedConcurrency == Cardinality(Live) <= capacity

\* A shutdown report accounts for every task ever started: whatever still runs
\* is listed unresponsive and still owned, and listed join failures are jobs
\* that retained Panicked or Interrupted.
ReportAccountsForAll ==
    /\ sd.phase = "returned" => Live \subseteq sd.unresponsive
    /\ sd.phase = "returned" /\ ~dropped => workers = sd.unresponsive
    /\ \A j \in sd.failures : snap[j].status \in {"Panicked", "Interrupted"}

\* JobRevision is strictly increasing: every visible change of a snapshot,
\* also at the end of the revision space, raises the revision, so no observer
\* of the watch channel can miss the last one; and the last one is the result,
\* which no later request, completion guard or shutdown changes.
SnapshotsAdvance ==
    [][\A j \in Jobs : snap'[j] # snap[j] =>
            ~Complete(snap[j]) /\ snap'[j].revision > snap[j].revision]_vars

\* Every waiter gets the result of a worker that has left, even one that
\* panicked or was dropped with its runtime (JobHandle::wait).
WaitReturns ==
    \A j \in Waiters : (task[j].pc = "ended") ~> (waiter[j].pc = "returned")

\* Once closed, the cooperative workers leave (JobOwner::close).
CloseDrains == closed /\ ~dropped ~> Live \cap Cooperative = {}

\* Shutdown returns by its one shared deadline although workers stay.
ShutdownReturns == InShutdown ~> ~InShutdown
============================================================================
