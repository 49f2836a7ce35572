----------------------------- MODULE JobProofs -----------------------------
(***************************************************************************)
(* Proofs about module Job, for every capacity, identifier space and       *)
(* revision width.                                                         *)
(***************************************************************************)
EXTENDS Job, FiniteSetTheorems, TLAPS

\* What holds of one job at every step: where its task is and what its
\* snapshot says agree, and the revisions kept back are still there.
JobInv(j) ==
    /\ snap[j].status = "Running" => ~snap[j].requested /\ snap[j].revision <= MaxRev - 2
    /\ snap[j].status = "Cancelling" => snap[j].requested /\ snap[j].revision <= MaxRev - 1
    /\ snap[j].status = "Cancelled" => snap[j].requested
    /\ snap[j].status = "Succeeded" => ~snap[j].requested
    /\ task[j].pc = "discard" => snap[j].status = "Cancelling"
    /\ task[j].pc \in {"committed", "ended"} <=> Complete(snap[j])
    /\ requested[j] = IF snap[j].requested THEN 1 ELSE 0
    /\ task[j].pc = "none" <=> j >= nextId
    /\ task[j].pc = "none" => snap[j] = NewSnapshot
    /\ waiter[j].pc = "parked" => task[j].pc # "none"
    /\ task[j].err => /\ task[j].pc = "ended"
                      /\ snap[j].status \in {"Panicked", "Interrupted"}

\* What holds of the owner: it owns whatever runs until it is dropped, within
\* its capacity, and a shutdown loses no worker.
OwnerInv ==
    /\ \A j \in workers : task[j].pc # "none"
    /\ Cardinality(workers) <= capacity
    /\ Cardinality(Live) <= capacity
    /\ ~dropped => Live \subseteq workers
    /\ dropped => closed
    /\ sd.phase # "never" => closed
    /\ InShutdown => ~dropped /\ sd.unresponsive \subseteq workers
    /\ sd.phase = "returned" => Live \subseteq sd.unresponsive
    /\ sd.phase = "returned" /\ ~dropped => workers = sd.unresponsive
    /\ \A j \in sd.failures : task[j].err

IndInv == TypeOK /\ (\A j \in Jobs : JobInv(j)) /\ OwnerInv

\* JobOwner::new fixes a positive capacity.
LEMMA CapacityIsPositive == TypeOK => capacity \in Nat /\ 0 <= capacity
  BY JobAssumption DEF TypeOK

\* The spawned tasks, the owned workers and the reaped vector are finite, and
\* removing members never raises a count above the capacity.
LEMMA SmallerIsBounded ==
    ASSUME NEW c \in Nat, NEW S \in SUBSET Jobs, NEW T \in SUBSET S, Cardinality(S) <= c
    PROVE  Cardinality(T) <= c
<1>1. IsFiniteSet(Jobs)
  BY FS_Interval, JobAssumption DEF Jobs
<1>2. IsFiniteSet(S) /\ IsFiniteSet(T)
  BY <1>1, FS_Subset
<1>3. Cardinality(T) <= Cardinality(S)
  BY <1>2, FS_Subset
<1>4. Cardinality(S) \in Nat /\ Cardinality(T) \in Nat
  BY <1>2, FS_CardinalityType
<1>. QED
  BY <1>3, <1>4, JobAssumption

\* Adding the started job to fewer than Capacity workers keeps the bound.
LEMMA OneMoreIsBounded ==
    ASSUME NEW c \in Nat, NEW S \in SUBSET Jobs, NEW x, Cardinality(S) < c
    PROVE  Cardinality(S \cup {x}) <= c
<1>1. IsFiniteSet(Jobs)
  BY FS_Interval, JobAssumption DEF Jobs
<1>2. IsFiniteSet(S)
  BY <1>1, FS_Subset
<1>3. Cardinality(S) \in Nat
  BY <1>2, FS_CardinalityType
<1>4. Cardinality(S \cup {x}) \in {Cardinality(S), Cardinality(S) + 1}
  BY <1>2, <1>3, FS_AddElement
<1>. QED
  BY <1>3, <1>4, JobAssumption

\* The invariant holds before the first job is started.
LEMMA IndInvInit == Init => IndInv
<1>. SUFFICES ASSUME Init PROVE IndInv
  OBVIOUS
<1>. USE JobAssumption DEF Init
<1>1. TypeOK
  <2>1. NewSnapshot \in [revision : 0 .. MaxRev, requested : BOOLEAN, status : Statuses]
    BY DEF NewSnapshot, Statuses
  <2>2. nextId \in 1 .. MaxId /\ workers \subseteq Jobs /\ requested \in [Jobs -> Nat]
    BY DEF Jobs
  <2>3. snap \in [Jobs -> [revision : 0 .. MaxRev, requested : BOOLEAN, status : Statuses]]
    BY <2>1
  <2>4. task \in [Jobs -> [pc : TaskPCs, err : BOOLEAN]] /\ closed \in BOOLEAN /\ dropped \in BOOLEAN
    BY Zenon DEF TaskPCs
  <2>5. sd \in [phase : SdPhases, expired : BOOLEAN, unresponsive : SUBSET Jobs, failures : SUBSET Jobs]
    BY DEF SdPhases
  <2>6. waiter \in [Jobs -> [pc : {"check", "parked", "returned"}, seen : 0 .. MaxRev, got : Statuses]]
    BY DEF Statuses
  <2>. QED
    BY <2>2, <2>3, <2>4, <2>5, <2>6 DEF TypeOK
<1>2. \A j \in Jobs : JobInv(j)
  BY DEF JobInv, Jobs, NewSnapshot, Complete, Outcomes
<1>3. OwnerInv
  <2>1. Live = {}
    BY DEF Live
  <2>. QED
    BY <2>1, FS_EmptySet DEF OwnerInv, InShutdown
<1>. QED
  BY <1>1, <1>2, <1>3 DEF IndInv

\* The three pure transitions of a snapshot keep its type.
LEMMA SnapshotTypes ==
    ASSUME NEW s \in [revision : 0 .. MaxRev, requested : BOOLEAN, status : Statuses],
           NEW r \in Outcomes
    PROVE  /\ RequestCancel(s) \in [revision : 0 .. MaxRev, requested : BOOLEAN, status : Statuses]
           /\ Progress(s) \in [revision : 0 .. MaxRev, requested : BOOLEAN, status : Statuses]
           /\ Commit(s, r) \in [revision : 0 .. MaxRev, requested : BOOLEAN, status : Statuses]
<1>. USE JobAssumption DEF Statuses, Outcomes
<1>1. SatInc(s.revision) \in 0 .. MaxRev
  BY DEF SatInc
<1>2. RequestCancel(s) \in [revision : 0 .. MaxRev, requested : BOOLEAN, status : Statuses]
  BY <1>1 DEF RequestCancel
<1>3. Progress(s) \in [revision : 0 .. MaxRev, requested : BOOLEAN, status : Statuses]
  BY DEF Progress
<1>4. Commit(s, r) \in [revision : 0 .. MaxRev, requested : BOOLEAN, status : Statuses]
  BY Zenon, <1>1 DEF Commit
<1>. QED
  BY <1>2, <1>3, <1>4

\* A step of one job's task or of one of its handles.
LEMMA JobStep ==
    ASSUME IndInv, NEW j \in Jobs, TaskStep(j) \/ HandleStep(j)
    PROVE  IndInv'
<1>. USE JobAssumption DEF IndInv
<1>. DEFINE Snap == [revision : 0 .. MaxRev, requested : BOOLEAN, status : Statuses]
<1>1. TypeOK'
  <2>1. /\ snap \in [Jobs -> Snap] /\ snap[j] \in Snap
        /\ task \in [Jobs -> [pc : TaskPCs, err : BOOLEAN]]
        /\ requested \in [Jobs -> Nat]
    BY DEF TypeOK
  <2>2. UNCHANGED <<nextId, capacity, closed, workers, dropped, sd>>
    BY DEF TaskStep, HandleStep, Return, DiscardDone, Finish, Panic, Interrupt, End,
           Report, ObserveCancel, Cancel, WaitCheck, WaitWake, ownerVars
  <2>3. snap' \in [Jobs -> Snap]
    <3>1. \A r \in Outcomes : Commit(snap[j], r) \in Snap
      BY Zenon, <2>1, SnapshotTypes
    <3>2. Progress(snap[j]) \in Snap /\ RequestCancel(snap[j]) \in Snap
      BY <2>1, SnapshotTypes DEF Outcomes
    <3>3. snap' = snap \/ \E x \in Snap : snap' = [snap EXCEPT ![j] = x]
      BY <3>1, <3>2 DEF TaskStep, HandleStep, Return, DiscardDone, Finish, Panic, Interrupt, End,
                        Report, ObserveCancel, Cancel, WaitCheck, WaitWake, Outcomes
    <3>. QED
      BY <2>1, <3>3
  <2>4. task' \in [Jobs -> [pc : TaskPCs, err : BOOLEAN]]
    <3>1. \/ task' = task
          \/ \E p \in TaskPCs : task' = [task EXCEPT ![j].pc = p]
          \/ \E e \in BOOLEAN : task' = [task EXCEPT ![j] = [pc |-> "ended", err |-> e]]
      BY ZenonT(30) DEF TaskStep, HandleStep, Return, DiscardDone, Finish, Panic, Interrupt, End,
             Report, ObserveCancel, Cancel, WaitCheck, WaitWake, TaskPCs
    <3>2. ASSUME NEW p \in TaskPCs PROVE [task EXCEPT ![j].pc = p] \in [Jobs -> [pc : TaskPCs, err : BOOLEAN]]
      BY <2>1
    <3>3. \A e \in BOOLEAN : [pc |-> "ended", err |-> e] \in [pc : TaskPCs, err : BOOLEAN]
      BY DEF TaskPCs
    <3>. QED
      BY SMTT(60), <2>1, <3>1, <3>2, <3>3
  <2>5. requested' \in [Jobs -> Nat]
    <3>1. requested' = requested \/ requested' = [requested EXCEPT ![j] = @ + 1]
      BY DEF TaskStep, HandleStep, Return, DiscardDone, Finish, Panic, Interrupt, End,
             Report, ObserveCancel, Cancel, WaitCheck, WaitWake
    <3>. QED
      BY <2>1, <3>1
  <2>6. waiter' \in [Jobs -> [pc : {"check", "parked", "returned"}, seen : 0 .. MaxRev, got : Statuses]]
    <3>1. CASE WaitCheck(j)
      BY <2>1, <3>1 DEF WaitCheck, TypeOK
    <3>2. CASE WaitWake(j)
      BY SMTT(60), <3>2 DEF WaitWake, TypeOK
    <3>3. CASE TaskStep(j) \/ Cancel(j)
      BY <3>3 DEF TaskStep, Return, DiscardDone, Finish, Panic, Interrupt, End,
                  Report, ObserveCancel, Cancel, TypeOK
    <3>. QED
      BY <3>1, <3>2, <3>3 DEF HandleStep
  <2>. QED
    BY <2>2, <2>3, <2>4, <2>5, <2>6 DEF TypeOK
<1>2. /\ UNCHANGED <<nextId, capacity, closed, workers, dropped, sd>>
      /\ \A k \in Jobs \ {j} : UNCHANGED <<snap[k], task[k], requested[k], waiter[k]>>
  BY SMTT(60) DEF TypeOK, TaskStep, HandleStep, Return, DiscardDone, Finish, Panic, Interrupt, End,
         Report, ObserveCancel, Cancel, WaitCheck, WaitWake, ownerVars
<1>3. /\ JobInv(j)'
      /\ task'[j].pc # "none"
      /\ task[j].pc # "none"
      /\ task[j].pc = "ended" => task'[j] = task[j]
  <2>. USE DEF JobInv
  <2>1. CASE \E result \in {"Succeeded", "Failed"} : Return(j, result)
    BY <2>1 DEF Return, Commit, Discards, Complete, SatInc, Outcomes, Statuses, TypeOK, TaskPCs, NewSnapshot
  <2>2. CASE DiscardDone(j)
    BY <2>2 DEF DiscardDone, Commit, Discards, Complete, SatInc, Outcomes, Statuses, TypeOK, TaskPCs, NewSnapshot
  <2>3. CASE Finish(j)
    BY <2>3 DEF Finish, End, Commit, Discards, Complete, SatInc, Outcomes, Statuses, TypeOK, TaskPCs, NewSnapshot
  <2>4. CASE Panic(j) \/ Interrupt(j)
    <3>1. PICK r \in {"Panicked", "Interrupted"} : End(j, r, TRUE)
      BY Zenon, <2>4 DEF Panic, Interrupt
    <3>2. ~Complete(snap[j]) /\ task[j].pc \in {"work", "cleanup", "discard"}
      BY ZenonT(30), <2>4 DEF Panic, Interrupt
    <3>3. /\ task'[j] = [pc |-> "ended", err |-> TRUE]
          /\ snap'[j] = [snap[j] EXCEPT !.status = r, !.revision = SatInc(snap[j].revision)]
          /\ UNCHANGED <<nextId, requested, waiter>>
      BY <3>1, <3>2 DEF End, Commit, Discards, TypeOK
    <3>. QED
      BY <3>2, <3>3 DEF Complete, Outcomes, Statuses, TypeOK
  <2>5. CASE Report(j)
    BY <2>5 DEF Report, Progress, Complete, Outcomes, Statuses, TypeOK, TaskPCs, NewSnapshot
  <2>6. CASE ObserveCancel(j)
    BY SMTT(60), <2>6 DEF ObserveCancel, Complete, Outcomes, TypeOK, TaskPCs
  <2>7. CASE Cancel(j)
    BY SMTT(60), <2>7 DEF Cancel, RequestCancel, Complete, SatInc, Outcomes, Statuses, TypeOK, TaskPCs, NewSnapshot
  <2>8. CASE WaitCheck(j) \/ WaitWake(j)
    BY SMTT(60), <2>8 DEF WaitCheck, WaitWake, TypeOK
  <2>. QED
    BY ZenonT(30), <2>1, <2>2, <2>3, <2>4, <2>5, <2>6, <2>7, <2>8 DEF TaskStep, HandleStep
<1>4. \A k \in Jobs : JobInv(k)'
  BY <1>2, <1>3 DEF JobInv, Complete
<1>5. Live' \subseteq Live
  BY SMTT(60), <1>2, <1>3 DEF Live
<1>6. OwnerInv'
  <2>1. Cardinality(Live') <= capacity
    <3>1. Live \in SUBSET Jobs /\ Live' \in SUBSET Live
      BY SMTT(60), <1>5 DEF Live
    <3>. QED
      BY <3>1, SmallerIsBounded, CapacityIsPositive DEF OwnerInv
  <2>2. \A k \in Jobs : /\ task[k].pc # "none" => task'[k].pc # "none"
                        /\ task[k].err => task'[k].err
    BY <1>2, <1>3 DEF JobInv
  <2>. QED
    BY <1>2, <1>5, <2>1, <2>2 DEF OwnerInv, InShutdown, TypeOK
<1>. QED
  BY <1>1, <1>4, <1>6

\* JobOwner::start: a new task joins the reaped workers, or only reaping shows.
LEMMA StartStep ==
    ASSUME IndInv, NEW runtime \in BOOLEAN, Start(runtime)
    PROVE  IndInv'
<1>. USE JobAssumption DEF IndInv
<1>. DEFINE started == Cardinality(Reaped) < capacity /\ runtime /\ nextId < MaxId
<1>1. Reaped \in SUBSET workers /\ workers \in SUBSET Jobs /\ Live \subseteq Reaped
  BY DEF Reaped, Live, Ended, TypeOK, OwnerInv, Start, Unborrowed
<1>2. ~dropped /\ ~closed /\ sd.phase = "never"
  BY DEF Start, Unborrowed, OwnerInv
<1>3. CASE started
  <2>1. nextId \in Jobs
    BY <1>3 DEF Jobs, TypeOK
  <2>2. /\ workers' = Reaped \cup {nextId}
        /\ nextId' = nextId + 1
        /\ snap' = [snap EXCEPT ![nextId] = NewSnapshot]
        /\ task' = [task EXCEPT ![nextId].pc = "work"]
        /\ UNCHANGED <<capacity, closed, dropped, sd, waiter, requested>>
    BY <1>3 DEF Start
  <2>3. task[nextId].pc = "none" /\ snap[nextId] = NewSnapshot /\ ~task[nextId].err
    BY <2>1 DEF JobInv, TypeOK
  <2>4. snap' = snap
    BY <2>2, <2>3 DEF TypeOK
  <2>5. TypeOK'
    BY <1>1, <1>3, <2>1, <2>2, <2>4 DEF TypeOK, TaskPCs
  <2>6. \A k \in Jobs : JobInv(k)'
    BY SMTT(60), <2>1, <2>2, <2>3, <2>4 DEF JobInv, TypeOK, NewSnapshot, Complete, Outcomes, Jobs
  <2>7. Live' = Live \cup {nextId}
    BY <2>1, <2>2 DEF Live, TypeOK
  <2>8. Live' \in SUBSET workers' /\ workers' \in SUBSET Jobs
    BY <1>1, <2>1, <2>2, <2>7
  <2>9. Cardinality(workers') <= capacity
    BY ZenonT(30), <1>1, <1>3, <2>2, OneMoreIsBounded, CapacityIsPositive
  <2>10. Cardinality(Live') <= capacity
    BY <2>8, <2>9, SmallerIsBounded, CapacityIsPositive
  <2>11. \A k \in Jobs : /\ task[k].pc # "none" => task'[k].pc # "none"
                         /\ task[k].err => task'[k].err
    BY <2>2 DEF TypeOK
  <2>12. \A k \in workers' : task'[k].pc # "none"
    BY <1>1, <2>1, <2>2, <2>11 DEF OwnerInv, TypeOK
  <2>13. OwnerInv'
    BY <1>2, <2>2, <2>8, <2>9, <2>10, <2>11, <2>12 DEF OwnerInv, InShutdown, TypeOK
  <2>. QED
    BY <2>5, <2>6, <2>13
<1>4. CASE ~started
  <2>1. workers' = Reaped /\ UNCHANGED <<nextId, snap, task, capacity, closed, dropped, sd, waiter, requested>>
    BY <1>4 DEF Start
  <2>2. TypeOK'
    BY <1>1, <2>1 DEF TypeOK
  <2>3. \A k \in Jobs : JobInv(k)'
    BY <2>1 DEF JobInv, Complete
  <2>4. Cardinality(Reaped) <= capacity
    BY SMTT(60), <1>1, SmallerIsBounded, CapacityIsPositive DEF OwnerInv
  <2>5. OwnerInv'
    BY <1>1, <1>2, <2>1, <2>4 DEF OwnerInv, InShutdown, Live
  <2>. QED
    BY <2>2, <2>3, <2>5
<1>. QED
  BY <1>3, <1>4

\* close, drop and the beginning of shutdown cancel whatever is owned.
LEMMA CloseStep ==
    ASSUME IndInv, Close \/ Drop \/ ShutdownBegin
    PROVE  IndInv'
<1>. USE JobAssumption DEF IndInv
<1>1. /\ closed' = TRUE /\ CancelOwned /\ Unborrowed
      /\ UNCHANGED <<nextId, task, capacity, waiter>>
  BY DEF Close, Drop, ShutdownBegin
<1>2. \A k \in Jobs : /\ snap'[k] = IF k \in workers THEN RequestCancel(snap[k]) ELSE snap[k]
                      /\ requested'[k] = IF k \in workers /\ snap[k].status = "Running"
                                         THEN requested[k] + 1 ELSE requested[k]
  BY <1>1 DEF CancelOwned
<1>3. \A k \in Jobs : snap'[k] \in [revision : 0 .. MaxRev, requested : BOOLEAN, status : Statuses]
  <2>. SUFFICES ASSUME NEW k \in Jobs
                PROVE  snap'[k] \in [revision : 0 .. MaxRev, requested : BOOLEAN, status : Statuses]
    OBVIOUS
  <2>1. snap[k] \in [revision : 0 .. MaxRev, requested : BOOLEAN, status : Statuses] /\ "Failed" \in Outcomes
    BY DEF TypeOK, Outcomes
  <2>. QED
    BY <1>2, <2>1, SnapshotTypes
<1>4. TypeOK'
  <2>1. snap' \in [Jobs -> [revision : 0 .. MaxRev, requested : BOOLEAN, status : Statuses]]
    BY <1>1, <1>3 DEF CancelOwned
  <2>2. requested' \in [Jobs -> Nat]
    BY SMTT(60), <1>1 DEF CancelOwned, TypeOK
  <2>3. dropped' \in BOOLEAN /\ workers' \subseteq Jobs
    BY Zenon DEF Close, Drop, ShutdownBegin, TypeOK
  <2>4. sd' \in [phase : SdPhases, expired : BOOLEAN, unresponsive : SUBSET Jobs, failures : SUBSET Jobs]
    <3>1. CASE ShutdownBegin
      BY <3>1 DEF ShutdownBegin, SdPhases
    <3>2. CASE Close \/ Drop
      BY <3>2 DEF Close, Drop, TypeOK
    <3>. QED
      BY <3>1, <3>2
  <2>. QED
    BY <1>1, <2>1, <2>2, <2>3, <2>4 DEF TypeOK
<1>5. \A k \in Jobs : JobInv(k)'
  <2>. SUFFICES ASSUME NEW k \in Jobs PROVE JobInv(k)'
    OBVIOUS
  <2>1. CASE k \in workers
    <3>1. task[k].pc # "none" /\ snap'[k] = RequestCancel(snap[k])
      BY SMTT(60), <1>2, <2>1 DEF OwnerInv
    <3>. QED
      BY SMTT(60), <1>1, <1>2, <2>1, <3>1 DEF JobInv, RequestCancel, SatInc, Complete, Outcomes, Statuses, TypeOK
  <2>2. CASE k \notin workers
    BY <1>1, <1>2, <2>2 DEF JobInv, Complete, TypeOK
  <2>. QED
    BY <2>1, <2>2
<1>6. Live' = Live
  BY <1>1 DEF Live
<1>7. OwnerInv'
  <2>1. CASE Close
    BY <1>1, <1>6, <2>1 DEF OwnerInv, Close, InShutdown, Unborrowed
  <2>2. CASE Drop
    <3>1. Cardinality(workers') <= capacity
      BY SMTT(60), <2>2, FS_EmptySet, CapacityIsPositive DEF Drop
    <3>. QED
      BY <1>1, <1>6, <2>2, <3>1 DEF OwnerInv, Drop, InShutdown, Unborrowed
  <2>3. CASE ShutdownBegin
    BY <1>1, <1>6, <2>3 DEF OwnerInv, ShutdownBegin, InShutdown, Unborrowed
  <2>. QED
    BY SMTT(60), <2>1, <2>2, <2>3
<1>. QED
  BY <1>4, <1>5, <1>7

\* The shutdown future: only workers and sd change.
LEMMA ShutdownStepInv ==
    ASSUME IndInv, ShutdownStep \/ Expire \/ ShutdownAbandon
    PROVE  IndInv'
<1>. USE JobAssumption DEF IndInv
<1>1. UNCHANGED <<nextId, snap, task, capacity, closed, dropped, waiter, requested>>
  BY ZenonT(30) DEF ShutdownStep, PollJoin, PollTimer, ShutdownReturn, Expire, ShutdownAbandon, ownerVars
<1>2. \A k \in Jobs : JobInv(k)'
  BY <1>1 DEF JobInv, Complete
<1>3. Live' = Live
  BY SMTT(60), <1>1 DEF Live
<1>4. sd.phase \in {"join", "timer"} /\ ~dropped /\ closed /\ sd.unresponsive \subseteq workers
  BY Zenon DEF ShutdownStep, PollJoin, PollTimer, ShutdownReturn, Expire, ShutdownAbandon, InShutdown, OwnerInv
<1>5. ASSUME NEW j \in Jobs, PollJoin(j) PROVE TypeOK' /\ OwnerInv'
  <2>1. CASE task[j].pc = "ended"
    <3>1. /\ workers' = workers \ {j} /\ AtIndex(j) /\ sd.phase = "join"
          /\ sd' = [sd EXCEPT !.failures = IF task[j].err THEN @ \cup {j} ELSE @]
      BY <1>5, <2>1 DEF PollJoin
    <3>2. workers \in SUBSET Jobs /\ workers' \in SUBSET workers /\ Live \subseteq workers'
      BY <1>4, <2>1, <3>1 DEF TypeOK, OwnerInv, Live
    <3>3. Cardinality(workers') <= capacity
      BY <3>2, SmallerIsBounded, CapacityIsPositive DEF OwnerInv
    <3>4. TypeOK'
      BY Zenon, <1>1, <3>1, <3>2 DEF TypeOK
    <3>. QED
      BY <1>1, <1>3, <1>4, <3>1, <3>2, <3>3, <3>4 DEF OwnerInv, InShutdown, AtIndex, TypeOK
  <2>2. CASE task[j].pc # "ended"
    <3>1. workers' = workers /\ sd' = [sd EXCEPT !.phase = "timer"]
      BY <1>5, <2>2 DEF PollJoin
    <3>. QED
      BY Zenon, <1>1, <1>3, <1>4, <3>1 DEF OwnerInv, InShutdown, TypeOK, SdPhases
  <2>. QED
    BY <2>1, <2>2
<1>6. ASSUME NEW j \in Jobs, PollTimer(j) PROVE TypeOK' /\ OwnerInv'
  <2>1. /\ sd' = [sd EXCEPT !.phase = "join",
                            !.unresponsive = IF sd.expired THEN @ \cup {j} ELSE @]
        /\ workers' = workers /\ j \in workers
    BY <1>6 DEF PollTimer, AtIndex, ownerVars
  <2>. QED
    BY Zenon, <1>1, <1>3, <1>4, <2>1 DEF OwnerInv, InShutdown, TypeOK, SdPhases
<1>7. CASE ShutdownReturn
  <2>1. /\ sd' = [sd EXCEPT !.phase = "returned"] /\ workers' = workers
        /\ workers = sd.unresponsive
    BY Zenon, <1>4, <1>7 DEF ShutdownReturn, ownerVars
  <2>2. TypeOK'
    BY <1>1, <2>1 DEF TypeOK, SdPhases
  <2>3. sd'.phase = "returned" /\ sd'.unresponsive = workers /\ sd'.failures = sd.failures
    BY <2>1 DEF TypeOK
  <2>4. OwnerInv'
    BY <1>1, <1>3, <1>4, <2>1, <2>3 DEF OwnerInv, InShutdown
  <2>. QED
    BY <1>2, <2>2, <2>4
<1>8. CASE Expire \/ ShutdownAbandon
  BY ZenonT(30), <1>1, <1>2, <1>3, <1>4, <1>8 DEF Expire, ShutdownAbandon, OwnerInv, InShutdown, TypeOK, SdPhases, ownerVars
<1>. QED
  BY SMTT(60), <1>2, <1>5, <1>6, <1>7, <1>8 DEF ShutdownStep

\* IndInv is inductive.
LEMMA IndInvNext == IndInv /\ [Next]_vars => IndInv'
<1>. SUFFICES ASSUME IndInv, [Next]_vars PROVE IndInv'
  OBVIOUS
<1>1. CASE UNCHANGED vars
  BY <1>1 DEF vars, IndInv, TypeOK, JobInv, OwnerInv, Complete, InShutdown, Live
<1>2. CASE \E j \in Jobs : TaskStep(j) \/ HandleStep(j)
  BY <1>2, JobStep
<1>3. CASE \E runtime \in BOOLEAN : Start(runtime)
  BY <1>3, StartStep
<1>4. CASE Close \/ Drop \/ ShutdownBegin
  BY <1>4, CloseStep
<1>5. CASE ShutdownStep \/ Expire \/ ShutdownAbandon
  BY <1>5, ShutdownStepInv
<1>. QED
  BY <1>1, <1>2, <1>3, <1>4, <1>5 DEF Next, OwnerStep

LEMMA Invariance == Spec => []IndInv
  BY IndInvInit, IndInvNext, PTL DEF Spec

\* Job is type correct: in particular no revision ever leaves its width.
THEOREM JobTypeCorrect == Spec => []TypeOK
<1>1. IndInv => TypeOK
  BY DEF IndInv
<1>. QED
  BY <1>1, Invariance, PTL

\* Cancellation and success are linearised for any number of jobs and handles.
THEOREM JobCancellationLinearised == Spec => []CancellationLinearised
<1>1. IndInv => CancellationLinearised
  BY DEF IndInv, JobInv, CancellationLinearised
<1>. QED
  BY <1>1, Invariance, PTL

\* A result is published by, and only by, the worker leaving.
THEOREM JobResultIffWorkerLeft == Spec => []ResultIffWorkerLeft
<1>1. IndInv => ResultIffWorkerLeft
  BY DEF IndInv, JobInv, ResultIffWorkerLeft
<1>. QED
  BY <1>1, Invariance, PTL

\* Never more than Capacity tasks run, whatever is reaped, closed or dropped.
THEOREM JobBoundedConcurrency == Spec => []BoundedConcurrency
<1>1. IndInv => BoundedConcurrency
  BY DEF IndInv, OwnerInv, BoundedConcurrency
<1>. QED
  BY <1>1, Invariance, PTL

\* Every shutdown report accounts for every task that still runs.
THEOREM JobReportAccountsForAll == Spec => []ReportAccountsForAll
<1>1. IndInv => ReportAccountsForAll
  BY SMTT(60) DEF IndInv, OwnerInv, JobInv, ReportAccountsForAll, TypeOK
<1>. QED
  BY <1>1, Invariance, PTL

\* Whatever the step, a snapshot changes only by one of the three transitions.
LEMMA SnapshotStep ==
    ASSUME IndInv, [Next]_vars, NEW j \in Jobs, snap'[j] # snap[j]
    PROVE  \/ snap'[j] = RequestCancel(snap[j])
           \/ snap'[j] = Progress(snap[j])
           \/ \E r \in Outcomes : snap'[j] = Commit(snap[j], r)
<1>1. CASE \E k \in Jobs : TaskStep(k) \/ HandleStep(k)
  <2>1. PICK k \in Jobs : TaskStep(k) \/ HandleStep(k)
    BY <1>1
  <2>2. k = j
    BY <2>1 DEF IndInv, TypeOK, TaskStep, HandleStep, Return, DiscardDone, Finish, Panic,
                Interrupt, End, Report, ObserveCancel, Cancel, WaitCheck, WaitWake
  <2>. QED
    BY <2>1, <2>2 DEF IndInv, TypeOK, TaskStep, HandleStep, Return, DiscardDone, Finish, Panic,
                Interrupt, End, Report, ObserveCancel, Cancel, WaitCheck, WaitWake, Outcomes
<1>2. CASE \E runtime \in BOOLEAN : Start(runtime)
  <2>1. snap' = snap
    BY SMTT(60), <1>2, JobAssumption DEF Start, IndInv, TypeOK, JobInv, Jobs
  <2>. QED
    BY <2>1
<1>3. CASE Close \/ Drop \/ ShutdownBegin
  BY <1>3 DEF Close, Drop, ShutdownBegin, CancelOwned
<1>4. CASE UNCHANGED vars \/ ShutdownStep \/ Expire \/ ShutdownAbandon
  BY Zenon, <1>4 DEF vars, ShutdownStep, PollJoin, PollTimer, ShutdownReturn, Expire, ShutdownAbandon
<1>. QED
  BY <1>1, <1>2, <1>3, <1>4 DEF Next, OwnerStep

\* Every visible change of a snapshot raises its revision strictly, and a
\* retained result never changes again.
THEOREM JobSnapshotsAdvance == Spec => SnapshotsAdvance
<1>1. IndInv /\ [Next]_vars =>
        [\A j \in Jobs : snap'[j] # snap[j] =>
            ~Complete(snap[j]) /\ snap'[j].revision > snap[j].revision]_vars
  <2>. SUFFICES ASSUME IndInv, [Next]_vars, NEW j \in Jobs, snap'[j] # snap[j]
                PROVE  ~Complete(snap[j]) /\ snap'[j].revision > snap[j].revision
    OBVIOUS
  <2>0. ~Complete(snap[j])
    BY Zenon, SnapshotStep DEF RequestCancel, Progress, Commit, Complete, Outcomes
  <2>1. snap[j].revision \in 0 .. MaxRev /\ JobInv(j)
    BY DEF IndInv, TypeOK
  <2>2. ASSUME snap'[j] = RequestCancel(snap[j])
        PROVE  snap'[j].revision > snap[j].revision
    BY <2>1, <2>2, JobAssumption DEF RequestCancel, SatInc, JobInv
  <2>3. ASSUME snap'[j] = Progress(snap[j])
        PROVE  snap'[j].revision > snap[j].revision
    BY SMTT(60), <2>1, <2>3, JobAssumption DEF Progress, IndInv, TypeOK
  <2>4. ASSUME NEW r \in Outcomes, snap'[j] = Commit(snap[j], r)
        PROVE  snap'[j].revision > snap[j].revision
    <3>1. ~Complete(snap[j]) /\ snap'[j].revision = SatInc(snap[j].revision)
      BY <2>4 DEF Commit, IndInv, TypeOK
    <3>2. snap[j].status \in {"Running", "Cancelling"}
      BY <3>1 DEF Complete, IndInv, TypeOK, Statuses
    <3>. QED
      BY <2>1, <3>1, <3>2, JobAssumption DEF SatInc, JobInv
  <2>. QED
    BY <2>0, <2>2, <2>3, <2>4, SnapshotStep
<1>. QED
  BY <1>1, Invariance, PTL DEF Spec, SnapshotsAdvance
============================================================================
