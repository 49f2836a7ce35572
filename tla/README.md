# A TLA+ development for reiny

reiny is a Rust SDK for launches of cooperating modules: typed ports over an
exchangeable engine, components that share a process, component hosts in other
processes and on other machines, a deterministic step scheduler, cancellable
jobs, and a serial link to microcontrollers. This directory keeps the TLA+
models of the parts of it that have hard interleavings, the TLC configurations
that check them on small instances, and TLAPS proofs of the properties that
matter most. `PROJECT.json` maps every definition to the lines it models and
lists the hazards the properties are aimed at.

## The system and where it is modelled

| Part | Source (under `src/crates`) | Module | State |
|---|---|---|---|
| Jobs | `reiny/src/job` | `Job`, `JobProofs` | modelled, proved |
| Managed steps: gate, callers, driver | `reiny/src/component/step`, `reiny/src/step` | `StepGate` | modelled |
| Component host in one process | `reiny/src/component/{coordinator,worker,staged,host,handle}` | `Host` | modelled, validation only as verdicts |
| Hosted admission and shutdown state | `reiny/src/managed/admission.rs`, `reiny/src/shutdown.rs` | `Host` | the part a host uses |
| Link: contracts and declarations | `reiny-link/src/{link,wire}.rs` | `LinkContract`, `LinkDeclare`, `LinkDeclareProofs` | modelled, proved |
| Link: handshake, liveness, Data | `reiny-link/src/link.rs` | `Link` | modelled |
| Link: calls | `reiny-link/src/{link,host}.rs` | `LinkCalls`, `LinkCallsProofs` | modelled, proved |
| Process hosts and process steps | `reiny/src/component/process` | | planned |
| Host protocol, bindings, graph validation | `reiny-core/src` | | planned |
| Deployment owner, hosted admission, remote ownership | `reiny-launch/src/deployment` | | planned |
| Ports, owned children | `reiny/src/managed` | | planned |
| Local bus, publishers, subscribers, services, bridge | `reiny/src/{engine,pubsub,service,bridge}` | | planned |
| Manifests, preparation, artifacts | `reiny-launch/src/{modules,prepared,materialize,artifacts}` | | in part planned |
| C ABI | `reiny-ffi` | | planned last |
| Schema compiler, command line, adapters, macros, bindings | `reiny-build`, `reiny-cli`, `reiny-iceoryx2`, `reiny-ros2`, `reiny-macros`, `bindings` | | mostly input, output and code generation |

How the parts meet: a host (`Host`) opens contexts, admits them together and
releases their run hooks. When the group has steps, the coordinator holds a
step gate and joins a step driver. `StepGate` models that gate and driver in
full, with the host reduced to activation and stop. `Host` models the group in
full, with the gate reduced to closed, open or stopped and the driver reduced to
running, aborting and ended. `LinkDeclare` and `Link` share the rules of
`LinkContract`; `LinkCalls` takes the connection that `Link` establishes as a
choice.

## Job

State: one snapshot per job, as its watch channel holds it; where each spawned
task is; the owner's vector of workers, its closed flag and its capacity; the
shutdown future with its report; one waiter per watched job. The owner pushes
workers in identifier order and only removes them, so its vector is a set.

Every `send_if_modified` is one action (progress, cancellation, completion).
Completion after a cancellation takes two: the success value is destroyed
outside the channel's lock, and its destructor is user code that may panic.
`shutdown` is a sequence of joins against one deadline; it can be dropped at an
await and called again. The owner can be dropped at any time.

## StepGate

State: the gate under its mutex (`ready`, `stopped`, `seq`, `clock`, `active`),
the poisoned or disappeared gate (`lost`), the clock channel, the attempts, the
callers inside `try_step`, the request queue, the scheduler, the driver and the
waiters. A critical section is one action. The notification and the publication
that follow an unlock are separate actions, recorded in `owed` until they are
paid, because other threads run in between. `notify_waiters` wakes exactly the
futures enabled by then, which is why the program counters of the driver and of
the waiters distinguish registering, looking and parking. Admission takes the
lock twice, and the identity of the clock's `Arc` is a version number.

## Host

State: the published status, the watches and the two bounded queues, the
coordinator with its stage, one worker per instance, each context's retained
event and its admission, the gate and driver as the group sees them, and the
local admission controller. A hook may return, fail, panic, lose its endpoint or
never come back. A hook's result can arrive after a stop is already visible,
because a worker looks at its command only when it polls. The disturbances of a
behaviour are counted, and `MaxFaults` bounds them.

The head of the cleanup is as many steps as other threads can tell apart: the
group is Stopping (`Cleanup`), the ready admissions and then the tickets are
dropped one after the other (`DropReady`, `DropTicket`), the stop is broadcast
(`BroadcastStop`), the contexts are shut down one after the other
(`ShutContext`). An endpoint that is let go is two steps: its admission is taken
under the lock of the ports (`PortDropped`) and the loss is retained
(`LossRetained`), which workers and coordinator look for without that lock;
whoever needs the lock waits while the context is in `losing`. A run hook may
therefore start without readiness in two windows, and `RunsAdmitted` names
them: after the withdrawal and before the broadcast, and between the two halves
of a loss. `NoRunWhenDoomed` counts a loss from when it is retained.

The cleanup loop looks at its queue first and takes an ended task only after it
found the queue empty (`cleanupJoin`). The loop and the wait for the step driver
share one deadline, so a loop that it ends (`StopExpires`) decides about the
driver at once; only a loop that joined every task waits for it (`joinDriver`).

A run hook that returns (`RunReturns`) is a failure too, but leaves the gate to
the coordinator. A component is dropped after its stop hook, or without one if a
hook unwound (`Dropped`); a destructor that panics there, or while an
interrupted hook is dropped, ends the task (`Crash`).

## Link, LinkDeclare, LinkContract, LinkCalls

`LinkContract` holds the pure rules: which tables are well formed, which Hello
parses, when a peer's contract is accepted, to which port a hash on the wire
leads. Only 32-bit hashes of endpoints travel, and the hash is a constant
function that may collide. `LinkDeclare` is the declaration phase of both ends.
`Link` adds sessions: a queue per direction that loses frames, restarts of either
program with another contract, frames of an earlier program still on the wire,
and ages in place of clocks. The history variable `heard` holds the ends that
have taken a Hello of the program their peer runs now. From then on
`DeliveredAsDeclared` holds, however often the programs were restarted; before,
Data is judged by whatever table the end has, also one of a program that is gone.
An end's program either ticks before it feeds, as `Host::drive` does, or feeds
first, as the documented polling loop does.
`LinkCalls` models correlation numbers, the two tables of pending calls (the
link's slots and the host's registry), reservations, timeouts, disconnects, and
a wire that may lose, delay, reorder and repeat.

## Runs

| Run | What it asks | Bounds |
|---|---|---|
| `job` | Do cancellation and completion agree, is capacity kept, does a shutdown report account for every task, do waiters, close and shutdown end? | two jobs, capacity one or two, four revisions, one cooperative worker and one that need not be |
| `step_gate` | Cancel against commit, one dispatch per tick, honest "before dispatch", final faults, honest losses, a clock that never goes back | two callers, three attempts, two ticks, two nodes |
| `step_gate_live` | Does an interrupted attempt settle, does a stop reach the channel and the driver, does no waiter sleep on? | one caller, one attempt, one node, a waiter |
| `link_declare` | Do both ends judge a Hello alike, and does an accepted hash mean the same type at both? | every pair of small tables, colliding hashes |
| `link` | Is Data delivered only under the contract in force once the peer's Hello was taken, and does a disconnect follow real silence? | two restarts, two versions of the stream at each end, two frames per direction, timeout of one unit |
| `link_live` | Do both ends end up with each other's present contract, or apart if it is incompatible? | one restart, losses or a changed contract until things are stable |
| `link_calls` | Do the two tables agree, and does an answer reach its own call? | three callers, three numbers, two slots, five calls |
| `host` | Does an early loss or stop prevent every run, is readiness withdrawn, is the outcome honest, do the queues suffice? | two components, one disturbance on top of a requested stop, failing stop hooks and expired deadlines |
| `host_live` | Does every stop end? | one component, two disturbances |
| `link_mismatch` | Violated: Data of a mismatching type is dropped | the bounds of `link` |
| `link_calls_closed` | Violated: `Closed` means that the driver stopped | |
| `host_failure_lost` | Violated: the first failure is kept as primary | |

Why these bounds are enough to be interesting. Two jobs compete for one place,
and four revisions reach the two that are kept back for the cancellation and the
result. Three attempts on two ticks allow an early cancellation, its retry, and
an attempt after a commit; the third exhausts the identities. Three numbers for
three callers make the counter wrap while old answers are still on the wire;
five calls are needed for a number to come round. Two components are the fewest
for a peer to be committed and not yet released. The wire holds frames of the
old program behind which two of the new one fit, a Hello and the Data that relies
on it; of a program that restarts at most `TxCap` frames are still delivered. Two
restarts are the fewest with which both ends run another program than
the one its peer knows. The two versions of the stream are interchangeable, which
`link` uses as a symmetry; the run of `Link` with liveness has none.

Deadlock is checked in the link runs with a clock and in the host runs. It is
not in `job`, `step_gate`, `link_declare` and `link_calls`, where every actor may
be finished: all handles dropped, identities used up, tables frozen.

### Fairness

* `Job`: tasks that have left their work go on, the shutdown future is polled
  and its timer fires, waiters are polled, and a worker in `Cooperative` heeds
  its cancellation. Nothing is assumed of other workers, and no owner is assumed
  to close.
* `StepGate`: the driver, callers inside `try_step` and waiters are scheduled; an
  unlock is followed by its notification and its publication; a host that has
  begun to stop goes on. No node answers, no deadline passes and nobody cancels
  by assumption.
* `Link`: what disturbs the link stops in the end, and from then on the programs
  keep receiving and ticking. Fairness of the two together is enough: a tick waits
  for the frames on the wire and for the other end's tick, so neither end is left
  behind.
* `Host`: the coordinator is scheduled, configured stop deadlines fire, and a
  thread inside the drop of an endpoint leaves it. Nothing is assumed of hooks,
  workers or the driver.

Tokio's scheduler polls every woken task in the end, which is what weak fairness
says of these steps.

### Disagreements between text and code

* `link.rs:20-21` says that the fingerprint is checked at Hello "and Data of a
  mismatching type is dropped". A board of another version that was connected by a
  Hello which the host's earlier program left on the wire publishes to a host that
  still holds the earlier board's table; if the board's own Hello and
  acknowledgement are lost, its Data is handed over (`link_mismatch`).
* `CallError::Closed` is documented as "the driver stopped". It is returned when
  the peer is given up while the driver runs; when the driver stops, the caller
  gets `Timeout` (`link_calls_closed`).
* The repository's README says that the first failure is kept as `primary`. A
  failure sent between the cleanup loop's look at the queue and its look at the
  tasks is dropped, and the group ends as `Stopped` (`host_failure_lost`). The
  trace has one component whose context fails to open after the stop was
  requested.

Three more have no run of their own; the properties that do hold are stated
around them.

* `HostPhase::Stopping` is documented "Readiness is withdrawn and tasks are being
  joined" (`status.rs:107`). It is published before the first admission is dropped
  (`cleanup.rs:19-22`). `ReadinessWithdrawn` holds from the broadcast of the stop.
* `Event::Disconnected` is documented "Nothing was received for `timeout_ms`"
  (`link.rs:130`). An end that feeds before its first tick has no clock reading yet
  and takes the whole of the first one for silence. `Host::drive` ticks first, and
  `DisconnectedAfterSilence` is about such ends.
* `HostOutcome::Unresponsive` "lists the instances that didn't join" (`README.md`,
  line 229). When the step driver misses the deadline it lists every binding,
  joined ones included (`cleanup.rs:77-87`). `OutcomeIsHonest` says "at least".

## Proofs

All theorems hold for every value of the constants under the assumptions named
in the modules (`JobAssumption`, `LinkContractAssumption`,
`LinkDeclareAssumption`, `LinkCallsAssumption`, `NoneIsNoCaller`).

* `JobProofs`. The inductive invariant `IndInv` is `TypeOK`, `JobInv` of every job
  and `OwnerInv`. None of the safety properties is inductive alone: that a success
  is published only without a request needs the place of the task in its
  completion (`discard` only while `Cancelling`), that revisions grow strictly
  needs the two revisions kept back while the job runs, and that a report
  accounts for everything needs `Live \subseteq workers` until the owner is
  dropped. One lemma per group of actions (`JobStep`, `StartStep`, `CloseStep`,
  `ShutdownStepInv`) preserves it. Counting uses two lemmas on cardinalities.
  Proved: type correctness, the linearisation of cancellation and completion, a
  result exactly when the worker left, bounded concurrency, the report, and
  snapshots that advance strictly up to a result that stays.
* `LinkDeclareProofs`. `VerdictSymmetric`: acceptance is symmetric.
  `AcceptedDataAgrees` and `AcceptedRequestAgrees`: after acceptance a hash stands
  for one endpoint, because the acceptance rule refuses a collision among all
  addresses of both contracts, so the port found has the sender's type. With type
  correctness of the declarations this gives `DeclaredContractsAgree`, for every
  hash function.
* `LinkCallsProofs`. `IInv`, that is `TypeOK` with both halves of `TablesAgree`
  (`NumbersAgree` and `WaitingIsRegistered`), is inductive. Counting on from any
  number reaches every other one (`EveryNumberReached`), so the search for a
  number finds a free one unless all are in use (`NextSeqFree`).

Only model-checked: everything of `StepGate`, `Link` and `Host`, `AnswersCorrelate`
of `LinkCalls`, and all liveness. Liveness under fairness is beyond the proof
system.

## Not modelled

Payloads, encodings, logging and error texts. COBS framing and CRC are one step
that a damaged frame fails. In `Host` one declared endpoint stands for all of an
instance, and the validation of requests, reports and the graph is its verdict.
In `StepGate` values routed between nodes and the arithmetic of tick times are
left out. `PROJECT.json` gives the reason for every part that has no module.

## Hazards of the parts to come

Beside those listed in `PROJECT.json`:

* `step_client.rs:131`: an identifier refused for lack of room is consumed.
* `hosted/shutdown.rs:182`: exit, terminal outcome and stop deadline in any order.
* `deployment/cleanup.rs:64`: a child whose termination fails stays in the table.
* `pubsub.rs:303`: the retained value is replaced before the sample is sent, under
  no common lock.
* `pubsub.rs:802`: a full blocking queue stops the bus thread that also carries
  presence and queries.
* `managed/owned.rs:100`: a child may exit between its readiness and the
  registration of its report.
* `link.rs:1222`, `link.rs:929`, `link.rs:1170`: a transmit buffer too full for a frame,
  a peer with less room than this end, and slots that only a disconnect frees on
  a client without `Host`.

## Plan

1. `ProcessSteps`: owner, two hosts, channels cut in the middle of a frame, the
   replay guard and the idempotent client. Properties: a callback runs at most
   once per tick and node, in plan order across hosts; nothing is sent on a
   channel with an interrupted frame; a consumed identifier never runs again; no
   callback after an unknown outcome. To prove: at most once, from the guard's
   cursor and the channel's sequence numbers.
2. `HostSession` and `HostedAdmission`: the two ends of the host protocol. The
   abstract specification is a barrier: no host commits before all are prepared
   and none runs before all are committed. The owner over several sessions is to
   be shown to implement it, and its safety proved for any number of hosts.
3. `Deployment`: the owner's loop with apply, retries, cleanup and waiters; and
   `RemoteOwnership`: the durable record with a crash between any two steps,
   proved to block a second owner until reconciliation.
4. `LocalBus` with `Latched` (publisher and subscriber), services and the bridge:
   an older value never follows a newer one of the same publisher, and a
   publisher that stays is heard in the end. `Ports`: claims, drops, readiness and
   owned children of an ordinary module.
5. Pure algorithms: the step plan against the definition of a topological order,
   `validate_graph` and module connection against declarative definitions, bag
   playback.
6. Proofs: the inductive invariant of `StepGate` (slot, queue and driver agree on
   the one unsettled attempt), then cancel against commit and one dispatch per
   tick; `NoRunWhenDoomed` and `ReadinessWithdrawn` of `Host`.

To keep the set of runs small, `step_gate` and `step_gate_live`, and the two
passing runs of `Link`, are to be merged as the new modules arrive.
