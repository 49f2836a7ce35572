----------------------------- MODULE LinkCalls ------------------------------
(***************************************************************************)
(* Calls over a link: the correlation numbers of Link, the registry of     *)
(* Host::call_raw and its reservations, and the driver that resolves them  *)
(* (crates/reiny-link/src/link.rs and host.rs).                            *)
(*                                                                         *)
(* The tables are keyed by endpoint hash and number, the counter is shared *)
(* by all endpoints; the calls here are all to one endpoint, where the     *)
(* numbers are scarcest.                                                   *)
(*                                                                         *)
(* The link comes up and goes down as module Link describes; here that is  *)
(* a choice.  The wire may lose, delay, reorder and repeat frames: a sent  *)
(* request or answer stays deliverable for ever.                           *)
(***************************************************************************)
EXTENDS Naturals, FiniteSets

CONSTANTS
    Callers,     \* tasks inside Host::call_raw
    SeqMod,      \* stands for the 2^8 sequence numbers
    Capacity,    \* const N: slots of Link::pending
    MayEnd,      \* the transport of the Host may end
    MaxCalls     \* bound of the exploration

ASSUME LinkCallsAssumption ==
    /\ SeqMod \in Nat \ {0} /\ Capacity \in Nat \ {0}
    /\ MayEnd \in BOOLEAN /\ MaxCalls \in Nat

Seqs == 0 .. (SeqMod - 1)

Ordinals == 1 .. MaxCalls

None == "none"

ASSUME NoneIsNoCaller == None \notin Callers

VARIABLES
    up,        \* connected to a peer that serves the endpoint
    driver,    \* the Host::drive task
    pending,   \* Link::pending: numbers in use
    reqSeq,    \* Link::req_seq
    calls,     \* Host::pending: the caller registered under a number
    caller,    \* per caller: pc, number and ordinal of its call, what its
               \* channel holds, and the ordinal of the call that was answered
    issued,    \* calls made so far; the ordinal tells them apart
    requests, answers   \* <<number, ordinal>> of the frames ever sent

vars == <<up, driver, pending, reqSeq, calls, caller, issued, requests, answers>>

Idle == [pc |-> "idle", seq |-> 0, call |-> 0, got |-> "nothing", of |-> 0]

Init ==
    /\ up = FALSE
    /\ driver = "running"
    /\ pending = {} /\ reqSeq = 0
    /\ calls = [n \in Seqs |-> None]
    /\ caller = [c \in Callers |-> Idle]
    /\ issued = 0
    /\ requests = {} /\ answers = {}

-----------------------------------------------------------------------------
(* Host::drive: one event of the Link, converted while it is locked *)

Connect ==
    /\ driver = "running" /\ ~up
    /\ up' = TRUE
    /\ UNCHANGED <<driver, pending, reqSeq, calls, caller, issued, requests, answers>>

\* A silent peer, a Hello that is refused, or a peer without the service.  Link
\* clears its numbers, convert the registry, dropping the senders in it.
Disconnect ==
    /\ driver = "running" /\ up
    /\ up' = FALSE
    /\ pending' = {}
    /\ calls' = [n \in Seqs |-> None]
    /\ caller' = [c \in Callers |->
                    IF \E n \in Seqs : calls[n] = c
                    THEN [caller[c] EXCEPT !.got = "closed"] ELSE caller[c]]
    /\ UNCHANGED <<driver, reqSeq, issued, requests, answers>>

\* Link::dispatch drops an answer that nobody waits for; otherwise the number is
\* free again and convert completes the registered call.
ReceiveAnswer(a) ==
    /\ driver = "running" /\ up
    /\ a[1] \in pending
    /\ pending' = pending \ {a[1]}
    /\ calls' = [calls EXCEPT ![a[1]] = None]
    /\ caller' = [c \in Callers |->
                    IF calls[a[1]] = c
                    THEN [caller[c] EXCEPT !.got = "answer", !.of = a[2]] ELSE caller[c]]
    /\ UNCHANGED <<up, driver, reqSeq, issued, requests, answers>>

\* The transport ended or failed.  Nobody clears the registry.
EndDriver ==
    /\ MayEnd /\ driver = "running"
    /\ driver' = "ended"
    /\ UNCHANGED <<up, pending, reqSeq, calls, caller, issued, requests, answers>>

\* The peer answers a request, with a Reply or an Error.
Answer(r) ==
    /\ r \notin answers
    /\ answers' = answers \cup {r}
    /\ UNCHANGED <<up, driver, pending, reqSeq, calls, caller, issued, requests>>

-----------------------------------------------------------------------------
(* Host::call_raw *)

\* A possible mistake: the first free number instead of the next one.
NextSeqLowest == CHOOSE n \in Seqs \ pending : \A m \in Seqs \ pending : n <= m

\* Link::emit_request: the first number from req_seq on that is not in use.
NextSeq ==
    LET free == {k \in Seqs : (reqSeq + k) % SeqMod \notin pending}
    IN  (reqSeq + CHOOSE k \in free : \A j \in free : k <= j) % SeqMod

\* A possible mistake: a call is made without a free slot.
CallOverfull(c) ==
    /\ caller[c].pc = "idle"
    /\ issued < MaxCalls
    /\ up
    /\ pending # Seqs
    /\ issued' = issued + 1
    /\ pending' = pending \cup {NextSeq}
    /\ reqSeq' = (NextSeq + 1) % SeqMod
    /\ calls' = [calls EXCEPT ![NextSeq] = c]
    /\ caller' = [caller EXCEPT ![c] =
                [pc |-> "waiting", seq |-> NextSeq, call |-> issued',
                 got |-> "nothing", of |-> 0]]
    /\ requests' = requests \cup {<<NextSeq, issued'>>}
    /\ UNCHANGED <<up, driver, answers>>

\* The request is queued and the caller registered under one lock.  A call that
\* is refused (no service, no slot, no number, full buffer) changes nothing.
Call(c) ==
    /\ caller[c].pc = "idle"
    /\ issued < MaxCalls
    /\ up
    /\ Cardinality(pending) < Capacity
    /\ pending # Seqs
    /\ issued' = issued + 1
    /\ pending' = pending \cup {NextSeq}
    /\ reqSeq' = (NextSeq + 1) % SeqMod
    /\ calls' = [calls EXCEPT ![NextSeq] = c]
    /\ caller' = [caller EXCEPT ![c] =
                [pc |-> "waiting", seq |-> NextSeq, call |-> issued',
                 got |-> "nothing", of |-> 0]]
    /\ requests' = requests \cup {<<NextSeq, issued'>>}
    /\ UNCHANGED <<up, driver, answers>>

\* The caller's task is polled: its channel has an answer or was dropped, or its
\* time is up (or the future is dropped).  The reservation goes afterwards.
Leave(c, result) ==
    /\ caller[c].pc = "waiting"
    /\ caller' = [caller EXCEPT ![c].pc = "leaving", ![c].got = result]
    /\ UNCHANGED <<up, driver, pending, reqSeq, calls, issued, requests, answers>>

Resolved(c) == caller[c].got # "nothing" /\ Leave(c, caller[c].got)

TimesOut(c) == caller[c].got = "nothing" /\ Leave(c, "timeout")

\* A possible mistake: the entry under the number is removed whosever it is.
DropReservationBlindly(c) ==
    /\ caller[c].pc = "leaving"
    /\ caller' = [caller EXCEPT ![c] = Idle]
    /\ calls' = [calls EXCEPT ![caller[c].seq] = None]
    /\ pending' = pending \ {caller[c].seq}
    /\ UNCHANGED <<up, driver, reqSeq, issued, requests, answers>>

\* CallReservation::drop: the entry is removed only if it is still this call's.
DropReservation(c) ==
    LET n == caller[c].seq
    IN  /\ caller[c].pc = "leaving"
        /\ caller' = [caller EXCEPT ![c] = Idle]
        /\ calls' = [calls EXCEPT ![n] = IF @ = c THEN None ELSE @]
        /\ pending' = IF calls[n] = c THEN pending \ {n} ELSE pending
        /\ UNCHANGED <<up, driver, reqSeq, issued, requests, answers>>

-----------------------------------------------------------------------------

Next ==
    \/ Connect \/ Disconnect \/ EndDriver
    \/ \E a \in answers : ReceiveAnswer(a)
    \/ \E r \in requests : Answer(r)
    \/ \E c \in Callers : Call(c) \/ Resolved(c) \/ TimesOut(c) \/ DropReservation(c)

Spec == Init /\ [][Next]_vars

-----------------------------------------------------------------------------
(* Properties *)

\* Shapes of the state; Link::pending never holds more than its slots.
TypeOK ==
    /\ up \in BOOLEAN /\ driver \in {"running", "ended"}
    /\ pending \subseteq Seqs /\ Cardinality(pending) <= Capacity
    /\ reqSeq \in Seqs
    /\ calls \in [Seqs -> Callers \cup {None}]
    /\ caller \in [Callers -> [pc : {"idle", "waiting", "leaving"}, seq : Seqs,
            call : 0 .. MaxCalls, of : 0 .. MaxCalls,
            got : {"nothing", "closed", "answer", "timeout"}]]
    /\ issued \in 0 .. MaxCalls
    /\ requests \subseteq Seqs \X Ordinals /\ answers \subseteq requests

\* Link::pending and Host::pending always name the same numbers, and each number
\* the one caller that uses it: no number is given out twice (the assertion in
\* call_raw) and no slot is kept for a caller that left.
NumbersAgree ==
    /\ pending = {n \in Seqs : calls[n] # None}
    /\ \A n \in pending : caller[calls[n]].pc # "idle" /\ caller[calls[n]].seq = n

\* A caller that waits with an empty channel is still registered, whatever timed
\* out, went round or disconnected meanwhile: its answer can reach it.
WaitingIsRegistered ==
    \A c \in Callers : caller[c].pc = "waiting" /\ caller[c].got = "nothing"
                        => calls[caller[c].seq] = c

\* The registries of a call are consistent: Link and Host agree on the numbers in
\* use and on their callers, and nobody waits unregistered (Host::call_raw).
TablesAgree == NumbersAgree /\ WaitingIsRegistered

\* An answer is given to the call it was meant for, or to one that came more than
\* SeqMod - Capacity calls later: only once the numbers have gone round can a
\* late or repeated answer be mistaken for another's.
AnswersCorrelate ==
    \A c \in Callers : caller[c].got = "answer" =>
        \/ caller[c].of = caller[c].call
        \/ caller[c].call - caller[c].of > SeqMod - Capacity

\* CallError::Closed is what a caller is told when the driver stopped.
ClosedMeansStopped ==
    \A c \in Callers : caller[c].pc = "leaving" /\ caller[c].got = "closed"
                        => driver = "ended"
=============================================================================
