-------------------------------- MODULE Link --------------------------------
(***************************************************************************)
(* The two ends of a point-to-point link: handshake, liveness, transmit    *)
(* buffer and the delivery of Data (crates/reiny-link/src/link.rs).        *)
(*                                                                         *)
(* The wire and the sender's transmit buffer are one queue per direction   *)
(* that loses frames.  Either program may be restarted, with the same or   *)
(* with another contract; frames that had left the buffer survive it.      *)
(* Clocks are kept as ages: the units of time since the last frame in and  *)
(* out, as wrapping_sub computes them.                                     *)
(***************************************************************************)
EXTENDS LinkContract, Sequences, Integers

CONSTANTS
    Ends,              \* the namespaces of the two ends
    Builds,            \* the contracts an end may be (re)started with
    Capacity,          \* const N: peer ports an end has room for
    TxCap,             \* frames the transmit buffer and the wire hold
    PingInterval, Timeout,
    TickFirst,         \* ends whose driver ticks before it feeds (Host::drive)
    Restarting,        \* ends whose program may be restarted
    Disturbances,      \* what may happen until things are stable: "loss" of
                       \* frames, "change" of a restarted program's contract,
                       \* or "any" of the two
    MaxRestarts        \* bound of the exploration

ASSUME LinkAssumption ==
    /\ \E d, e \in Namespaces : d # e /\ Ends = {d, e}
    /\ \A e \in Ends : \A c \in Builds[e] : c \in Contracts /\ c.id = e
    /\ \A n \in {TxCap, PingInterval, Timeout} : n \in Nat \ {0}
    /\ Capacity \in [Ends -> Nat]
    /\ TickFirst \subseteq Ends /\ Restarting \subseteq Ends
    /\ Disturbances \subseteq {"loss", "change", "any"}
    /\ MaxRestarts \in Nat

Peer == [e \in Ends |-> CHOOSE d \in Ends : d # e]

\* The verdict of hello_parse and Link::validate_hello, with each contract of an
\* end, on each of its peer's.
Accepts == [e \in Ends |-> [l \in Builds[e] |-> [h \in Builds[Peer[e]] |->
                HelloParses(h) /\ ValidateHello(l, h, Capacity[e])]]]

Nobody == [id |-> NoType, ports |-> {}]   \* peer and remote while not connected

VARIABLES
    link,     \* per end, the Link: contract, started, ticked (by the clock),
              \* peer contract, ages rx and tx, transmit queue out, of which
              \* the first old are an earlier program's
    due,      \* ends whose clock has not ticked in this unit of time
    boot,     \* restarts so far
    quiet,    \* per end, the ticks since its connected Link received a frame
    heard,    \* history: ends that took a Hello of the program their peer runs
    phase     \* the disturbance, or "stable": from now on nothing is lost,
              \* restarted or delayed

vars == <<link, due, boot, quiet, heard, phase>>

-----------------------------------------------------------------------------
(* Frames and the transmit buffer *)

\* from is not on the wire, except in a Hello: it is the sender's contract.
Frame(kind, c) == [kind |-> kind, from |-> c]

\* A possible mistake: one frame more than fits.
HasRoomLoose(l) == Len(l.out) - l.old <= TxCap

\* The first old frames of the queue are on the wire since before the program
\* was restarted and take no room in its buffer.
HasRoom(l) == Len(l.out) - l.old < TxCap

\* The wire gives up its first frame.
Shift(l) == [l EXCEPT !.out = Tail(@), !.old = IF @ = 0 THEN 0 ELSE @ - 1]

\* Link::emit: a frame that does not fit is dropped and last_tx_ms stays.
Emit(l, f) == IF HasRoom(l) THEN [l EXCEPT !.out = Append(@, f), !.tx = 0] ELSE l

\* Link::ensure_started
EnsureStarted(l) ==
    IF l.started THEN l ELSE Emit([l EXCEPT !.started = TRUE], Frame("Hello", l.contract))

Connected(l) == l.peer # Nobody

\* Link::validate_hello, with the comparison to the Hello that is in force.
HelloAccepted(l, f) ==
    /\ Connected(l) => l.peer = f.from
    /\ Accepts[l.contract.id][l.contract][f.from]

\* A possible mistake: a Hello is acknowledged only by an end that is not yet
\* connected.
OnHelloOnce(l, f) ==
    LET up == [l EXCEPT !.peer = f.from]
    IN  IF ~HelloAccepted(l, f) THEN [l EXCEPT !.peer = Nobody]
        ELSE IF f.kind = "HelloAck" \/ Connected(l) THEN up
        ELSE Emit(up, Frame("HelloAck", l.contract))

\* A possible mistake: a connected end ignores a Hello that it does not accept.
OnHelloKept(l, f) ==
    LET up == [l EXCEPT !.peer = f.from]
    IN  IF ~HelloAccepted(l, f) THEN l
        ELSE IF f.kind = "HelloAck" THEN up
        ELSE Emit(up, Frame("HelloAck", l.contract))

\* Link::on_hello
OnHello(l, f) ==
    LET up == [l EXCEPT !.peer = f.from]
    IN  IF ~HelloAccepted(l, f) THEN [l EXCEPT !.peer = Nobody]
        ELSE IF f.kind = "HelloAck" THEN up
        ELSE Emit(up, Frame("HelloAck", l.contract))

Fresh(c) == [contract |-> c, started |-> FALSE, ticked |-> FALSE,
             peer |-> Nobody, rx |-> 0, tx |-> 0, out |-> <<>>, old |-> 0]

Init ==
    /\ link \in {[e \in Ends |-> Fresh(f[e])] :
                  f \in {g \in [Ends -> UNION {Builds[e] : e \in Ends}] :
                            \A e \in Ends : g[e] \in Builds[e]}}
    /\ due = Ends
    /\ boot = 0
    /\ quiet = [e \in Ends |-> 0]
    /\ heard = {}
    /\ phase \in Disturbances

-----------------------------------------------------------------------------
(* Link::feed and Link::next of one whole frame *)

\* The first frame on the way to e.
Incoming(e) == Head(link[Peer[e]].out)

\* The end takes frames off the wire.
Listening(e) == e \in TickFirst => link[e].started

\* e's Link when it has taken the frame, before it looks at it.
Woken(e) == [EnsureStarted(link[e]) EXCEPT !.rx = 0]

\* e takes a frame and its Link becomes l.
Arrives(e, kinds, l) ==
    /\ Listening(e)
    /\ link[Peer[e]].out # <<>>
    /\ Incoming(e).kind \in kinds
    /\ link' = [link EXCEPT
                 ![Peer[e]] = Shift(@),
                 ![e] = l]
    /\ quiet' = [quiet EXCEPT ![e] = 0]
    /\ UNCHANGED <<due, boot, phase>>

ReceiveHello(e) ==
    /\ Arrives(e, {"Hello", "HelloAck"}, OnHello(Woken(e), Incoming(e)))
    /\ heard' = IF link[Peer[e]].old = 0 THEN heard \cup {e} ELSE heard

\* A Ping is only heard.  Data is handed to the application or dropped; neither
\* changes the Link.
ReceivePing(e) == Arrives(e, {"Ping"}, Woken(e)) /\ UNCHANGED heard

ReceiveData(e) == Arrives(e, {"Data"}, Woken(e)) /\ UNCHANGED heard

\* Link::dispatch hands the Data frame of the output with this hash to the
\* application.
Delivers(e, hash) ==
    /\ Connected(link[e])
    /\ AcceptsData(link[e].contract, link[e].peer, hash)

-----------------------------------------------------------------------------
(* Link::tick *)

Min(m, n) == IF m < n THEN m ELSE n

\* A possible mistake: the peer is given up one unit early.
TickedEarly(l) ==
    IF Connected(l) /\ l.rx >= Timeout THEN [l EXCEPT !.peer = Nobody]
    ELSE IF l.tx < PingInterval THEN l
    ELSE Emit(l, Frame(IF Connected(l) THEN "Ping" ELSE "Hello", l.contract))

\* tick of a started Link whose ages have been brought up to date.
Ticked(l) ==
    IF Connected(l) /\ l.rx > Timeout THEN [l EXCEPT !.peer = Nobody]
    ELSE IF l.tx < PingInterval THEN l
    ELSE Emit(l, Frame(IF Connected(l) THEN "Ping" ELSE "Hello", l.contract))

\* now is read by the first tick only: until then last_rx_ms and last_tx_ms are
\* 0, so that a Link that was fed before it was ticked takes the whole reading
\* of the clock for an age.
AfterTick(l, now) ==
    IF ~l.started THEN EnsureStarted([l EXCEPT !.rx = 0, !.ticked = TRUE])
    ELSE IF ~l.ticked
    THEN Ticked([l EXCEPT !.ticked = TRUE, !.rx = now, !.tx = Min(now, PingInterval)])
    ELSE Ticked([l EXCEPT !.rx = @ + 1, !.tx = Min(@ + 1, PingInterval)])

\* rx is not read while the Link is not connected, and written before it is.
Forget(l) == IF Connected(l) THEN l ELSE [l EXCEPT !.rx = 0]

\* Clocks run at one rate.  Once stable, a frame is delivered in the unit of
\* time it was sent in.
Tick(e, now) ==
    /\ e \in due
    /\ now = 0 \/ (link[e].started /\ ~link[e].ticked)
    /\ phase = "stable" /\ due = Ends => \A d \in Ends : Listening(d) => link[Peer[d]].out = <<>>
    /\ due' = IF due = {e} THEN Ends ELSE due \ {e}
    /\ link' = [link EXCEPT ![e] = Forget(AfterTick(@, now))]
    /\ quiet' = [quiet EXCEPT ![e] = IF Connected(link'[e]) THEN @ + 1 ELSE 0]
    /\ UNCHANGED <<boot, heard, phase>>

-----------------------------------------------------------------------------
(* The applications, the wire and the programs' lives *)

\* Link::send on an output the peer subscribes to; at most one Data frame of an
\* end is on the way.
Send(e) ==
    /\ phase # "stable"
    /\ Connected(link[e])
    /\ \E p \in link[e].contract.ports :
        /\ p.dir = "pub"
        /\ Consumers(link[e].peer, EndpointHash[<<e, p.name>>], "sub") # {}
    /\ HasRoom(link[e])
    /\ \A i \in DOMAIN link[e].out : link[e].out[i].kind # "Data"
    /\ link' = [link EXCEPT ![e] = Emit(@, Frame("Data", @.contract))]
    /\ UNCHANGED <<due, boot, quiet, heard, phase>>

\* A frame is lost, or fails its CRC at the other end.
Lose(e) ==
    /\ phase \in {"loss", "any"}
    /\ link[e].out # <<>>
    /\ link' = [link EXCEPT ![e] = Shift(@)]
    /\ UNCHANGED <<due, boot, quiet, heard, phase>>

\* The program of one end is started again.  Its first k frames are already on
\* the wire, which keeps no more of them than TxCap.
Restart(e, c, k) ==
    /\ phase # "stable" /\ boot < MaxRestarts
    /\ phase = "loss" => c = link[e].contract
    /\ boot' = boot + 1
    /\ link' = [link EXCEPT ![e] =
                [Fresh(c) EXCEPT !.out = SubSeq(link[e].out, 1, k), !.old = k]]
    /\ quiet' = [quiet EXCEPT ![e] = 0]
    /\ heard' = {}
    /\ UNCHANGED <<due, phase>>

Stabilise ==
    /\ phase \in {"loss", "change"}
    /\ phase' = "stable"
    /\ UNCHANGED <<link, due, boot, quiet, heard>>

Receive(e) == ReceiveHello(e) \/ ReceivePing(e) \/ ReceiveData(e)

Ticks(e) == \E now \in 0 .. (Timeout + 1) : Tick(e, now)

Next ==
    \/ \E e \in Ends : Receive(e) \/ Ticks(e) \/ Send(e) \/ Lose(e)
    \/ \E e \in Restarting : \E c \in Builds[e], k \in 0 .. Min(TxCap, Len(link[e].out)) : Restart(e, c, k)
    \/ Stabilise

Spec == Init /\ [][Next]_vars

\* The disturbances end, and then the drivers go on receiving and ticking; none
\* is left behind, because a tick waits for what is on the wire and for the tick
\* of the other end.
FairSpec ==
    /\ Spec
    /\ WF_vars(Stabilise)
    /\ WF_vars(phase = "stable" /\ \E e \in Ends : Receive(e) \/ Ticks(e))

-----------------------------------------------------------------------------
(* Properties *)

\* Shapes and bounds of the state: the transmit buffer is never overrun, the
\* peer's table is one that fits the fixed arrays.
TypeOK ==
    /\ \A e \in Ends :
        /\ link[e].contract \in Builds[e]
        /\ link[e].peer \in Builds[Peer[e]] \cup {Nobody}
        /\ Cardinality(link[e].peer.ports) <= Capacity[e]
        /\ link[e].started \in BOOLEAN /\ link[e].ticked \in BOOLEAN
        /\ link[e].rx \in 0 .. Timeout /\ link[e].tx \in 0 .. PingInterval
        /\ link[e].old \in 0 .. Len(link[e].out)
        /\ Len(link[e].out) - link[e].old <= TxCap
        /\ \A i \in DOMAIN link[e].out :
            link[e].out[i] \in [kind : {"Hello", "HelloAck", "Ping", "Data"},
                                from : Builds[e]]
        /\ quiet[e] \in 0 .. (Timeout + 2)
    /\ due \subseteq Ends /\ due # {} /\ heard \subseteq Ends
    /\ boot \in 0 .. MaxRestarts /\ phase \in Disturbances \cup {"stable"}

\* The next frame for e is Data that Link::dispatch hands to the application as
\* the output a.
HandsOver(e, a) ==
    /\ link[Peer[e]].out # <<>>
    /\ Incoming(e).kind = "Data"
    /\ Delivers(e, EndpointHash[a])

\* From the moment an end has taken one Hello of the program that its peer runs,
\* it hands over only Data sent under the very contract it has in force, which is
\* one that its own program accepts: whatever was lost, however often either
\* program was restarted before, and whatever their earlier lives left on the
\* wire.  Until that Hello it may go by the table of an earlier program.
DeliveredAsDeclared ==
    \A e \in heard : \A a \in Endpoints : HandsOver(e, a) =>
        /\ Incoming(e).from = link[e].peer
        /\ Accepts[e][link[e].contract][link[e].peer]

\* "The schema fingerprint is checked exactly once, at Hello, and Data of a
\* mismatching type is dropped": what a program published is handed over only to
\* a subscriber of the same type.
MismatchDropped ==
    \A e \in Ends : \A a \in Endpoints : HandsOver(e, a) =>
        \A p \in link[e].contract.ports, q \in Incoming(e).from.ports :
            p.dir = "sub" /\ a \in p.sources /\ q.dir = "pub" /\ a = <<Peer[e], q.name>>
                => p.type = q.type

\* A tick, the only step that changes due, gives up a peer of e that was heard
\* within the timeout.
GivesUpEarly(e) ==
    /\ due' # due
    /\ Connected(link[e]) /\ ~Connected(link'[e])
    /\ quiet[e] < Timeout

\* "Nothing was received for `timeout_ms`": an end driven like Host::drive, which
\* ticks before it feeds, gives its peer up only then, however old the last frame
\* it sent itself.  It is not true of an end that feeds first: its first tick
\* takes the whole reading of the clock for silence.
DisconnectedAfterSilence == [][\A e \in TickFirst : ~GivesUpEarly(e)]_vars

\* After the last disturbance, which was either loss or a change, both ends are
\* connected for good and know each other's current contract, or, if they reject
\* each other, stay apart.
Settled ==
    \A e \in Ends :
        link[e].peer =
            IF Accepts[e][link[e].contract][link[Peer[e]].contract]
            THEN link[Peer[e]].contract ELSE Nobody

ViewsConverge == <>[]Settled
=============================================================================
