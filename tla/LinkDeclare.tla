---------------------------- MODULE LinkDeclare -----------------------------
(***************************************************************************)
(* The declaration phase of the two ends of a link: publishes, subscribes, *)
(* rpc_server and rpc_client calls, in any order, until the first I/O      *)
(* freezes the table (crates/reiny-link/src/link.rs).                      *)
(***************************************************************************)
EXTENDS LinkContract

CONSTANTS
    Ends,      \* the two ends, by namespace
    Rows,      \* rows the static port table of each end may hold
    Capacity   \* the const parameter N of each end's Link

ASSUME LinkDeclareAssumption ==
    /\ Ends \subseteq Namespaces
    /\ Rows \in [Ends -> SUBSET Ports]
    /\ Capacity \in [Ends -> Nat]

VARIABLES
    local,     \* the ports each end declared
    started    \* the ends that began I/O

vars == <<local, started>>

Contract(e) == [id |-> e, ports |-> local[e]]

\* Rows that Link::new takes as one static table: each well formed, and no two
\* of them on the same side under the same name.
StaticTable(rows) ==
    /\ \A p \in rows : WellFormed(p)
    /\ \A p, q \in rows : p.name = q.name /\ SameSlot(p, q) => p = q

Init ==
    /\ local = [e \in Ends |-> {}]
    /\ started = {}

\* A possible mistake: the free slot is not looked for before the entry is made.
DeclareUnbounded(e, p) ==
    /\ e \notin started
    /\ StaticTable(local[e] \cup {p})
    /\ HelloParses([id |-> e, ports |-> local[e] \cup {p}])
    /\ local' = [local EXCEPT ![e] = @ \cup {p}]
    /\ UNCHANGED started

\* Link::declare: the port is entered, the Hello it would give is built and
\* parsed, and the entry is rolled back when that fails.
Declare(e, p) ==
    /\ e \notin started
    /\ StaticTable(local[e] \cup {p})
    /\ p \notin local[e] => Cardinality(local[e]) < Capacity[e]
    /\ HelloParses([id |-> e, ports |-> local[e] \cup {p}])
    /\ local' = [local EXCEPT ![e] = @ \cup {p}]
    /\ UNCHANGED started

\* Link::ensure_started, on the first feed, drain, tick or next.
EnsureStarted(e) ==
    /\ e \notin started
    /\ started' = started \cup {e}
    /\ UNCHANGED local

Next == \E e \in Ends : EnsureStarted(e) \/ \E p \in Rows[e] : Declare(e, p)

Spec == Init /\ [][Next]_vars

-----------------------------------------------------------------------------
(* Properties *)

\* Only well-formed rows of the static table are declared, never more than the
\* fixed arrays of the Link hold.
TypeOK ==
    /\ local \in [Ends -> SUBSET Ports]
    /\ started \subseteq Ends
    /\ \A e \in Ends : /\ local[e] \subseteq Rows[e]
                       /\ StaticTable(local[e])
                       /\ Cardinality(local[e]) <= Capacity[e]

\* Both ends reach the same verdict about each other as long as each has room
\* for the other's table: no end talks to a peer that rejects it, whatever the
\* tables are and however the 32-bit endpoint hashes collide.
ValidationSymmetric ==
    \A d, e \in Ends :
        /\ Cardinality(local[d]) <= Capacity[e]
        /\ Cardinality(local[e]) <= Capacity[d]
        => (ValidateHello(Contract(d), Contract(e), Capacity[d])
                <=> ValidateHello(Contract(e), Contract(d), Capacity[e]))

\* A Data frame is dispatched by its hash alone.  Once the Hello was accepted
\* the hash leads every subscription that wants it to the one output that sent
\* it, by exact name, and both were compiled against the same type.
DataTypesAgree ==
    \A d, e \in Ends :
        ValidateHello(Contract(d), Contract(e), Capacity[d]) =>
            \A hash \in {EndpointHash[a] : a \in Endpoints} :
                AcceptsData(Contract(d), Contract(e), hash) =>
                    \A p \in Consumers(Contract(d), hash, "sub"),
                       q \in Providers(Contract(e), hash) :
                        TakesFrom(p, e, q) /\ SameContract(p, q)

\* The same for a Request: the caller meant this very server, and both agree on
\* the request and the response type.
RequestTypesAgree ==
    \A d, e \in Ends :
        ValidateHello(Contract(d), Contract(e), Capacity[d]) =>
            \A hash \in {EndpointHash[a] : a \in Endpoints} :
                AcceptsRequest(Contract(d), Contract(e), hash) =>
                    \A p \in Providers(Contract(d), hash),
                       q \in Consumers(Contract(e), hash, "calls") :
                        TakesFrom(q, d, p) /\ SameContract(p, q)

\* What a hash on the wire leads to after an accepted Hello is what the sender
\* meant, for Data and for Requests, although hashes may collide.
AcceptedHashesAgree == DataTypesAgree /\ RequestTypesAgree
=============================================================================
