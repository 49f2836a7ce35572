---------------------------- MODULE LinkContract ----------------------------
(***************************************************************************)
(* The named-port contracts two ends of a reiny-link exchange in their     *)
(* Hello, and the rules by which an end accepts its peer's                 *)
(* (crates/reiny-link/src/link.rs and wire.rs).                            *)
(*                                                                         *)
(* A contract is [id, ports].  A port carries its direction, the message   *)
(* type (name and fingerprint as one value), the response type of an RPC   *)
(* and the exact endpoints it takes its input from.  An endpoint is the    *)
(* pair <<namespace, port name>>; only its 32-bit hash rides on frames.    *)
(***************************************************************************)
EXTENDS Naturals, FiniteSets

CONSTANTS
    Namespaces, Names,   \* canonical ids and port names
    Types,               \* message name together with schema fingerprint
    NoType,              \* the absent response of a stream port
    EndpointHash         \* wire::endpoint_hash, which may collide

Endpoints == Namespaces \X Names

ASSUME LinkContractAssumption ==
    /\ NoType \notin Types
    /\ DOMAIN EndpointHash = Endpoints

Offers == {"pub", "serve"}      \* directions that own their endpoint
Services == {"serve", "calls"}  \* directions with a response contract

Ports == [name : Names, dir : {"pub", "sub", "serve", "calls"}, type : Types,
          response : Types \cup {NoType}, sources : SUBSET Endpoints]

Contracts == [id : Namespaces, ports : SUBSET Ports]

\* One row of the static table, as Link::new and hello_parse accept it.
WellFormed(p) ==
    /\ p.dir \in Services <=> p.response # NoType
    /\ p.dir \in Offers => p.sources = {}
    /\ p.dir = "sub" => p.sources # {}
    /\ p.dir = "calls" => \E s \in p.sources : p.sources = {s}

\* A possible mistake: the collision check looks at own ports only.
AddressesWithoutSources(c) == {<<c.id, p.name>> : p \in c.ports}

\* Every endpoint a contract names: its own ports and their sources.
Addresses(c) == {<<c.id, p.name>> : p \in c.ports}
                    \cup UNION {p.sources : p \in c.ports}

\* No hash stands for two endpoints of these.
Injective(S, T) ==
    \A x \in S, y \in T : EndpointHash[x] = EndpointHash[y] => x = y

\* The message, response and kind of interaction are the same.
SameContract(p, q) ==
    /\ p.type = q.type
    /\ p.response = q.response
    /\ p.dir \in Services <=> q.dir \in Services

SameSlot(p, q) == p.dir \in Offers <=> q.dir \in Offers

\* wire::hello_parse: a Hello is taken whole or not at all.
HelloParses(c) ==
    /\ \A p \in c.ports : WellFormed(p)
    /\ \A p, q \in c.ports :
        p # q => /\ p.sources \cap q.sources # {} => SameContract(p, q)
                 /\ ~(p.name = q.name /\ SameSlot(p, q))
    /\ Injective(Addresses(c), Addresses(c))

\* p takes its input from port q of the contract whose id is given.
TakesFrom(p, id, q) == <<id, q.name>> \in p.sources /\ q.dir \in Offers

\* A possible mistake: only what this end takes is compared, not what the peer
\* takes from it.
ValidateHelloOneWay(l, h, n) ==
    /\ Cardinality(h.ports) <= n
    /\ \A p \in l.ports, q \in h.ports :
        TakesFrom(p, h.id, q) => SameContract(p, q)
    /\ Injective(Addresses(l), Addresses(h))

\* Link::validate_hello, on the end that declared l and has capacity for n
\* entries, of a Hello that parsed.
ValidateHello(l, h, n) ==
    /\ Cardinality(h.ports) <= n
    /\ \A p \in l.ports, q \in h.ports :
        TakesFrom(p, h.id, q) \/ TakesFrom(q, l.id, p) => SameContract(p, q)
    /\ Injective(Addresses(l), Addresses(h))

\* Link::local_source and Link::remote_source: a port of that direction with a
\* source of that hash.
Consumers(c, hash, dir) ==
    {p \in c.ports : p.dir = dir /\ \E s \in p.sources : EndpointHash[s] = hash}

\* Link::local_type and Link::remote_type: the offer behind a hash.
Providers(c, hash) ==
    {p \in c.ports : p.dir \in Offers /\ EndpointHash[<<c.id, p.name>>] = hash}

\* Link::dispatch of Data on the end that declared l, connected to h.
AcceptsData(l, h, hash) ==
    /\ Consumers(l, hash, "sub") # {}
    /\ \E q \in Providers(h, hash) : q.dir = "pub"

\* Link::dispatch of a Request on the end that declared l, connected to h.
AcceptsRequest(l, h, hash) ==
    /\ Consumers(h, hash, "calls") # {}
    /\ \E p \in Providers(l, hash) : p.dir = "serve"
=============================================================================
