------------------------------- MODULE MCLink -------------------------------
(* A host that calls a board's service, and one that reads its stream; the    *)
(* programs may be replaced by compatible and by incompatible ones.           *)
EXTENDS Link, TLC

CONSTANTS t, u   \* the type of the RPC and the stream, and another version of it

\* Nothing tells the two versions of the schema apart where each end may be
\* compiled against either.
TypeSymmetry == Permutations({t, u})

MCHash == [x \in {"host", "board"} \X {"rpc", "data"} |->
             CASE x = <<"board", "rpc">> -> 1
               [] x = <<"board", "data">> -> 2
               [] x = <<"host", "rpc">> -> 3
               [] x = <<"host", "data">> -> 4]

Port(n, d, type, r, S) == [name |-> n, dir |-> d, type |-> type, response |-> r, sources |-> S]

HostBuild == [id |-> "host", ports |->
    {Port("rpc", "calls", t, t, {<<"board", "rpc">>})}]

BoardBuild == [id |-> "board", ports |->
    {Port("rpc", "serve", t, t, {}), Port("data", "pub", t, "none", {})}]

\* Serves the same RPC and has no stream.
SmallBuild == [id |-> "board", ports |-> {Port("rpc", "serve", t, t, {})}]

\* Compiled against another version of the RPC: a host that calls it rejects it.
OtherBuild == [id |-> "board", ports |-> {Port("rpc", "serve", u, u, {})}]

\* A host that only calls; the board is reflashed with a contract that differs
\* where the host does not depend on it, or with an incompatible one.
Reflash == [e \in {"host", "board"} |->
    IF e = "host" THEN {HostBuild} ELSE {SmallBuild, BoardBuild, OtherBuild}]

\* The stream alone, each end compiled against either version of its schema.
Stream(type) == [e \in {"host", "board"} |->
    [id |-> e, ports |->
        IF e = "host" THEN {Port("data", "sub", type, "none", {<<"board", "data">>})}
        ELSE {Port("data", "pub", type, "none", {})}]]

Versions == [e \in {"host", "board"} |-> {Stream(t)[e], Stream(u)[e]}]

MCCapacity == [e \in {"host", "board"} |-> 2]
=============================================================================
