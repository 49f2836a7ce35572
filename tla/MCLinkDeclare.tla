--------------------------- MODULE MCLinkDeclare ----------------------------
(* Two ends with a board and a host table over two port names and two types. *)
EXTENDS LinkDeclare

\* <<"host", "b">> and <<"board", "a">> collide.
MCHash == [x \in {"board", "host"} \X {"a", "b"} |->
             CASE x = <<"board", "a">> -> 1
               [] x = <<"board", "b">> -> 2
               [] x = <<"host", "a">> -> 3
               [] x = <<"host", "b">> -> 1]

Offer(n, d, t) == [name |-> n, dir |-> d, type |-> t, sources |-> {},
                   response |-> IF d = "serve" THEN t ELSE "none"]

Take(n, d, t, S) == [name |-> n, dir |-> d, type |-> t, sources |-> S,
                     response |-> IF d = "calls" THEN t ELSE "none"]

MCRows == [e \in {"board", "host"} |->
    LET peer == IF e = "board" THEN "host" ELSE "board"
    IN  {Offer(n, d, t) : n \in {"a", "b"}, d \in {"pub", "serve"}, t \in {"t", "u"}}
        \cup {Take("a", "sub", t, {<<peer, n>>}) : n \in {"a", "b"}, t \in {"t", "u"}}
        \cup {Take("b", "sub", "t", {<<peer, "a">>, <<peer, "b">>})}
        \cup {Take("b", "calls", t, {<<peer, "a">>}) : t \in {"t", "u"}}]

MCCapacity == [e \in {"board", "host"} |-> IF e = "board" THEN 2 ELSE 3]
=============================================================================
