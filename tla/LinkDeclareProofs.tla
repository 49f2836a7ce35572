------------------------- MODULE LinkDeclareProofs --------------------------
(***************************************************************************)
(* What an accepted Hello guarantees, for every pair of contracts, every   *)
(* endpoint hash and every table size.                                     *)
(***************************************************************************)
EXTENDS LinkDeclare, FiniteSetTheorems, TLAPS

\* The two TakesFrom tests of Link::validate_hello change places when the ends
\* do, and so does the collision test: apart from the room for entries the
\* verdict is symmetric.
THEOREM VerdictSymmetric ==
    ASSUME NEW c, NEW d, NEW m, NEW n,
           Cardinality(c.ports) <= n, Cardinality(d.ports) <= m
    PROVE  ValidateHello(c, d, m) <=> ValidateHello(d, c, n)
<1>1. \A p, q : SameContract(p, q) <=> SameContract(q, p)
  BY DEF SameContract
<1>2. \A S, T : Injective(S, T) <=> Injective(T, S)
  BY DEF Injective
<1>. QED  BY <1>1, <1>2 DEF ValidateHello

\* An endpoint of one contract and an endpoint of the other that share a hash
\* are the same endpoint once the Hello is accepted.
LEMMA HashNamesEndpoint ==
    ASSUME NEW c, NEW d, NEW n, ValidateHello(c, d, n),
           NEW x \in Addresses(c), NEW y \in Addresses(d),
           EndpointHash[x] = EndpointHash[y]
    PROVE  x = y
BY DEF ValidateHello, Injective

\* The ports of a contract and their sources are among its addresses.
LEMMA PortAddresses ==
    ASSUME NEW c, NEW p \in c.ports
    PROVE  /\ <<c.id, p.name>> \in Addresses(c)
           /\ p.sources \subseteq Addresses(c)
BY DEF Addresses

\* A Data frame that is delivered was sent by the output the subscription
\* names, under the same type, whatever hashes collide elsewhere.
THEOREM AcceptedDataAgrees ==
    ASSUME NEW c, NEW d, NEW n, ValidateHello(c, d, n), NEW hash,
           NEW p \in Consumers(c, hash, "sub"), NEW q \in Providers(d, hash)
    PROVE  TakesFrom(p, d.id, q) /\ SameContract(p, q)
<1>1. p \in c.ports /\ q \in d.ports /\ q.dir \in Offers
  BY DEF Consumers, Providers
<1>2. PICK s \in p.sources : EndpointHash[s] = hash
  BY DEF Consumers
<1>3. s = <<d.id, q.name>>
  <2>1. s \in Addresses(c) /\ <<d.id, q.name>> \in Addresses(d)
    BY Zenon, <1>1, PortAddresses
  <2>. QED  BY <1>2, <2>1, HashNamesEndpoint DEF Providers
<1>4. TakesFrom(p, d.id, q)
  BY <1>1, <1>3 DEF TakesFrom
<1>. QED  BY <1>1, <1>4 DEF ValidateHello

\* A Request that is delivered names this very server, and both ends agree on
\* the request and the response.
THEOREM AcceptedRequestAgrees ==
    ASSUME NEW c, NEW d, NEW n, ValidateHello(c, d, n), NEW hash,
           NEW p \in Providers(c, hash), NEW q \in Consumers(d, hash, "calls")
    PROVE  TakesFrom(q, c.id, p) /\ SameContract(p, q)
<1>1. p \in c.ports /\ q \in d.ports /\ p.dir \in Offers
  BY DEF Consumers, Providers
<1>2. PICK s \in q.sources : EndpointHash[s] = hash
  BY DEF Consumers
<1>3. s = <<c.id, p.name>>
  <2>1. s \in Addresses(d) /\ <<c.id, p.name>> \in Addresses(c)
    BY Zenon, <1>1, PortAddresses
  <2>. QED  BY <1>2, <2>1, HashNamesEndpoint DEF Providers
<1>4. TakesFrom(q, c.id, p)
  BY <1>1, <1>3 DEF TakesFrom
<1>. QED  BY <1>1, <1>4 DEF ValidateHello

-----------------------------------------------------------------------------

\* The fixed arrays of Link::declare are never overrun and hold only rows of
\* the static table.
THEOREM DeclareTypeCorrect == Spec => []TypeOK
<1>. DEFINE Inv == TypeOK /\ \A e \in Ends : IsFiniteSet(local[e])
<1>. USE LinkDeclareAssumption
<1>1. Init => Inv
  BY FS_EmptySet DEF Init, TypeOK, StaticTable
<1>2. Inv /\ [Next]_vars => Inv'
  <2>. SUFFICES ASSUME Inv, [Next]_vars PROVE Inv'
    OBVIOUS
  <2>1. ASSUME NEW e \in Ends, EnsureStarted(e) PROVE Inv'
    BY <2>1 DEF EnsureStarted, TypeOK
  <2>2. ASSUME NEW e \in Ends, NEW p \in Rows[e], Declare(e, p) PROVE Inv'
    <3>1. local[e] \subseteq Ports /\ p \in Ports
      BY DEF TypeOK
    <3>2. IsFiniteSet(local[e] \cup {p})
      BY Zenon, FS_AddElement
    <3>3. Cardinality(local[e] \cup {p}) <= Capacity[e]
      <4>1. CASE p \in local[e]
        <5>1. local[e] \cup {p} = local[e]
          BY <4>1
        <5>. QED  BY Zenon, <5>1 DEF TypeOK
      <4>2. CASE p \notin local[e]
        <5>1. Cardinality(local[e] \cup {p}) = Cardinality(local[e]) + 1
          BY Zenon, <4>2, FS_AddElement
        <5>2. Cardinality(local[e]) \in Nat
          BY FS_CardinalityType
        <5>3. Cardinality(local[e]) < Capacity[e]
          BY <2>2, <4>2 DEF Declare
        <5>. QED  BY <5>1, <5>2, <5>3
      <4>. QED  BY <4>1, <4>2
    <3>4. local' = [local EXCEPT ![e] = local[e] \cup {p}] /\ started' = started
      BY <2>2 DEF Declare
    <3>5. StaticTable(local[e] \cup {p})
      BY <2>2 DEF Declare
    <3>6. local' \in [Ends -> SUBSET Ports]
      BY <3>1, <3>4 DEF TypeOK
    <3>7. \A d \in Ends : local'[d] = IF d = e THEN local[e] \cup {p} ELSE local[d]
      BY <3>4 DEF TypeOK
    <3>. QED
      BY Zenon, <3>2, <3>3, <3>4, <3>5, <3>6, <3>7 DEF TypeOK
  <2>3. CASE UNCHANGED vars
    BY <2>3 DEF vars, TypeOK
  <2>. QED  BY <2>1, <2>2, <2>3 DEF Next
<1>3. Inv => TypeOK
  OBVIOUS
<1>. QED  BY <1>1, <1>2, <1>3, PTL DEF Spec

\* On every reachable pair of tables the two ends agree about each other, and a
\* delivered frame has one type on both ends.
THEOREM DeclaredContractsAgree ==
    Spec => [](ValidationSymmetric /\ AcceptedHashesAgree)
<1>1. ValidationSymmetric
  <2>. SUFFICES ASSUME NEW d \in Ends, NEW e \in Ends,
                       Cardinality(local[d]) <= Capacity[e],
                       Cardinality(local[e]) <= Capacity[d]
                PROVE  ValidateHello(Contract(d), Contract(e), Capacity[d])
                        <=> ValidateHello(Contract(e), Contract(d), Capacity[e])
    BY DEF ValidationSymmetric
  <2>1. Contract(d).ports = local[d] /\ Contract(e).ports = local[e]
    BY DEF Contract
  <2>. QED  BY <2>1, VerdictSymmetric
<1>2. DataTypesAgree
  <2>1. \A e : Contract(e).id = e
    BY DEF Contract
  <2>. QED  BY <2>1, AcceptedDataAgrees DEF DataTypesAgree
<1>3. RequestTypesAgree
  <2>1. \A e : Contract(e).id = e
    BY DEF Contract
  <2>. QED  BY <2>1, AcceptedRequestAgrees DEF RequestTypesAgree
<1>4. AcceptedHashesAgree
  BY <1>2, <1>3 DEF AcceptedHashesAgree
<1>. QED  BY <1>1, <1>4, PTL
=============================================================================
