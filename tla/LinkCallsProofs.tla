-------------------------- MODULE LinkCallsProofs ---------------------------
(***************************************************************************)
(* The pending tables of a link's calls, for every number of callers,      *)
(* sequence numbers and slots.                                             *)
(***************************************************************************)
EXTENDS LinkCalls, FiniteSetTheorems, WellFoundedInduction, TLAPS

\* A nonempty set of naturals has a least element.
LEMMA LeastNatural ==
    ASSUME NEW S \in SUBSET Nat, S # {}
    PROVE  \E k \in S : \A j \in S : k <= j
<1>1. PICK k \in S : \A j \in S : ~(<<j, k>> \in OpToRel(<, Nat))
  BY NatLessThanWellFounded, WFMin, Zenon
<1>2. \A j \in S : ~(j < k)
  BY Zenon, <1>1 DEF OpToRel
<1>. QED  BY <1>2

\* What the search of Link::emit_request relies on: counting on from any
\* number reaches every other one.
LEMMA EveryNumberReached ==
    ASSUME NEW m \in Seqs, NEW n \in Seqs
    PROVE  \E k \in Seqs : (n + k) % SeqMod = m
<1>0. SeqMod \in Nat /\ SeqMod > 0
  BY LinkCallsAssumption
<1>1. CASE n <= m
  <2>1. m - n \in Seqs /\ n + (m - n) = m /\ m % SeqMod = m
    BY <1>0, <1>1 DEF Seqs
  <2>. QED  BY <2>1
<1>2. CASE ~(n <= m)
  <2>1. m + SeqMod - n \in Seqs /\ n + (m + SeqMod - n) = m + SeqMod
    BY <1>0, <1>2 DEF Seqs
  <2>2. (m + SeqMod) % SeqMod = m
    BY <1>0 DEF Seqs
  <2>. QED  BY <2>1, <2>2
<1>. QED  BY <1>1, <1>2

\* The number Link::emit_request finds is one, and not in use.
LEMMA NextSeqFree ==
    ASSUME pending \in SUBSET Seqs, pending # Seqs, reqSeq \in Seqs
    PROVE  NextSeq \in Seqs \ pending
<1>. DEFINE free == {k \in Seqs : (reqSeq + k) % SeqMod \notin pending}
<1>0. SeqMod \in Nat /\ SeqMod > 0
  BY LinkCallsAssumption
<1>1. free # {}
  <2>1. PICK m \in Seqs : m \notin pending
    OBVIOUS
  <2>. QED  BY <2>1, EveryNumberReached
<1>2. free \in SUBSET Nat
  BY <1>0 DEF Seqs
<1>. DEFINE k == CHOOSE i \in free : \A j \in free : i <= j
<1>3. k \in free
  <2>. HIDE DEF free
  <2>1. \E i \in free : \A j \in free : i <= j
    BY <1>1, <1>2, LeastNatural
  <2>. QED  BY <2>1
<1>4. NextSeq = (reqSeq + k) % SeqMod
  BY DEF NextSeq
<1>. HIDE DEF k
<1>5. (reqSeq + k) % SeqMod \in Seqs
  BY <1>0, <1>3 DEF Seqs
<1>. QED  BY <1>3, <1>4, <1>5

-----------------------------------------------------------------------------

\* The inductive invariant: the three are needed together, since a caller that
\* waits is found by the number it was registered under.
IInv == TypeOK /\ NumbersAgree /\ WaitingIsRegistered

\* Subsets of the numbers are finite.
LEMMA NumbersFinite ==
    ASSUME NEW S \in SUBSET Seqs
    PROVE  IsFiniteSet(S) /\ Cardinality(S) \in Nat
<1>1. SeqMod - 1 \in Int /\ 0 \in Int
  BY LinkCallsAssumption
<1>2. IsFiniteSet(Seqs)
  BY <1>1, FS_Interval DEF Seqs
<1>3. IsFiniteSet(S)
  BY <1>2, FS_Subset
<1>. QED  BY <1>3, FS_CardinalityType

LEMMA InitInvariant == Init => IInv
<1>. SUFFICES ASSUME Init PROVE IInv
  OBVIOUS
<1>. USE LinkCallsAssumption
<1>1. TypeOK
  <2>1. 0 \in Seqs /\ 0 \in 0 .. MaxCalls
    BY DEF Seqs
  <2>2. Cardinality(pending) <= Capacity
    BY FS_EmptySet DEF Init
  <2>. QED  BY Zenon, <2>1, <2>2 DEF Init, TypeOK, Idle
<1>2. NumbersAgree
  BY DEF Init, NumbersAgree
<1>3. WaitingIsRegistered
  BY DEF Init, WaitingIsRegistered, Idle
<1>. QED  BY <1>1, <1>2, <1>3 DEF IInv

LEMMA DisconnectInvariant == IInv /\ Disconnect => IInv'
<1>. SUFFICES ASSUME IInv, Disconnect PROVE IInv'
  OBVIOUS
<1>. USE LinkCallsAssumption DEF IInv, Disconnect
<1>1. Cardinality(pending') <= Capacity
  BY FS_EmptySet
<1>2. TypeOK'
  BY ZenonT(30), <1>1 DEF TypeOK
<1>3. NumbersAgree'
  BY DEF NumbersAgree
<1>4. WaitingIsRegistered'
  BY DEF TypeOK, WaitingIsRegistered
<1>. QED  BY <1>2, <1>3, <1>4

(* Taking an element out of a finite set does not enlarge it: what bounds     *)
(* `pending` after an answer or a drop of the reservation.                    *)
LEMMA RemovalBounded ==
    ASSUME NEW S, NEW x, IsFiniteSet(S)
    PROVE  /\ Cardinality(S \ {x}) \in Nat /\ Cardinality(S) \in Nat
           /\ Cardinality(S \ {x}) <= Cardinality(S)
<1>1. IsFiniteSet(S \ {x})
  BY Zenon, FS_RemoveElement
<1>2. Cardinality(S \ {x}) \in Nat /\ Cardinality(S) \in Nat
  BY Zenon, <1>1, FS_CardinalityType
<1>3. Cardinality(S \ {x}) <= Cardinality(S)
  BY Zenon, FS_Subset
<1>. QED  BY <1>2, <1>3

LEMMA ReceiveAnswerInvariant ==
    ASSUME NEW a \in answers, IInv, ReceiveAnswer(a)
    PROVE  IInv'
<1>. USE LinkCallsAssumption, NoneIsNoCaller DEF IInv
<1>0. a[1] \in Seqs /\ a[2] \in 0 .. MaxCalls
  BY DEF TypeOK, Ordinals
<1>1. TypeOK'
  <2>1. Cardinality(pending') <= Capacity
    <3>1. IsFiniteSet(pending) /\ Cardinality(pending) \in Nat
      BY NumbersFinite DEF TypeOK
    <3>2. /\ Cardinality(pending \ {a[1]}) <= Cardinality(pending)
          /\ Cardinality(pending \ {a[1]}) \in Nat
      BY Zenon, <3>1, RemovalBounded
    <3>3. pending' = pending \ {a[1]} /\ Cardinality(pending) <= Capacity
      BY Zenon DEF TypeOK, ReceiveAnswer
    <3>. QED  BY <3>1, <3>2, <3>3
  <2>. QED  BY ZenonT(30), <1>0, <2>1 DEF TypeOK, ReceiveAnswer
<1>2. NumbersAgree'
  <2>1. \A m \in Seqs : calls'[m] = IF m = a[1] THEN None ELSE calls[m]
    BY Zenon, <1>0 DEF TypeOK, ReceiveAnswer
  <2>2. pending' = {m \in Seqs : calls'[m] # None}
    <3>1. pending' = pending \ {a[1]}
      BY ZenonT(30) DEF ReceiveAnswer
    <3>. QED  BY SMTT(60), <1>0, <2>1, <3>1 DEF NumbersAgree
  <2>3. \A c \in Callers : caller'[c].pc = caller[c].pc /\ caller'[c].seq = caller[c].seq
    BY ZenonT(30) DEF TypeOK, ReceiveAnswer
  <2>4. \A m \in pending' : m \in pending /\ calls'[m] = calls[m] /\ calls[m] \in Callers
    BY ZenonT(30), <2>1, <2>2 DEF TypeOK, ReceiveAnswer
  <2>. QED  BY SMTT(60), <2>2, <2>3, <2>4 DEF NumbersAgree
<1>3. WaitingIsRegistered'
  BY ZenonT(30), <1>0 DEF TypeOK, WaitingIsRegistered, ReceiveAnswer
<1>. QED  BY <1>1, <1>2, <1>3

LEMMA CallInvariant ==
    ASSUME NEW c \in Callers, IInv, Call(c)
    PROVE  IInv'
<1>. USE LinkCallsAssumption, NoneIsNoCaller DEF IInv
<1>0. PICK n \in Seqs \ pending : n = NextSeq
  BY NextSeqFree DEF TypeOK, Call
<1>1. (n + 1) % SeqMod \in Seqs
  BY DEF Seqs
<1>2. TypeOK'
  <2>1. Cardinality(pending') <= Capacity
    <3>1. Cardinality(pending') = Cardinality(pending) + 1
      BY <1>0, NumbersFinite, FS_AddElement DEF TypeOK, Call
    <3>. QED  BY <3>1, NumbersFinite DEF TypeOK, Call
  <2>2. issued' \in Ordinals /\ 0 \in 0 .. MaxCalls
    BY DEF TypeOK, Call, Ordinals
  <2>3. /\ caller' \in [Callers -> [pc : {"idle", "waiting", "leaving"}, seq : Seqs,
              call : 0 .. MaxCalls, of : 0 .. MaxCalls,
              got : {"nothing", "closed", "answer", "timeout"}]]
        /\ calls' \in [Seqs -> Callers \cup {None}]
    BY <1>0, <2>2 DEF TypeOK, Call, Ordinals
  <2>4. /\ requests' \subseteq Seqs \X Ordinals /\ answers' \subseteq requests'
        /\ issued' \in 0 .. MaxCalls
    BY <1>0, <2>2 DEF TypeOK, Call, Ordinals
  <2>. QED  BY <1>0, <1>1, <2>1, <2>3, <2>4 DEF TypeOK, Call
<1>3. \A m \in Seqs : calls[m] # c
  BY DEF TypeOK, NumbersAgree, Call
<1>4. NumbersAgree'
  BY <1>0, <1>3 DEF TypeOK, NumbersAgree, Call
<1>5. WaitingIsRegistered'
  BY <1>0, <1>3 DEF TypeOK, NumbersAgree, WaitingIsRegistered, Call
<1>. QED  BY <1>2, <1>4, <1>5

LEMMA DropReservationInvariant ==
    ASSUME NEW c \in Callers, IInv, DropReservation(c)
    PROVE  IInv'
<1>. USE LinkCallsAssumption, NoneIsNoCaller DEF IInv
<1>1. TypeOK'
  <2>1. Cardinality(pending') <= Capacity
    <3>1. IsFiniteSet(pending) /\ Cardinality(pending) <= Capacity
      BY Zenon, NumbersFinite DEF TypeOK
    <3>2. /\ Cardinality(pending \ {caller[c].seq}) \in Nat
          /\ Cardinality(pending) \in Nat
          /\ Cardinality(pending \ {caller[c].seq}) <= Cardinality(pending)
      BY Zenon, <3>1, RemovalBounded
    <3>3. pending' = pending \/ pending' = pending \ {caller[c].seq}
      BY Zenon DEF DropReservation
    <3>. QED  BY <3>1, <3>2, <3>3
  <2>2. 0 \in Seqs /\ 0 \in 0 .. MaxCalls
    BY DEF Seqs
  <2>. QED  BY <2>1, <2>2 DEF TypeOK, DropReservation, Idle
<1>2. NumbersAgree'
  <2>. DEFINE n == caller[c].seq
  <2>1. n \in Seqs /\ \A m \in Seqs : calls[m] = c => m = n
    BY DEF TypeOK, NumbersAgree
  <2>2. \A m \in Seqs : calls'[m] = IF m = n /\ calls[m] = c THEN None ELSE calls[m]
    BY <2>1 DEF TypeOK, DropReservation
  <2>3. pending' = {m \in Seqs : calls'[m] # None}
    BY <2>1, <2>2 DEF NumbersAgree, DropReservation
  <2>4. \A m \in pending' : calls'[m] = calls[m] /\ calls[m] \in Callers \ {c} /\ m \in pending
    BY <2>1, <2>2, <2>3 DEF TypeOK, NumbersAgree
  <2>5. \A d \in Callers \ {c} : caller'[d] = caller[d]
    BY DEF TypeOK, DropReservation
  <2>. QED  BY <2>3, <2>4, <2>5 DEF NumbersAgree
<1>3. WaitingIsRegistered'
  BY DEF TypeOK, NumbersAgree, WaitingIsRegistered, DropReservation, Idle
<1>. QED  BY <1>1, <1>2, <1>3

LEMMA NextInvariant == IInv /\ [Next]_vars => IInv'
<1>. SUFFICES ASSUME IInv, [Next]_vars PROVE IInv'
  OBVIOUS
<1>1. ASSUME NEW c \in Callers, Resolved(c) \/ TimesOut(c) PROVE IInv'
  <2>1. PICK r \in {"nothing", "closed", "answer", "timeout"} : Leave(c, r)
    BY <1>1 DEF IInv, TypeOK, Resolved, TimesOut
  <2>2. TypeOK'
    <3>1. caller' = [caller EXCEPT ![c] = [caller[c] EXCEPT !.pc = "leaving", !.got = r]]
      BY Zenon, <2>1 DEF IInv, TypeOK, Leave
    <3>. QED  BY <2>1, <3>1 DEF IInv, TypeOK, Leave
  <2>3. NumbersAgree'
    BY <2>1 DEF IInv, TypeOK, NumbersAgree, Leave
  <2>4. WaitingIsRegistered'
    BY <2>1 DEF IInv, TypeOK, WaitingIsRegistered, Leave
  <2>. QED  BY <2>2, <2>3, <2>4 DEF IInv
<1>2. CASE Connect
  BY <1>2 DEF IInv, Connect, TypeOK, NumbersAgree, WaitingIsRegistered
<1>3. CASE EndDriver
  BY <1>3 DEF IInv, EndDriver, TypeOK, NumbersAgree, WaitingIsRegistered
<1>4. ASSUME NEW r \in requests, Answer(r) PROVE IInv'
  BY <1>4 DEF IInv, Answer, TypeOK, NumbersAgree, WaitingIsRegistered
<1>5. CASE UNCHANGED vars
  BY <1>5 DEF IInv, vars, TypeOK, NumbersAgree, WaitingIsRegistered
<1>. QED
  BY <1>1, <1>2, <1>3, <1>4, <1>5, DisconnectInvariant, ReceiveAnswerInvariant,
     CallInvariant, DropReservationInvariant DEF Next

\* The tables of Link and Host agree and no waiting caller is forgotten, for any
\* number of callers, slots and sequence numbers.
THEOREM LinkCallsCorrect == Spec => [](TypeOK /\ TablesAgree)
<1>1. Spec => []IInv
  BY InitInvariant, NextInvariant, PTL DEF Spec
<1>2. IInv => TypeOK /\ TablesAgree
  BY DEF IInv, TablesAgree
<1>. QED  BY <1>1, <1>2, PTL
=============================================================================
