-------------------------- MODULE RendezvousProofs --------------------------
(***************************************************************************)
(* Rendezvous never blocks anybody for good, for every set of participants *)
(* and every graph of m2n connections between them.                        *)
(***************************************************************************)
EXTENDS Rendezvous, WellFoundedInduction, TLAPS

-----------------------------------------------------------------------------
(* Facts about the naturals and the loops.                                 *)

(* A non-empty set of naturals has a smallest element.                     *)
LEMMA SmallestNat ==
  ASSUME NEW S, S \subseteq Nat, S # {}
  PROVE  \E m \in S : \A n \in S : m <= n
<1>1. IsWellFoundedOn(OpToRel(<, Nat), Nat)
  BY NatLessThanWellFounded
<1>2. PICK m \in S : \A n \in S : ~(<<n, m>> \in OpToRel(<, Nat))
  BY <1>1, WFMin
<1>3. \A n \in S : ~(n < m)
  BY <1>2 DEF OpToRel
<1>4. \A n \in S : m <= n
  BY <1>3
<1> QED
  BY <1>4

(* A loop that is not through has come to some partner.                    *)
LEMMA LoopIsSomewhere ==
  ASSUME TypeOK, NEW p \in Participants, Remaining(p) # {}
  PROVE  \E q \in Participants : At(p, q)
<1>1. Remaining(p) \subseteq Participants
  BY DEF TypeOK, Graphs, Remaining
<1>2. PICK q \in Remaining(p) : \A r \in Remaining(p) : q <= r
  BY <1>1, SmallestNat, ParticipantsAssumption
<1> QED
  BY <1>1, <1>2 DEF At

-----------------------------------------------------------------------------
(* The inductive invariant.                                                *)
IInv == TypeOK /\ PartnersInStep

LEMMA InitInv == Init => IInv
<1> SUFFICES ASSUME Init PROVE IInv
  OBVIOUS
<1>1. TypeOK
  BY DEF Init, TypeOK
<1>2. PartnersInStep
  BY DEF Init, PartnersInStep, Visits, Graphs
<1> QED
  BY <1>1, <1>2 DEF IInv

LEMMA MeetInv ==
  ASSUME IInv, NEW p \in Participants, NEW q \in Participants, Meet(p, q)
  PROVE  IInv'
<1> USE DEF IInv
<1>1. /\ partners' = partners /\ round' = round
      /\ p # q /\ q \in partners[p] /\ p \in partners[q]
      /\ q \notin visited[p] /\ p \notin visited[q]
  BY DEF Meet, CanMeet, At, Remaining, TypeOK, Graphs
<1>2. visited' = [visited EXCEPT ![p] = @ \cup {q}, ![q] = @ \cup {p}]
  BY DEF Meet
<1>3. TypeOK'
  BY <1>1, <1>2 DEF TypeOK, Graphs
<1>4. ASSUME NEW a \in Participants, NEW b \in partners[a]
      PROVE  Visits(a, b)' = Visits(b, a)'
  <2>1. Visits(a, b) = Visits(b, a) /\ b \in Participants
    BY DEF PartnersInStep, TypeOK, Graphs
  <2>2. /\ visited'[a] = IF a = p THEN visited[a] \cup {q}
                         ELSE IF a = q THEN visited[a] \cup {p} ELSE visited[a]
        /\ visited'[b] = IF b = p THEN visited[b] \cup {q}
                         ELSE IF b = q THEN visited[b] \cup {p} ELSE visited[b]
    BY <1>1, <1>2, <2>1 DEF TypeOK
  <2>3. (b \in visited'[a] <=> (b \in visited[a] \/ {a, b} = {p, q}))
    BY <1>1, <2>2
  <2>4. (a \in visited'[b] <=> (a \in visited[b] \/ {a, b} = {p, q}))
    BY <1>1, <2>2
  <2>5. CASE {a, b} = {p, q}
    <3>1. round[a] = round[b]
      BY <2>5 DEF Meet, CanMeet
    <3> QED
      BY <1>1, <2>3, <2>4, <2>5, <3>1 DEF Visits
  <2>6. CASE {a, b} # {p, q}
    BY <1>1, <2>1, <2>3, <2>4, <2>6 DEF Visits
  <2> QED
    BY <2>5, <2>6
<1> QED
  BY <1>1, <1>3, <1>4 DEF PartnersInStep

LEMMA AdvanceInv ==
  ASSUME IInv, NEW p \in Participants, Advance(p)
  PROVE  IInv'
<1> USE DEF IInv
<1>1. /\ partners' = partners
      /\ round' = [round EXCEPT ![p] = @ + 1]
      /\ visited' = [visited EXCEPT ![p] = {}]
      /\ partners[p] \subseteq visited[p]
  BY DEF Advance, Remaining
<1>2. TypeOK'
  BY <1>1 DEF TypeOK, Graphs
<1>3. \A a, b \in Participants : b \in partners[a] => Visits(a, b)' = Visits(a, b)
  BY <1>1 DEF Visits, TypeOK
<1>4. ASSUME NEW a \in Participants, NEW b \in partners[a]
      PROVE  Visits(a, b)' = Visits(b, a)'
  <2>1. b \in Participants /\ a \in partners[b] /\ Visits(a, b) = Visits(b, a)
    BY DEF PartnersInStep, TypeOK, Graphs
  <2> QED
    BY <1>3, <2>1
<1> QED
  BY <1>1, <1>2, <1>4 DEF PartnersInStep

LEMMA StutterInv == IInv /\ UNCHANGED vars => IInv'
  BY DEF IInv, vars, TypeOK, PartnersInStep, Visits, Graphs

(* IInv holds in every reachable state.                                    *)
THEOREM Invariance == Spec => []IInv
<1>1. IInv /\ [Next]_vars => IInv'
  BY MeetInv, AdvanceInv, StutterInv DEF Next
<1> QED
  BY InitInv, <1>1, PTL DEF Spec

(* Two partners have always visited each other equally often: no loop of   *)
(* ParticipantImpl is ever paired with a different loop of a partner.      *)
THEOREM StaysInStep == Spec => []PartnersInStep
  BY Invariance, PTL DEF IInv

-----------------------------------------------------------------------------
(* A partner not visited yet is not ahead, and has not visited either.     *)
LEMMA UnvisitedPartner ==
  ASSUME IInv, NEW p \in Participants, NEW q \in Remaining(p)
  PROVE  /\ q \in Participants /\ round[q] <= round[p]
         /\ round[q] = round[p] => p \in Remaining(q)
<1>1. /\ q \in Participants /\ p \in partners[q]
      /\ round[p] \in Nat /\ round[q] \in Nat
  BY DEF IInv, TypeOK, Graphs, Remaining
<1>2. round[p] = round[q] + (IF p \in visited[q] THEN 1 ELSE 0)
  <2>1. Visits(p, q) = round[p]
    BY <1>1 DEF Remaining, Visits
  <2> QED
    BY <2>1 DEF IInv, PartnersInStep, Remaining, Visits
<1> QED
  BY <1>1, <1>2 DEF Remaining

(* Of the participants that are furthest behind, the one with the smallest *)
(* name is at a partner that is at it, unless one of them is through.      *)
LEMMA SmallestMeets ==
  ASSUME IInv, NEW p \in Participants, Remaining(p) # {},
         \A q \in Participants : round[q] < round[p] => Remaining(q) # {}
  PROVE  \E q, r \in Participants : round[q] <= round[p] /\ CanMeet(q, r)
<1> DEFINE Unfinished == {q \in Participants : Remaining(q) # {}}
           Rounds == {round[q] : q \in Unfinished}
<1>1. TypeOK /\ Participants \subseteq Nat
  BY ParticipantsAssumption DEF IInv
<1>2. PICK k \in Rounds : \A n \in Rounds : k <= n
  <2>1. Rounds \subseteq Nat /\ Rounds # {}
    BY <1>1 DEF TypeOK
  <2> QED
    BY <2>1, SmallestNat
<1> DEFINE Last == {q \in Unfinished : round[q] = k}
<1>3. PICK a \in Last : \A b \in Last : a <= b
  <2>1. Last \subseteq Nat /\ Last # {}
    BY <1>1, <1>2
  <2> QED
    BY <2>1, SmallestNat
<1>4. a \in Participants /\ Remaining(a) # {} /\ round[a] = k /\ k <= round[p]
  BY <1>2, <1>3
<1>5. PICK b \in Participants : At(a, b)
  BY <1>1, <1>4, LoopIsSomewhere
(* A partner a has not visited is as far behind as a.                      *)
<1>6. ASSUME NEW c \in Last, NEW d \in Remaining(c)
      PROVE  d \in Last /\ c \in Remaining(d) /\ d \in Participants
  <2>1. c \in Participants /\ round[c] = k
    OBVIOUS
  <2>2. /\ d \in Participants /\ round[d] <= k
        /\ round[d] = k => c \in Remaining(d)
    BY <2>1, UnvisitedPartner
  <2>3. round[d] \in Nat /\ k \in Nat /\ round[p] \in Nat
    BY <1>1, <1>4, <2>2 DEF TypeOK
  <2>4. Remaining(d) # {}
    BY <1>4, <2>2, <2>3
  <2>5. k <= round[d]
    BY <1>2, <2>2, <2>4
  <2> QED
    BY <2>2, <2>3, <2>4, <2>5
<1>7. b \in Last /\ a \in Remaining(b)
  BY <1>3, <1>5, <1>6 DEF At
<1>8. PICK c \in Participants : At(b, c)
  BY <1>1, <1>5, <1>7, LoopIsSomewhere
<1>9. c \in Last /\ c <= a
  BY <1>6, <1>7, <1>8 DEF At
<1>10. c = a
  BY <1>1, <1>3, <1>4, <1>8, <1>9
<1> QED
  BY <1>4, <1>5, <1>7, <1>8, <1>10 DEF CanMeet

(* Nobody is ever blocked for good, whatever the graph of the m2ns: the    *)
(* loops in the order of the names cannot wait for each other in a circle. *)
THEOREM DeadlockFreedom == Spec => []NobodyBlocked
<1>1. IInv => NobodyBlocked
  <2> SUFFICES ASSUME IInv, NEW p \in Participants, Remaining(p) # {},
                      \A q \in Participants : round[q] < round[p] => Remaining(q) # {}
               PROVE  \E q, r \in Participants : round[q] <= round[p] /\ CanMeet(q, r)
    BY DEF NobodyBlocked
  <2> QED
    BY SmallestMeets
<1> QED
  BY Invariance, <1>1, PTL
=============================================================================
