----------------------------- MODULE Rendezvous -----------------------------
(***************************************************************************)
(* What the loops of ParticipantImpl over its coupling partners promise.   *)
(*                                                                         *)
(* Connecting, the remeshing handshake and closing are all loops           *)
(* `for (auto &m2n : _m2ns)` that block on one partner after the other,    *)
(* and _m2ns is a std::map keyed by the name of the partner: a participant *)
(* visits its partners in the order of their names.  A loop is a round, a  *)
(* visit is over when both partners made it, and nobody starts the next    *)
(* round before it has visited everybody.  A participant is the position   *)
(* of its name in the order of the names.                                  *)
(***************************************************************************)
EXTENDS Integers

CONSTANT Participants   \* the positions of the names of the participants

ASSUME ParticipantsAssumption == Participants \subseteq Nat

VARIABLES
  partners,   \* the other ends of the m2n connections of each participant
  round,      \* the rounds each participant has completed
  visited     \* the partners it has visited in the current one

vars == <<partners, round, visited>>

(* An m2n connects two different participants and each is partner of the   *)
(* other.                                                                  *)
Graphs ==
  {g \in [Participants -> SUBSET Participants] :
     \A p, q \in Participants : q \in g[p] => p \in g[q] /\ p # q}

Init ==
  /\ partners \in Graphs
  /\ round = [p \in Participants |-> 0]
  /\ visited = [p \in Participants |-> {}]

Remaining(p) == partners[p] \ visited[p]

\* fault: every second participant has the order reversed
AtOwnOrder(p, q) ==
  /\ q \in Remaining(p)
  /\ \A r \in Remaining(p) : IF p % 2 = 0 THEN r <= q ELSE q <= r

(* The loop has come to q: of the partners that are left it has the        *)
(* smallest name.                                                          *)
At(p, q) ==
  /\ q \in Remaining(p)
  /\ \A r \in Remaining(p) : q <= r

CanMeet(p, q) ==
  /\ round[p] = round[q]
  /\ At(p, q)
  /\ At(q, p)

Meet(p, q) ==
  /\ CanMeet(p, q)
  /\ visited' = [visited EXCEPT ![p] = @ \cup {q}, ![q] = @ \cup {p}]
  /\ UNCHANGED <<partners, round>>

\* fault: a loop that is left early
AdvanceEarly(p) ==
  /\ round' = [round EXCEPT ![p] = @ + 1]
  /\ visited' = [visited EXCEPT ![p] = {}]
  /\ UNCHANGED partners

Advance(p) ==
  /\ Remaining(p) = {}
  /\ round' = [round EXCEPT ![p] = @ + 1]
  /\ visited' = [visited EXCEPT ![p] = {}]
  /\ UNCHANGED partners

Next ==
  \/ \E p, q \in Participants : Meet(p, q)
  \/ \E p \in Participants : Advance(p)

Spec == Init /\ [][Next]_vars

-----------------------------------------------------------------------------
TypeOK ==
  /\ partners \in Graphs
  /\ round \in [Participants -> Nat]
  /\ visited \in [Participants -> SUBSET Participants]

(* How often p has visited its partner q.                                  *)
Visits(p, q) == round[p] + (IF q \in visited[p] THEN 1 ELSE 0)

(* Two partners have always visited each other equally often: a round of   *)
(* one of them is never paired with another round of the other, whatever   *)
(* the two do with their other partners in between.                        *)
PartnersInStep ==
  \A p \in Participants : \A q \in partners[p] : Visits(p, q) = Visits(q, p)

(* Visiting the partners in the order of their names never blocks anybody  *)
(* for good, whoever is connected to whom: while a participant has         *)
(* partners left to visit, two that are not ahead of it are at each other, *)
(* or somebody behind it can begin its next round.                         *)
NobodyBlocked ==
  \A p \in Participants : Remaining(p) # {} =>
    \/ \E q, r \in Participants : round[q] <= round[p] /\ CanMeet(q, r)
    \/ \E q \in Participants : round[q] < round[p] /\ Remaining(q) = {}
=============================================================================
