---------------------------- MODULE MCRendezvous ----------------------------
EXTENDS Rendezvous

CONSTANT RoundBound   \* rounds are counted up to here

Five == 1..5

BoundedNext ==
  \/ \E p, q \in Participants : Meet(p, q)
  \/ \E p \in Participants : round[p] < RoundBound /\ Advance(p)

BoundedSpec == Init /\ [][BoundedNext]_vars
=============================================================================
