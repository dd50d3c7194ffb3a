-------------------------------- MODULE Lockstep --------------------------------
(***************************************************************************)
(* What a coupling scheme promises its two participants: they go through   *)
(* the same rounds (a coupling iteration, or a time window of an explicit  *)
(* scheme), neither gets more than one round ahead of the other, and the   *)
(* one that follows takes the leader's decision to repeat the time window  *)
(* or to go on to the next one.  Only a participant that gets no data runs *)
(* ahead.                                                                  *)
(***************************************************************************)
EXTENDS Integers

CONSTANT Participants

VARIABLES
  position,   \* the round and the time window each participant is in
  free        \* the participants that get no data from the others

Init ==
  /\ position = [p \in Participants |-> [round |-> 1, window |-> 1]]
  /\ free \subseteq Participants

Step(p, step) ==
  position' = [position EXCEPT ![p] = [round |-> @.round + 1, window |-> @.window + step]]

\* Nobody is ahead, or p need not care: p decides what comes next.
Lead(p) ==
  /\ p \in free \/ \A q \in Participants : position[q] = position[p]
  /\ \E step \in {0, 1} : Step(p, step)

\* q is ahead: p makes the same step to where q is, or was.
Follow(p) ==
  \E q \in Participants : \E step \in {0, 1} :
    /\ position[q].round > position[p].round
    /\ Step(p, step)
    /\ position[q].round = position[p].round + 1 => position'[p] = position[q]

Next == (\E p \in Participants : Lead(p) \/ Follow(p)) /\ UNCHANGED free

Spec == Init /\ [][Next]_<<position, free>>
================================================================================
