-------------------------------- MODULE Storage --------------------------------
(***************************************************************************)
(* The samples of one data field over the current time window              *)
(* (time/Storage).  The code keeps a deque ordered by time; because        *)
(* setSampleAtTime overrides a sample of equal time and asserts that any   *)
(* other one is later than all stored, the deque is a set of samples with  *)
(* distinct stamps, its back the latest one.                               *)
(*                                                                         *)
(* A sample has its stamp t and, in place of the values, their origin: the *)
(* time at which the writing solver produced them and the coupling round   *)
(* it was in.                                                              *)
(***************************************************************************)
EXTENDS Integers

Samples == [t : Nat, at : Nat, round : Nat]

\* stamples().back() and stamples().front(), as sets of at most one sample
Last(store)  == {s \in store : \A r \in store : r.t <= s.t}
Front(store) == {s \in store : \A r \in store : s.t <= r.t}

SetSampleAtTime(store, time, values) ==
  {s \in store : s.t # time} \cup {[v EXCEPT !.t = time] : v \in values}

\* What setSampleAtTime asserts of the time it is given
CanSetSampleAtTime(store, time) ==
  \/ \A s \in store : s.t < time
  \/ \E s \in store : s.t = time

\* Data::moveToNextWindow: the end of this window starts the next one.
MoveToNextWindowFront(store) == Front(store)   \* fault: its start does

MoveToNextWindow(store) == Last(store)

TrimNothing(store, time) == store   \* fault: not trimmed

TrimBefore(store, time) == {s \in store : s.t >= time}
TrimAfter(store, time)  == {s \in store : s.t <= time}
================================================================================
