--------------------------- MODULE MCParallelCoupling ---------------------------
(***************************************************************************)
(* The configurations of ParallelCoupling that TLC checks: every choice of *)
(* what is exchanged, with a few choices of each of the rest.              *)
(***************************************************************************)
EXTENDS ParallelDataFlow

None == -1

\* With size 2 the last window before max-time 3 is truncated.
Candidates(implicit) ==
  [implicit : {implicit}, maxTime : {None, 3}, maxTimeWindows : {None, 3},
   timeWindowSize : {2},
   minIterations : {1}, maxIterations : {2}, measures : {{}, Measures},
   suffices : {{}}, strict : {{}, Measures},
   sends : SUBSET Participants \ {{}},
   initializes : SUBSET Participants, substeps : SUBSET Participants,
   requesting : Participants, waitInFinalize : BOOLEAN, synchronous : BOOLEAN]

Checked(c) ==
  /\ Admissible(c)
  /\ (c.maxTime = None) # (c.maxTimeWindows = None)
  /\ (c.requesting = Second) = c.synchronous
  /\ c.synchronous => c.waitInFinalize
  /\ ~c.implicit => c.measures = {}

AllParallel == {c \in Candidates(TRUE) \cup Candidates(FALSE) : Checked(c)}
================================================================================
