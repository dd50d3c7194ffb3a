---------------------------- MODULE MCSerialCoupling ----------------------------
(***************************************************************************)
(* The configurations of SerialCoupling that TLC checks: every choice of   *)
(* what is exchanged, with a few choices of each of the rest.              *)
(***************************************************************************)
EXTENDS SerialDataFlow

None == -1

\* With size 2 the last window before max-time 3 is truncated.
Candidates(implicit) ==
  [implicit : {implicit}, maxTime : {None, 3}, maxTimeWindows : {None, 3},
   timeWindowSize : {None, 2},
   minIterations : {1, 2}, maxIterations : {None, 2}, measures : {Measures},
   suffices : {{CHOOSE m \in Measures : TRUE}}, strict : {{}, Measures},
   sends : SUBSET Participants \ {{}},
   initializes : SUBSET Participants, substeps : SUBSET Participants,
   requesting : Participants, waitInFinalize : BOOLEAN, synchronous : BOOLEAN]

\* Left to the run SerialTruncated: the data of a truncated window without
\* substeps.  A strict measure has a limit here, and so has a scheme without
\* measures; without, the code fails at once or never ends (section 6 of the README).
StoredTooLate(c) ==
  /\ c.maxTime = 3 /\ c.timeWindowSize = 2
  /\ First \in c.sends \ c.substeps

Checked(c) ==
  /\ Admissible(c) /\ ~StoredTooLate(c)
  /\ (c.maxTime = None) # (c.maxTimeWindows = None)
  /\ c.strict # {} => c.maxIterations # None
  /\ (c.requesting = Second) = c.synchronous
  /\ c.synchronous => c.waitInFinalize
  /\ (c.minIterations = 2) = (c.maxIterations = None)
  /\ ~c.implicit => c.minIterations = 1 /\ c.strict = {}

AllSerial == {c \in Candidates(TRUE) \cup Candidates(FALSE) : Checked(c)}

\* Both participants exchange data without substeps up to max-time 3.
Truncated == {c \in Candidates(TRUE) :
  /\ Admissible(c) /\ StoredTooLate(c)
  /\ c.substeps = {} /\ c.initializes = {} /\ c.strict = {}
  /\ c.maxTimeWindows = None /\ c.maxIterations = 2 /\ c.minIterations = 1
  /\ c.requesting = First /\ ~c.synchronous /\ ~c.waitInFinalize}
================================================================================
