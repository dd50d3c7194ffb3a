SPECIFICATION Spec
\* The participants stop once they are finalized: see Terminates.
CHECK_DEADLOCK FALSE
CONSTANTS
  Configurations <- MixedImplicit
  StepBound = 3
INVARIANTS
  CountsWindows
