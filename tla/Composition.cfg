SPECIFICATION Spec
\* The participants stop once they are finalized: see Terminates.
CHECK_DEADLOCK FALSE
CONSTANTS
  Configurations <- AllNetworks
  StepBound = 3
INVARIANTS
  TypeOK
  ExpectedMessage
  CountsWindows
  OnlyConvergedData
PROPERTIES
  Terminates
