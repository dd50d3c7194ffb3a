SPECIFICATION FlowSpec
\* Both participants stop once they are finalized or failed: see Terminates.
CHECK_DEADLOCK FALSE
CONSTANTS
  First = First
  Second = Second
  Measures = {m1, m2}
  Configurations <- AllSerial
  StepBound = 2
  IterationBound = 3
INVARIANTS
  TypeOK
  ExpectedMessage
  SolverFollowsScheme
  FreshData
  MappingsAreCurrent
  StampsTrue
  StampsInOrder
  EndsWithWindowEnd
  EndTogether
PROPERTIES
  IterationsWithinLimits
  KeepsLockstep
  Terminates
