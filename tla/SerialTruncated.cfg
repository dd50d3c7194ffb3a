SPECIFICATION FlowSpec
\* Both participants stop once they are finalized or failed: see Terminates.
CHECK_DEADLOCK FALSE
CONSTANTS
  First = First
  Second = Second
  Measures = {m1, m2}
  Configurations <- Truncated
  StepBound = 2
  IterationBound = 3
INVARIANTS
  EndsWithWindowEnd
