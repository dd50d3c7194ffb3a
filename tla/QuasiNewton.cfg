\* The coupling ends with the last window: the acceleration is not called any more.
CONSTANTS
  Confs <- MCConfs
  Windows = 4
  Iterations = 4
SPECIFICATION Spec
INVARIANTS
  TypeOK
  CountersMatch
  OnlyReusedWindows
  FactorsMatch
  WtilIsCurrent
CHECK_DEADLOCK FALSE
