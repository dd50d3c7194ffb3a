CONSTANTS
  Confs <- ReusingRestart
  Windows = 4
  Iterations = 3
SPECIFICATION Spec
INVARIANT ChunkMatches
CHECK_DEADLOCK FALSE
