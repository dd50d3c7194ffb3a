SPECIFICATION Spec
CONSTANTS
  Participants <- Four
  Configurations <- Pair
\* All participants stop once they are finalized: see EveryoneFinishes.
CHECK_DEADLOCK FALSE
PROPERTIES
  MeshesCloseLast
