SPECIFICATION Spec
CONSTANTS
  Participants <- Four
  Configurations <- Chain
\* All participants stop once they are finalized: see EveryoneFinishes.
CHECK_DEADLOCK FALSE
PROPERTIES
  SwarmAgrees
