SPECIFICATION Spec
CONSTANTS
  Participants <- Four
  Configurations <- AnySetup
\* All participants stop once they are finalized: see EveryoneFinishes.
CHECK_DEADLOCK FALSE
INVARIANTS
  TypeOK
  NoCrossTalk
  MeshesOpenWhileCoupling
  NobodyLeavesEarly
PROPERTIES
  SwarmAgrees
  EveryoneFinishes
  ImplementsRendezvous
