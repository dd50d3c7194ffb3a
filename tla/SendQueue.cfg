SPECIFICATION Spec
\* The ranks stop once they have closed: see AllClose.
CHECK_DEADLOCK FALSE
CONSTANTS
  Configurations <- TwoByTwo
  Capacity = 1
INVARIANTS
  TypeOK
  MessagesWhole
  BuffersAlive
  QueueOutlivesHandlers
PROPERTIES
  AllClose
