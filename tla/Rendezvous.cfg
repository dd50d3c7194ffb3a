SPECIFICATION BoundedSpec
\* The rounds end with RoundBound: NobodyBlocked speaks of standstills.
CHECK_DEADLOCK FALSE
CONSTANTS
  Participants <- Five
  RoundBound = 2
INVARIANTS
  PartnersInStep
  NobodyBlocked
