SPECIFICATION FairSpec
CONSTANTS
  Modes <- MCModes
  MaxPages = 2
CHECK_DEADLOCK FALSE
INVARIANTS
  TypeOK
  StatusIsHonest
PROPERTIES
  RunEnds
