SPECIFICATION FairSpec
CHECK_DEADLOCK FALSE
CONSTANTS
  MaxId = 4
  MaxNative = 2
  Mortal = {"data", "control"}
  ExitSeenWhile = {"idle", "running", "cleaning"}
INVARIANTS
  TypeOK
  CancelHitsItsOwn
  AcknowledgedIsOver
  NoOrphans
PROPERTIES
  Settles
