SPECIFICATION FairSpec
CHECK_DEADLOCK FALSE
CONSTANTS
  MaxId = 2
  MaxNative = 1
  Mortal = {"data"}
  ExitSeenWhile = {"idle", "running", "awaiting", "cleaning"}
PROPERTIES
  Settles
