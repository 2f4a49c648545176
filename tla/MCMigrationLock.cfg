SPECIFICATION FairSpec
CONSTANTS
  N = 2
  Statements <- MCStatements
  DataOnly <- MCDataOnly
  Transactional = {1}
  Reversible = {}
  Reconcilable = {}
  MaxAttempts = 3
  MaxVersion = 1
  Runners = {r1, r2}
  NoRunner = NoRunner
  InitialObjects = {}
  InitialFiles <- MCBothFiles
  Commands = {"apply"}
  CommitFaults = {"undone", "done"}
  UnreadableHistory = FALSE
  InspectWhileLocked = FALSE
  MaxDrift = 0
  MaxEdits = 0
  MaxLost = 1
CHECK_DEADLOCK FALSE
PROPERTIES
  LockMovesOn
  SettledStaysSettled
