SPECIFICATION Spec
CONSTANTS
  N = 2
  Statements <- MCStatements
  DataOnly <- MCDataOnly
  Transactional = {1}
  Reversible = {1, 2}
  Reconcilable = {}
  MaxAttempts = 3
  MaxVersion = 1
  Runners = {r1, r2}
  NoRunner = NoRunner
  InitialObjects = {}
  InitialFiles <- MCBothFiles
  Commands = {"apply"}
  CommitFaults = {"undone"}
  UnreadableHistory = FALSE
  InspectWhileLocked = FALSE
  MaxDrift = 0
  MaxEdits = 0
  MaxLost = 1
SYMMETRY Symmetric
CHECK_DEADLOCK FALSE
INVARIANTS
  LedgerHonest
  EffectsOnce
  AtMostOneUnresolved
  HistoryReadable
  Resolvable
PROPERTIES
  ImplementsLedger
