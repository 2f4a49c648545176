SPECIFICATION Spec
CONSTANTS
  N = 3
  Statements <- MCOneEach
  DataOnly <- MCDataFirst
  Transactional = {1}
  Reversible = {3}
  Reconcilable = {2, 3}
  MaxAttempts = 3
  MaxVersion = 2
  Runners = {r1}
  NoRunner = NoRunner
  InitialObjects <- MCLegacy
  InitialFiles <- MCLateFirst
  Commands = {"apply", "reconcile", "baseline"}
  CommitFaults = {"undone"}
  UnreadableHistory = FALSE
  InspectWhileLocked = FALSE
  MaxDrift = 1
  MaxEdits = 2
  MaxLost = 1
CHECK_DEADLOCK FALSE
INVARIANTS
  HeadIsLive
  SuccessfulContentImmutable
  AppliedInOrder
