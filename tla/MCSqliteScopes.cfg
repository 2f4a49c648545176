SPECIFICATION FairSpec
CONSTANTS
  t1 = t1
  t2 = t2
  b0 = b0
  s0 = s0
  q1 = q1
  q2 = q2
  s2 = s2
  Root = Root
  Close = Close
  Txns = {t1, t2}
  Works = {s0, b0, q1, q2, s2}
  Parent <- MCParent
  Line <- MCLine
  Depth <- MCDepth
  Owner <- MCOwner
  Kind <- MCKind
  Size <- MCSize
  Unawaited = {"transaction"}
  EngineRollsBack = TRUE
CHECK_DEADLOCK FALSE
INVARIANTS
  TypeOK
  OneOwner
  SuccessIsDurable
PROPERTIES
  NothingAfterEnd
  ImplementsNested
  CloseEnds
