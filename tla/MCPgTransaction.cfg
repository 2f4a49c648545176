SPECIFICATION FairSpec
CONSTANTS
  root = root
  a = a
  aa = aa
  b = b
  e1 = e1
  e2 = e2
  b1 = b1
  s1 = s1
  c1 = c1
  p1 = p1
  Root = root
  Scopes = {root, a, aa, b}
  Parent <- MCParent
  Depth <- MCDepth
  Works = {e1, s1, b1, p1, c1}
  Kind <- MCKind
  Size <- MCSize
  NoWork = NoWork
  Unawaited = {"execute", "batch", "pipeline", "stream"}
  Concurrent = FALSE
  MayBreak = TRUE
  MaxWork = 2
  MaxNested = 2
CHECK_DEADLOCK FALSE
INVARIANTS
  TypeOK
  AllOrNothing
  CleanReturn
  LeaseReleasedOnce
  MarkIsLive
  NothingLeftBehind
PROPERTIES
  Settles
