SPECIFICATION Spec
CONSTANTS
  root = root
  a = a
  aa = aa
  b = b
  e1 = e1
  e2 = e2
  b1 = b1
  s1 = s1
  c1 = c1
  p1 = p1
  Root = root
  Scopes = {root, a}
  Parent <- MCParent
  Depth <- MCDepth
  Works = {e1, c1}
  Kind <- MCKind
  Size <- MCSize
  NoWork = NoWork
  Unawaited = {"execute", "batch", "pipeline", "stream", "copy"}
  Concurrent = FALSE
  MayBreak = FALSE
  MaxWork = 2
  MaxNested = 1
CHECK_DEADLOCK FALSE
INVARIANTS
  NothingLeftBehind
