SPECIFICATION Spec
CONSTANTS
  queries = queries
  plain = plain
  Uris = {queries, plain}
  Queried = {queries}
  Editors <- MCEditing
  MayBreak = FALSE
  MaxNotices = 3
  MaxRefreshes = 1
CHECK_DEADLOCK FALSE
INVARIANTS
  FailureIsReal
