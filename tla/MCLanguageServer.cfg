SPECIFICATION Spec
CONSTANTS
  queries = queries
  plain = plain
  Uris = {queries, plain}
  Queried = {queries}
  Editors <- MCCalm
  MayBreak = TRUE
  MaxNotices = 3
  MaxRefreshes = 2
CHECK_DEADLOCK FALSE
INVARIANTS
  TypeOK
  SettledIsCurrent
  SettledIsShown
