SPECIFICATION FairSpec
CHECK_DEADLOCK FALSE
CONSTANTS
  c1 = c1
  write = write
  auto = auto
  forced = forced
  replica = replica
  Contexts = {c1}
  Replicas = {r1}
  Ops = {write, auto, forced, replica}
  Txns = {t1}
  Context <- MCContext
  Preference <- MCPreference
  Automatic <- MCAutomatic
  Writes = {write}
  MaximumAttempts = 3
  MaxQueries = 1
INVARIANTS
  TypeOK
  ReadsItsWrites
  AtMostOnce
PROPERTIES
  RetriesAreEarned
  CallEnds
