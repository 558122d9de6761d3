SPECIFICATION MCSpec
CONSTANTS
  poll = poll
  write = write
  NoState = NoState
  Nobody = Nobody
  Polls <- OnePoll
  Reads <- NoOps
  Writes <- OneWrite
  MaxRevision = 3
  ClearsSession = TRUE
  Kinds <- AnyKind
  Faults = TRUE
  x1 = x1
  t1 = t1
  k1 = k1
  NoRecord = NoRecord
  NoAuth = NoAuth
  NoPlan = NoPlan
INVARIANTS
  WithinBounds
  DurableInUse
PROPERTIES
  RefreshesTheLatest
  SavedBeforeUse
  RuntimeRetiresRefused
  EveryOperationEnds
  FollowersEnd
