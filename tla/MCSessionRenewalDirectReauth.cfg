CONSTANTS
  poll = poll
  read = read
  write = write
  NoState = NoState
  Nobody = Nobody
  Polls <- OnePoll
  Reads <- NoOps
  Writes <- OneWrite
  MaxRevision = 3
  ClearsSession = TRUE
  Kinds <- AnyKind
  Faults = FALSE
SPECIFICATION Spec
PROPERTIES RenewalBeforeReauth
