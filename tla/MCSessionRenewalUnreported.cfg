CONSTANTS
  poll = poll
  read = read
  write = write
  NoState = NoState
  Nobody = Nobody
  Polls <- OnePoll
  Reads <- OneRead
  Writes <- NoOps
  MaxRevision = 3
  ClearsSession = FALSE
  Kinds <- ApiKind
  Faults = FALSE
SPECIFICATION FairSpec
PROPERTIES RetirementReported
