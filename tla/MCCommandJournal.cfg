CONSTANTS
  x1 = x1
  t1 = t1
  k1 = k1
  k2 = k2
  NoRecord = NoRecord
  NoAuth = NoAuth
  NoPlan = NoPlan
  Contexts <- OneContext
  Tokens <- OneToken
  JournalIds <- TwoCommands
  Vehicles <- NoVehicles
  Plans <- NoVehicles
  Account = x1
  Token = t1
  MaxCommands = 1
  MaxRuntimes = 2
  Faults = TRUE
SPECIFICATION Spec
INVARIANTS
  RestartFindsShown
  TruthfulResult
SYMMETRY AnyCommand
CHECK_DEADLOCK FALSE
