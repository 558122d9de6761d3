CONSTANTS
  c1 = c1
  c2 = c2
  x1 = x1
  x2 = x2
  t1 = t1
  j1 = j1
  j2 = j2
  j3 = j3
  v1 = v1
  p1 = p1
  NoRecord = NoRecord
  NoAuth = NoAuth
  NoPlan = NoPlan
  Damaged = Damaged
  Nobody = Nobody
  NoRequest = NoRequest
  Callers <- MCCallers
  Tokens <- MCTokens
  Vehicles <- MCVehicles
  Contexts <- OneContext
  JournalIds <- ThreeIds
  Plans <- NoPlans
  Offered <- JournalOps
  MaxCommands = 2
SPECIFICATION Spec
INVARIANTS TypeOK JournalNeverRegresses
PROPERTIES ContractHolds EntriesKept
SYMMETRY CallersAndIds
