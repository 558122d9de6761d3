SPECIFICATION Spec
CONSTANTS
  g1 = g1
  g2 = g2
  Ids = {g1, g2}
  NoId = NoId
  MaxPair = 3
  MaxTime = 2
  Interval = 2
INVARIANTS
  WellFormed
  IdentityOfItsAccount
  NoSpentSession
PROPERTIES
  CodesSpaced
  NoUnaskedLogin
  DroppedOnlyIfRefused
CHECK_DEADLOCK FALSE
