SPECIFICATION Spec
CONSTANTS
  a1 = a1
  a2 = a2
  de = de
  fr = fr
  old = old
  new = new
  NoContext = NoContext
  NoRecord = NoRecord
  NoState = NoState
  Contexts <- ThreeContexts
  MaxRevision = 2
  Faults = TRUE
INVARIANTS
  TypeOK
  SessionOfItsAccount
  NoStaleHandoff
  RestartFindsRunning
CHECK_DEADLOCK FALSE
