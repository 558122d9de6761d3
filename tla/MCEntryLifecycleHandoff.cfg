CONSTANTS
  a1 = a1
  a2 = a2
  fr = fr
  de = de
  old = old
  new = new
  NoContext = NoContext
  NoRecord = NoRecord
  NoState = NoState
  Contexts <- TwoPasswords
  MaxRevision = 3
  Faults = FALSE
SPECIFICATION Spec
PROPERTIES FlowSessionUsed
