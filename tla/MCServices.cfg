SPECIFICATION MCSpec
CONSTANTS
  c1 = c1
  c2 = c2
  Platforms = {"overseas", "navinfo"}
  Calls = {c1, c2}
  Hours = {1}
  MaxDay = 1
  MaxPlan = 2
  Suppliers = {"anz", "beantech", "navinfo"}
  Requests = {c1, c2}
  UserTemps = {24}
  UserTimes = {20}
  AppSettings <- TwoStored
  MaxRequests = 3
  Entities = {"start", "end", "limit", "departure", "heating"}
  ClockTimes = {1, 2, 3}
  Limits = {80, 90}
  AtFirst <- NightCharge
  MaxEvents = 3
  MaxMessages = 2
INVARIANTS
  WellFormed
  OwnPlanRecorded
  ConfirmedShown
  AnswersItsCommand
PROPERTIES
  ForeignPlanKept
  RecordOutlivesPlan
  CleanupEnds
  SavedSettingsUsed
  OthersKept
  ShownCatchesUp
CHECK_DEADLOCK FALSE
