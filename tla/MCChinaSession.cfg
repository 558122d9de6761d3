SPECIFICATION FairSpec
CONSTANTS
  bean_tech = bean_tech
  auto_ai = auto_ai
  Services = {bean_tech, auto_ai}
  MaxPair = 2
  MaxTries = 2
INVARIANTS
  NoMixedSession
  RotatedPairHeld
PROPERTIES
  NothingSpentTwice
  DroppedOnlyIfRefused
  EveryCallEnds
CHECK_DEADLOCK FALSE
