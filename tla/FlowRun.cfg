SPECIFICATION FairSpec
CONSTANTS
  Steps = 3
  Flows <- Three
  MaxTries = 2
  MaxFaults = 2
  MaxEvents = 2
INVARIANTS
  NothingHidden
  ResultStands
  OneLateEffect
  PurgeIsFinal
PROPERTIES
  IsHistory
  RunEnds
CHECK_DEADLOCK FALSE
