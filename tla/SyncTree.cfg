SPECIFICATION Spec
CONSTANTS
  Collection = "C"
  Folder = {"F", "G"}
  Request = {"R", "Q"}
  LocalNew = {"Q"}
  CloudNew = {"Q"}
  Name = {"a", "b"}
  Topology <- Listed
  Start <- Trees
  PageLimit = 2
  SharedCascade = FALSE
  Restores = FALSE
  Resolutions = {"keep", "remote"}
  MaxEdits = 1
  MaxWrites = 2
INVARIANTS
  TypeOK
  WellFormed
  Converges
PROPERTIES
  IntentUntouched
CHECK_DEADLOCK FALSE
