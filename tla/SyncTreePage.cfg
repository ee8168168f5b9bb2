SPECIFICATION Spec
CONSTANTS
  Collection = "C"
  Folder = {"F", "G"}
  Request = {"R", "Q"}
  LocalNew = {"Q"}
  CloudNew = {}
  Name = {"a", "b"}
  Topology <- Listed
  Start <- Trees
  PageLimit = 4
  SharedCascade = FALSE
  Restores = FALSE
  Resolutions = {"keep"}
  MaxEdits = 1
  MaxWrites = 2
PROPERTIES
  IntentUntouched
CHECK_DEADLOCK FALSE
