SPECIFICATION Spec
CONSTANTS
  Workspace = {"A", "B", "C"}
  Environment = {"E", "G"}
  Variable = {"U", "V"}
  EnvVariable = {"X"}
  Home <- Homes
  Shared = "A"
  Name = {"a", "b", "c"}
  Rank <- Ranks
  Start <- Stores
  PageLimit = 2
  MaxEdits = 1
  MaxWrites = 2
INVARIANTS
  TypeOK
  Closed
  Anchored
  Converges
PROPERTIES
  LocalFieldsKept
  IntentUntouched
CHECK_DEADLOCK FALSE
