SPECIFICATION Spec
CONSTANTS
  e1 = e1
  e2 = e2
  Entity = {e1}
  Capture <- OneSnapshot
  Resolutions = {"keep", "remote"}
  Repairs = TRUE
  BatchLimit = 2
  MaxEdits = 2
  MaxWrites = 2
  MaxFaults = 2
ACTION_CONSTRAINT PromptResolver
INVARIANT NoLostEdit
INVARIANT CaughtUpAgrees
INVARIANT NeverAhead
PROPERTY IntentSurvives
