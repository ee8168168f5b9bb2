SPECIFICATION Spec
CONSTANTS
  e1 = e1
  e2 = e2
  Entity = {e1}
  Capture <- OneEager
  Resolutions = {"remote"}
  Repairs = FALSE
  BatchLimit = 2
  MaxEdits = 2
  MaxWrites = 2
  MaxFaults = 1
INVARIANT CaughtUpAgrees
