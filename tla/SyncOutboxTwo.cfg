SPECIFICATION Spec
CONSTANTS
  e1 = e1
  e2 = e2
  Entity = {e1, e2}
  Capture <- Mixed
  Resolutions = {"keep"}
  Repairs = FALSE
  BatchLimit = 2
  MaxEdits = 2
  MaxWrites = 1
  MaxFaults = 1
INVARIANT OperationImmutable
INVARIANT CommittedOnce
