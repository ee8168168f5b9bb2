SPECIFICATION FairSpec
CONSTANTS
  e1 = e1
  e2 = e2
  Entity = {e1}
  Capture <- OneEager
  Resolutions = {"keep"}
  Repairs = FALSE
  BatchLimit = 1
  MaxEdits = 2
  MaxWrites = 1
  MaxFaults = 2
PROPERTY EventuallySettled
