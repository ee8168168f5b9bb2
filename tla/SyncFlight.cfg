SPECIFICATION FairSpec
CONSTANTS
  w1 = w1
  w2 = w2
  c1 = c1
  Workspace = {w1, w2}
  Command = {c1}
  Limit = 1
  MaxEdits <- Edits
  MaxTriggers = 1
  MaxFaults = 1
  MaxMoves = 1
INVARIANT OneFlight
INVARIANT PermitsBalance
INVARIANT FailureShown
PROPERTY EveryEditSynced
