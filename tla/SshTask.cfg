CONSTANTS
  Runs = 2
  Plan <- Mixed
  MaxRuns = 1
  Clearer = {c1}
  c1 = c1
  MaxFaults = 1
  MaxDeletes = 1
SPECIFICATION MCSpec
INVARIANTS FileSafe LogKept Bounded RunLeaves
PROPERTY HistoryTrue
CHECK_DEADLOCK FALSE
