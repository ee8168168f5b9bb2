SPECIFICATION Spec
CONSTANTS
  a1 = a1
  a2 = a2
  NoAccount = NoAccount
  Account = {a1, a2}
  MaxEvents = 2
  MaxCommands = 1
SYMMETRY Symmetry
CONSTRAINT OneAloft
INVARIANT PauseSticks
INVARIANT OnePushAfterPause
INVARIANT ContextPauses
