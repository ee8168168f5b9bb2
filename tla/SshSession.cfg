SPECIFICATION MCSpec
CONSTANTS
  c1 = c1
  o1 = o1
  t1 = t1
  Links = 2
  Attempts = 1
  Command = {c1}
  Opener = {o1}
  Opens = 2
  Transfer = {t1}
  Chunks = 1
  MaxFaults = 1
INVARIANTS
  OneTransport
  OnceInTranscript
PROPERTIES
  NoRevival
  TransferIsCurrent
  SessionEnds
CHECK_DEADLOCK FALSE
