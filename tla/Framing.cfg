\* Every cutting of three messages into calls, with buffers taken away.
SPECIFICATION Spec
CONSTANTS
  Last = 3
  Streams <- MCStreams
  Chunks = {1, 2, 4, 7}
  MaxScan = 2
  MaxMessage = 5
  MayForget = TRUE
INVARIANTS
  TypeOK
  CompleteIsFramed
  NoNeedlessCut
  WalkEndsAtMessage
CHECK_DEADLOCK FALSE
