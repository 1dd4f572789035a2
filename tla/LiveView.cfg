\* Runs of the program, a page that lives through them, and a game that comes and goes.
CONSTANTS
  Answering = {"refused", "ours"}
  Port = {1, 2}
  Span = 1
  BroadcastCapacity = 1
  MaxVersion = 3
SPECIFICATION Spec
INVARIANT TypeOK
INVARIANT NeverBack

CHECK_DEADLOCK FALSE
PROPERTY PortIsKept
PROPERTY StatusSettles
PROPERTY PageCatchesUp
