\* Service restarts, lost connections and abandoned handshakes.
SPECIFICATION RemoteFairSpec
CONSTANTS
  CaptureCap = 1
  Waiting = {FALSE}
  QueueCap = 1
  MaxResponses = 2
  WireCap = 1
  ClientCap = 1
  MaxStale = 1
INVARIANTS
  RemoteTypeOK
  WholePathInOrder
  NothingGarbled
PROPERTIES
  OneCapture
  WindowCanClose
CHECK_DEADLOCK FALSE
