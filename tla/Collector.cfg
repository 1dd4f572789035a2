\* The collector of a portable copy, channels as small as they can be.
SPECIFICATION FairSpec
CONSTANTS
  CaptureCap = 2
  Waiting = {TRUE, FALSE}
  QueueCap = 2
  MaxResponses = 3
INVARIANTS
  TypeOK
  ResponsesInOrder
PROPERTIES
  CollectorKeepsResponses
  ResponsesAreApplied
  StopReachesCapture
CHECK_DEADLOCK FALSE
