\* The window is closed while a response waits for room in a full channel.
SPECIFICATION FairSpec
CONSTANTS
  CaptureCap = 2
  Waiting = {TRUE, FALSE}
  QueueCap = 2
  MaxResponses = 1
PROPERTY CloseCompletes
CHECK_DEADLOCK FALSE
