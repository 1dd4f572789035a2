\* Five connections for three places on the list and four in the tables.
SPECIFICATION Spec
CONSTANTS
  Game = Game
  Others = {c1, c2, c3, c4}
  MaxHosts = 3
  MaxSeen = 4
  MaxPending = 2
  Requests = {r1, r2, s}
  StatsRequests = {s}
  None = None
SYMMETRY Alike
INVARIANTS
  TypeOK
  AnswerIsRead
  NamedAfterItsRequest
CHECK_DEADLOCK FALSE
