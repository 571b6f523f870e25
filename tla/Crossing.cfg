SPECIFICATION Spec
CONSTANTS
  p1 = p1
  p2 = p2
  p3 = p3
  A = A
  B = B
  NoId = NoId
  NoConn = NoConn
  Conns = {p1}
  Ids = {A, B}
  IdOf <- MCIdOf
  Topics <- MCTopics
  MaxFd = 7
  Paced = FALSE
  Killable = {}
  StopTyped = FALSE
  Malformed = FALSE
  MaxMsgs = 1
  MaxTyped = 2
  Commanded <- MCSubscribing
INVARIANTS
  ServerSurvives
CHECK_DEADLOCK FALSE
