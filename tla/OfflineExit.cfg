SPECIFICATION Spec
CONSTANTS
  p1 = p1
  p2 = p2
  p3 = p3
  A = A
  B = B
  NoId = NoId
  NoConn = NoConn
  Conns = {p1}
  Ids = {A, B}
  IdOf <- MCIdOf
  Topics <- MCTopics
  MaxFd = 7
  Paced = TRUE
  Killable = {}
  StopTyped = TRUE
  Malformed = FALSE
  MaxMsgs = 0
  MaxTyped = 1
  Commanded <- MCSession
INVARIANTS
  ExitIsOrderly
CHECK_DEADLOCK FALSE
