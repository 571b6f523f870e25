SPECIFICATION Spec
CONSTANTS
  p1 = p1
  p2 = p2
  p3 = p3
  A = A
  B = B
  NoId = NoId
  NoConn = NoConn
  Conns = {p1, p2, p3}
  Ids = {A, B}
  IdOf <- MCIdOf
  Topics <- MCTopics
  MaxFd = 7
  Paced = TRUE
  Killable = {}
  StopTyped = TRUE
  Malformed = TRUE
  MaxMsgs = 2
  MaxTyped = 2
  Commanded <- MCSession
INVARIANTS
  TypeOK
  QueueNewer
  StopAndWait
  AbortsExplained
  InPace
PROPERTIES
  KeepsPromise
CHECK_DEADLOCK FALSE
