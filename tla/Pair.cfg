SPECIFICATION FairSpec
CONSTANTS
  p1 = p1
  p2 = p2
  p3 = p3
  A = A
  B = B
  NoId = NoId
  NoConn = NoConn
  Conns = {p1, p2}
  Ids = {A, B}
  IdOf <- MCIdOf
  Topics <- MCTopics
  MaxFd = 7
  Paced = FALSE
  Killable = {p1}
  StopTyped = TRUE
  Malformed = TRUE
  MaxMsgs = 2
  MaxTyped = 2
  Commanded <- MCVisiting
INVARIANTS
  InOrder
  QueueNewer
  StopAndWait
  InStep
  InSequence
PROPERTIES
  ServerReturns
CHECK_DEADLOCK FALSE
