SPECIFICATION Spec
CONSTANTS
  p1 = p1
  p2 = p2
  p3 = p3
  A = A
  B = B
  NoId = NoId
  NoConn = NoConn
  Conns = {p1, p2, p3}
  Ids = {A, B}
  IdOf <- MCIdOf
  Topics <- MCTopics
  MaxFd = 7
  Paced = FALSE
  Killable = {p1}
  StopTyped = TRUE
  Malformed = TRUE
  MaxMsgs = 1
  MaxTyped = 1
  Commanded <- MCVisiting
INVARIANTS
  Bookkeeping
  FdmaxCovers
  DescriptorsBelow
  SocketsKnown
  TurnNeverBlocks
  AckAligned
CHECK_DEADLOCK FALSE
