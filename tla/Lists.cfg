SPECIFICATION FairSpec
CONSTANTS
  p1 = p1
  p2 = p2
  p3 = p3
  A = A
  B = B
  NoId = NoId
  NoConn = NoConn
  Conns = {p1, p3}
  Ids = {A, B}
  IdOf <- MCIdOf
  Topics <- MCTopics
  MaxFd = 7
  Paced = TRUE
  Killable = {}
  StopTyped = FALSE
  Malformed = TRUE
  MaxMsgs = 1
  MaxTyped = 4
  Commanded <- MCEditing
INVARIANTS
  AbortsExplained
PROPERTIES
  OwedIsShown
CHECK_DEADLOCK FALSE
