SPECIFICATION Spec
CONSTANTS
  ByteSize = 8
  StringLen = 4
  HeaderLen = 8
  MaxLenBuf = 14
  Decimals = 2
  CommandLen = 4
  Char <- MCChar
  Datagrams <- MCDatagrams
  Senders <- MCSenders
  Lines <- MCLines
  Flags <- MCFlags
  Topics <- MCStaleTopics
INVARIANTS
  TypeOK
  ShownAsPublished
  LimitsKept
PROPERTIES
  HeaderAsTyped
CHECK_DEADLOCK FALSE
