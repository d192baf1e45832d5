SPECIFICATION ConsoleSpec
CONSTANTS
  NumMod = 4096
  SubNumGroups <- McGroups
  TechDigits = 2
  MaxId = 0
  MaxSeqNum = 3
  MaxLen = 2
  BufSize = 9
  MaxTokens = 7
  LongMod = 65536
  Id = 0
  MaxTries = 3
  Timeout = 1
  Lines <- McLines
  Datagrams <- McDatagrams
  Jumps <- McJumps
  Payloads <- McPayloads
  MaxLines = 2
  MaxDatagrams = 2
  MaxJumps = 1
INVARIANTS
  ConsoleTypeOK
  AsksForWhatIsFiled
  GivesUpNotEarly
PROPERTIES
  QueuedAnswerIsRead
  ImplementsClient
  ConsoleEnds
CHECK_DEADLOCK FALSE
