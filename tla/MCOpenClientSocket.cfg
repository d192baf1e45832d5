SPECIFICATION Spec
CONSTANTS
  c1 = c1
  c2 = c2
  MaxId = 0
  MaxSeqNum = 2
  MaxLen = 2
  BufSize = 9
  Clients <- McClients
  IdOf <- McIdOf
  MaxTries = 3
  Payloads <- McPayloads
  Replies <- McReplies
INVARIANTS
  SocketSurvives
