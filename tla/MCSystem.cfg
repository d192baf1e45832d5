SPECIFICATION SysSpec
CONSTANTS
  c1 = c1
  c2 = c2
  MaxId = 0
  MaxSeqNum = 1
  MaxLen = 2
  BufSize = 9
  NumMod = 16
  MaxEntries = 4
  Techs <- McTechs
  DbFile <- McDbFile
  Datagrams <- McDatagrams
  InitialBuffers <- McInitialBuffers
  Clients <- McClients
  IdOf <- McIdOf
  MaxTries = 1
  Payloads <- McPayloads
  MaxCalls = 3
  MaxFaults = 1
VIEW StateView
SYMMETRY Symmetry
INVARIANTS
  SysTypeOK
  AnswersMatchTheirCall
  OnceALap
  QuietCallsEndTruthfully
