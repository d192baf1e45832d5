SPECIFICATION Spec
CONSTANTS
  MaxId = 1
  MaxSeqNum = 3
  MaxLen = 3
  BufSize = 10
  NumMod = 16
  MaxEntries = 4
  Techs <- McTechs
  DbFile <- McDbFile
  Datagrams <- McDatagrams
  InitialBuffers <- McInitialBuffers
INVARIANTS
  RepeatIsNotOutOfSeq
