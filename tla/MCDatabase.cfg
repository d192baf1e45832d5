SPECIFICATION Spec
CONSTANTS
  NumMod = 16
  MaxEntries = 4
  Techs <- McTechs
  Files <- NarrowFiles
  Numbers <- NarrowNumbers
INVARIANTS
  TypeOK
  SortedAndComplete
  LookupFindsPresent
CHECK_DEADLOCK FALSE
