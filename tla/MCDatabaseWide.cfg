SPECIFICATION Spec
CONSTANTS
  NumMod = 16
  MaxEntries = 6
  Techs <- McTechs
  Files <- WideFiles
  Numbers <- WideNumbers
INVARIANTS
  LookupFindsPresent
CHECK_DEADLOCK FALSE
