SPECIFICATION LoaderSpec
CONSTANTS
  Parsers <- McParsers
  Start = "database"
  Texts <- McNulTexts
  NumMod = 4096
  MaxEntries = 3
  TreeHeight = 3
  Yields <- McYields
  SubNumGroups <- McGroups
  TechDigits = 2
INVARIANT
  ParsedIsValid
CHECK_DEADLOCK FALSE
