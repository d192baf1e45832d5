SPECIFICATION LoaderSpec
CONSTANTS
  Parsers <- McParsers
  Start = "database"
  Texts <- McTexts
  NumMod = 4096
  MaxEntries = 3
  TreeHeight = 3
  Yields <- McYields
  SubNumGroups <- McGroups
  TechDigits = 2
INVARIANTS
  LoaderTypeOK
  GatheredFits
  FailureConsumesNothing
  NestingIsBalanced
  StreamInStep
  TreeSpellsTheText
  WalkReadsTheText
  ErrorIsExact
PROPERTIES
  ImplementsDatabase
  LoadEnds
CHECK_DEADLOCK FALSE
