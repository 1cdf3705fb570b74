\* Files of declarations, and texts with one token too few, too many or wrong.
CONSTANTS
  Name <- MCName
  UnaryIndex = "PchorUnaryIndex"
  NoName = "null"
  Files <- MCFiles
  MaxTokens = 60
  Inputs <- MCInputs
SPECIFICATION FairSpec
INVARIANTS
  TypeOK
  ScopesNested
  CrashOnlyForCause
  NothingIgnored
  IndexesWellFormed
PROPERTIES
  ImplementsParser
  Terminates
