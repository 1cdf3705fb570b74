SPECIFICATION FairSpec
CONSTANTS
  Name <- MCName
  UnaryIndex = "PchorUnaryIndex"
  NoName = NoName
  Files <- MCFiles
  MaxTokens = 50
  Code <- MCCode
INVARIANTS
  TypeOK
  RefersBackwards
  NamesMapped
  ChannelFitsCom
  CrashOnlyForCause
PROPERTY
  Terminates
