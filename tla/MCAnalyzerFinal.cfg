SPECIFICATION Spec
CONSTANTS
  Name <- MCName
  UnaryIndex = "PchorUnaryIndex"
  NoName = NoName
  Files <- MCFiles
  MaxTokens = 50
  Code <- MCCode
INVARIANT ProjectsFinalType
