\* Every text of up to five characters.
CONSTANTS
  Char = {" ", "NL", "/", "-", ">", "1", "n", "e"}
  Keywords <- MCKeywords
  Texts <- MCTexts
  MaxTokens = 4
  MaxText = 5
SPECIFICATION FairSpec
INVARIANTS
  TypeOK
  LinesTrue
  TokensExact
PROPERTY
  Terminates
