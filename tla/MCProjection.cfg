\* Participants A[1], A[2] and B; loops over [1..2], [1..1], [0..0], [1..n]
\* and, with crossed bounds, [2..1].
CONSTANTS
  Role = {"A", "B"}
  Channel = {"c"}
  Type = {"T"}
  Index = {"I", "U", "Z", "N", "X"}
  Id = {"i", "j"}
  NoId = "none"
  SizeMax = 4
  Lower <- MCLower
  Upper <- MCUpper
  IndexOf <- MCIndexOf
  ListId = {1, 2, 3}
  Choreos <- MCChoreos
  Kinds = {":", "<", ">"}
SPECIFICATION FairSpec
INVARIANTS
  TypeOK
  KeysDeclared
  ScopesExact
  ProjectsWritten
  FailsForCause
PROPERTY Terminates
