\* Two participants of one class, one of another; overloads, a helper, a pure virtual method.
CONSTANTS
  Participant = {"S1", "S2", "R1"}
  Name = {"put", "R", "pure", "get"}
  Method = {"put", "put2", "R", "pure", "get"}
  Methods <- MCMethods
  NameOf <- MCNameOf
  KindOf <- MCKindOf
  Defined = {"put", "put2", "get"}
  Fn = {"put", "put2", "get"}
  NoFn = "none"
  Channel = {"a", "b"}
  Type = {"T"}
  Programs <- MCPrograms
  Choreos <- MCChoreos
  MaxDepth = 3
  Projections <- MCProjections
SPECIFICATION FairSpec
INVARIANTS
  TypeOK
  SameProtocolSameVerdict
  ReportAccountsForAll
  UndefinedBehindSuccess
  AbortsForCause
PROPERTIES
  FiledInGoodFaith
  Terminates
