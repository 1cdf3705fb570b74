\* A method with a helper, which has a helper that may call it back; longer
\* methods that call nothing.
CONSTANTS
  Fn = {"main", "help", "leaf"}
  Main = "main"
  NoFn = "none"
  Channel <- MCChannel
  Type <- MCType
  Programs <- MCPrograms
  Choreos <- MCChoreos
  MaxDepth = 3
  MaxMain = 3
  MaxHelper = 2
  MaxFlat = 5
  MaxList = 3
  SendOn = {"a"}
  MainKinds = {"send a", "wait b", "help", "other"}
  HelperKinds = {"send a", "wait b", "leaf"}
  LeafKinds = {"send a", "x=help"}
  FlatKinds = {"send a", "send b", "wait b", "other"}
SPECIFICATION FairSpec
INVARIANTS
  TypeOK
  PointerExact
  NeverBehindCaller
  OverflowOnlyIfTooDeep
  EvidenceInOrder
  FlatComplete
PROPERTY
  Terminates
