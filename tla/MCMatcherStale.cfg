\* A method with helpers; a search that starts over at a projection it has found.
CONSTANTS
  Fn = {"main", "help", "leaf"}
  Main = "main"
  NoFn = "none"
  Channel <- MCChannel
  Type <- MCType
  Programs <- MCPrograms
  Choreos <- MCChoreos
  MaxDepth = 3
  MaxMain = 3
  MaxHelper = 2
  MaxFlat = 0
  MaxList = 3
  SendOn = {"a"}
  MainKinds = {"send a", "wait b", "help", "other"}
  HelperKinds = {"send a", "wait b", "leaf"}
  LeafKinds = {"send a", "x=help"}
  FlatKinds = {}
SPECIFICATION Spec
INVARIANT ContinuesFromNext
