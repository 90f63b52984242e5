SPECIFICATION MCSpec
CONSTANTS
  Length = 4
  NoName = NoName
  Requests <- SmallRequests
  Calls <- FirstCalls
  Apks <- SmallApks
  MaxPasses = 2
  MaxDepth = 3
INVARIANTS
  GraphIsTheCode
  NothingAmputated
  CutsAreEntries
  OutputIsTheInput
  PrunedIsTheCode
  SelectionIsBest
  EntrypointsAreTheCode
  ChainsAreTheCalls
CHECK_DEADLOCK FALSE
