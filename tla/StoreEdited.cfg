SPECIFICATION FairSpec
CONSTANTS
  Installers = {p1, p2}
  Records <- WithRetired
  Unsupported <- Retired
  Hashes = {"h1", "h2"}
  Targets = {"arm64", "arm"}
  Features = {"f1"}
  Paths = {"q1"}
  Digests = {"d1"}
  Sources = {"packaged"}
  Faults = {"io", "read", "crash", "tamper"}
  NoEntry = NoEntry
  NoProc = NoProc
INVARIANTS
  SuccessIsInstalled
PROPERTIES
  RecoversFromCrash
  InstallReturns
