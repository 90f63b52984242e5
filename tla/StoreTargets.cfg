SPECIFICATION ReadersSpec
CONSTANTS
  Installers = {p1}
  Readers = {r1}
  Records <- TwoTargets
  Unsupported = {}
  Hashes = {"h1"}
  Targets = {"arm64", "arm"}
  Features = {"f1"}
  Paths = {"q1"}
  Digests = {"d1"}
  Sources = {"packaged"}
  Faults = {}
  NoEntry = NoEntry
  NoProc = NoProc
INVARIANT AuthorizedRecordWasInstalled
