SPECIFICATION ReadersSpec
CONSTANTS
  Installers = {p1, p2}
  Readers = {r1}
  Records <- SharedPair
  Unsupported = {}
  Hashes = {"h1", "h2"}
  Targets = {"arm64"}
  Features = {"f1"}
  Paths = {"q1"}
  Digests = {"d1"}
  Sources = {"packaged"}
  Faults = {"io", "drop", "crash"}
  NoEntry = NoEntry
  NoProc = NoProc
INVARIANTS
  FailedInstallUndone
  LedgerBacked
  ListingIsTrue
PROPERTIES
  NoLostRow
  ImplementsAtomicStore
SYMMETRY InstallerSymmetry
