SPECIFICATION SourceSpec
CONSTANTS
  Leader = leader
  Descendants = {d1}
  Limit = 0
  PipeCap = 1
  MaxOutput = 1
  MayEscape = FALSE
  MayFailWait = TRUE
  Requests = {"auto", "internal", "blutter"}
  Results <- SmallResults
  Flaws = {"ModelRejected"}
  Snapshots <- SmallSnapshots
  Registries <- SmallRegistries
  Nothing = Nothing
INVARIANT BrokenInstallIsLoud
CHECK_DEADLOCK FALSE
