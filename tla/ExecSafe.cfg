SPECIFICATION MCSpec
CONSTANTS
  Leader = leader
  Descendants = {d1, d2}
  Limit = 1
  PipeCap = 2
  MaxOutput = 2
  MayEscape = TRUE
  MayFailWait = TRUE
  Lowered = {"file"}
  Ask <- Two
  Hard <- HardLimits
  MaxFd = 9
  Ceiling = 8
  Inherited = {3, 5, 9}
  MaxTasks = 4
  Isolate = TRUE
INVARIANTS
  NothingSurvives
  EndIsTheTrees
  ContainmentIsTrue
  ImageIsWhatRuns
SYMMETRY DescendantSymmetry
CHECK_DEADLOCK FALSE
