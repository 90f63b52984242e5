SPECIFICATION ExecFairSpec
CONSTANTS
  Leader = leader
  Descendants = {d1}
  Limit = 1
  PipeCap = 1
  MaxOutput = 1
  MayEscape = TRUE
  MayFailWait = FALSE
PROPERTY JoinsTerminate
CHECK_DEADLOCK FALSE
