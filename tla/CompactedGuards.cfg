SPECIFICATION CompactSpec
CONSTANTS
  Inputs <- SmallFunctions
  MaxDepth = 64
  MaxRepeatedBlocks = 16
  MaxRendered = 40
  MaxInline = 5
  MaxWrapped = 4
  LongBlocks = {1}
  ShortVisits = 3
  JoinVisits = 2
  PlainVisits = 1
  MaxHelpers = 2
  MaxInlinedLines = 6
  MaxPasses = 16
INVARIANT GuardsMergeAlone
CHECK_DEADLOCK FALSE
