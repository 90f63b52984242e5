SPECIFICATION CacheSpec
CONSTANTS
  Runs = {r1, r2}
  Readers = {}
  Libraries <- BuiltLibraries
  MaxEntries = 3
  MayStop = FALSE
INVARIANT RegisteredIsFound
