SPECIFICATION FairSpec
CONSTANTS
  NumLists = 2
  MaxRuns = 3
INVARIANTS Inv SummaryMatchesRelease
PROPERTIES NothingLeftBehind ScriptEnds
