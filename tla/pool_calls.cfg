SPECIFICATION FairSpec
CONSTANTS
  NumWorkers = 2
  NumSources = 2
  Limit = 3
  MaxSource = 2
  BufBytes = 1
  DiskFaults = TRUE
  OpenFaults = FALSE
  Size <- ShortAndFull
  CacheConfigured = TRUE
  Retries = 3
  Deadline = 5
  Timeout = 2
  MaxCalls = 2
INVARIANTS BudgetInv CacheClean
PROPERTIES GoodFilesStay Terminates CancelIsHonoured
