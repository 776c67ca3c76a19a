SPECIFICATION Spec
CONSTANTS
  NumWorkers = 2
  NumSources = 2
  Limit = 2
  MaxSource = 2
  BufBytes = 2
  DiskFaults = FALSE
  OpenFaults = TRUE
  Size <- TwoSmall
  CacheConfigured = TRUE
  Retries = 1
  Deadline = 0
  Timeout = 1
  MaxCalls = 1
INVARIANTS CacheClean
