SPECIFICATION Spec
CONSTANTS
  NumWorkers = 2
  NumSources = 2
  Limit = 3
  MaxSource = 2
  BufBytes = 2
  DiskFaults = FALSE
  OpenFaults = FALSE
  Size <- TwoFull
  CacheConfigured = TRUE
  Retries = 0
  Deadline = 0
  Timeout = 1
  MaxCalls = 1
INVARIANTS TooLargeIsDefinitive
