SPECIFICATION Spec
CONSTANTS
  NumWorkers = 2
  NumSources = 3
  Limit = 3
  MaxSource = 2
  BufBytes = 2
  DiskFaults = TRUE
  OpenFaults = FALSE
  Size <- ThreeLists
  CacheConfigured = TRUE
  Retries = 3
  Deadline = 5
  Timeout = 2
  MaxCalls = 1
INVARIANTS Inv DeliveredWithinLimit CancelIsTotal SuccessHasFile NoTempsLeft AttemptsFitDeadline
PROPERTIES ResultsFinal
