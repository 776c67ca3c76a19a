SPECIFICATION Spec
CONSTANTS
  NumWorkers = 3
  Limit = 3
  MaxSource = 2
  BufBytes = 2
  MaxCachedBytes = 4
  DiskFaults = FALSE
INVARIANTS Inv WithinLimit NoLostWakeup BooksBalance
PROPERTIES ImplementsLedger
