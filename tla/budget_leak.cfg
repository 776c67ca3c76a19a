SPECIFICATION Spec
CONSTANTS
  NumWorkers = 2
  Limit = 3
  MaxSource = 2
  BufBytes = 2
  MaxCachedBytes = 0
  DiskFaults = TRUE
INVARIANTS BooksBalance
