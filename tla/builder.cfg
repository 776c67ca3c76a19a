SPECIFICATION Spec
CONSTANTS
  NumSources = 2
  CustomConfigured = TRUE
  DiskFaults = TRUE
  MaxRuns = 2
INVARIANTS Inv SummaryDescribesOutput ReportsCoverOutput SuccessIsComplete
PROPERTIES PublishesWhole
