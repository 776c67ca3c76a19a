SPECIFICATION Spec
CONSTANTS
  Word <- SomeWords
  MaxDomain = 253
  MaxLabel = 63
  Lines <- TwoLines
  Faults = TRUE
INVARIANTS Inv EmittedIsValid NormalIsFixed MeaningKept OneSpelling OrderIsIrrelevant
