SPECIFICATION FairSpec
CONSTANTS
  NumRules = 3
  RawRules <- FourRaw
  Canon <- GuardedPair
  Bytes <- LongThird
  ChunkBytes = 2
  FanIn = 2
  IOFaults = TRUE
  MaxAdds = 7
INVARIANTS Inv OutputIsSortedSet NoRuleLost
PROPERTIES FinishReturns ImplementsRuleSet
