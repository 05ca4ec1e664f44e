SPECIFICATION Spec
CONSTANTS
  Prompts = 3
  Rollouts = 3
  Workers = {1, 2, 3}
  Limits <- MCLimits
  a1 = a1
  a2 = a2
  b1 = b1
  None = None
  Call = {a1, a2, b1}
  GroupOf <- MCGroupOf
  MaxCacheSize = 1
  MaxInflight = 2
  MaxTokens = 2
  MaxUpdates = 1
  Width = 2
  MaxPrompts = 4
  Repeats = {1, 2}
  TrainWidth = 2
  ValWidth = 3
  Divisors = {2, 3, 4, 8}
  Ranks = 2
  MicroBatch = 1
  Key = {1, 2, 3}
  MaxRows = 5
  MaxWorkers = 3
  MaxLength = 5
  RecNum = 2
  Title <- MCTitle
  NormOf <- MCNormOf
  Year = {1, 2, 3}
  Tolerances = {0, 1}
  MaxRecs = 3
  MaxTruths = 2
INVARIANTS
  InFlightBounded
  EveryBeamOnce
  RowsGetTheirOwn
  OneSearchPerGroup
  CacheIsFresh
  CreditFollowsTheItem
  HitsAreAMatching
PROPERTIES
  BatchReturns
CHECK_DEADLOCK FALSE
