CONSTANTS
  Call = {1, 2, 4}
  Group = {"g", "h"}
  GroupOf <- MCGroupOf
  BeamOf <- MCBeamOf
  Width = 2
  MaxCacheSize = 1
  MaxInflight = 2
  MaxTokens = 2
  MaxUpdates = 1
  EngineMayFail = TRUE
  QuietUpdates = TRUE
  None = None
SPECIFICATION Spec
INVARIANTS
  RemainingMatchesUses
  CacheBounded
  CacheIsFresh
  NoForgottenBuild
PROPERTIES
  KeepsPromise
