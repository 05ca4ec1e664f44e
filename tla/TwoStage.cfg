CONSTANTS
  Call = {1, 2, 3, 4}
  Group = {"g", "h"}
  GroupOf <- MCGroupOf
  BeamOf <- MCBeamOf
  Width = 2
  MaxCacheSize = 2
  MaxInflight = 2
  MaxTokens = 2
  MaxUpdates = 0
  EngineMayFail = TRUE
  QuietUpdates = TRUE
  None = None
SPECIFICATION Spec
INVARIANTS
  TypeOK
  PermitsConserved
  OneBuildPerGroup
  LockFollowsSearch
  OneOpenSample
