CONSTANTS
  Call = {1, 2, 4}
  Group = {"g", "h"}
  GroupOf <- MCGroupOf
  BeamOf <- MCBeamOf
  Width = 2
  MaxCacheSize = 2
  MaxInflight = 1
  MaxTokens = 1
  MaxUpdates = 1
  EngineMayFail = TRUE
  QuietUpdates = TRUE
  None = None
SPECIFICATION FairSpec
PROPERTIES
  EveryCallAnswered
  UpdateEnds
