CONSTANTS
  MaxStep = 5
  SaveAt = {1, 2, 3, 4, 5}
  ValidateAt = {2, 3, 4, 5}
  SaveFirst = TRUE
  ValidateAtStart = FALSE
  Value = {1, 2}
  Keep = 2
  MaxCrashes = 2
SPECIFICATION Spec
INVARIANTS
  ResumesFromCheckpoint
  KeptOnDiskUncut
  KeptAreBest
PROPERTIES
  KeptNeverOverwritten
  TornListKeepsAll
