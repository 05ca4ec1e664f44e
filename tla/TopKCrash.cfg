CONSTANTS
  MaxStep = 5
  SaveAt = {1, 2, 3, 4, 5}
  ValidateAt = {2, 3, 4, 5}
  SaveFirst = TRUE
  ValidateAtStart = FALSE
  Value = {1, 2, 3}
  Keep = 2
  MaxCrashes = 1
SPECIFICATION Spec
INVARIANT KeptOnDisk
