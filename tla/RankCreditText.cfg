SPECIFICATION Spec
CONSTANTS
  MaxLength = 5
  RecNum = 2
INVARIANT CreditOnItsLine
CHECK_DEADLOCK FALSE
