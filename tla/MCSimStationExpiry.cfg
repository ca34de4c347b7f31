SPECIFICATION Spec
CONSTANTS
  Limits <- MCLimits
  Failsafes <- MCFailsafes
  Baseline = 4
  MaxWrites = 2
  Patient = FALSE
PROPERTY OnlyOwnLimitExpires
CHECK_DEADLOCK FALSE
