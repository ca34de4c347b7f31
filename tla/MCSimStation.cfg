SPECIFICATION FairSpec
CONSTANTS
  Limits <- MCLimits
  Failsafes <- MCFailsafes
  Baseline = 4
  MaxWrites = 2
  Patient = TRUE
INVARIANTS TypeOK OnlyApprovedCounts
PROPERTIES EveryWriteDecided TimedLimitEnds
CHECK_DEADLOCK FALSE
