SPECIFICATION Spec
CONSTANTS
    Cases <- MCCases
    CleanupCases <- MCCleanup
    Selections <- MCAll
    Folder = TRUE
    MaxRuns = 1
    MaxCrashes = 1
INVARIANTS TypeOK StatusSound RestIsNotRun CleanupRuns LatestKept
PROPERTIES ReportStable
CHECK_DEADLOCK FALSE
