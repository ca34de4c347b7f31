SPECIFICATION FairSpec
CONSTANTS
    Cases <- MCCases
    CleanupCases <- MCCleanup
    Selections <- MCOne
    Folder = FALSE
    MaxRuns = 2
    MaxCrashes = 1
INVARIANTS OneRun
PROPERTIES EveryRunEnds ImplementsLifecycle
CHECK_DEADLOCK FALSE
