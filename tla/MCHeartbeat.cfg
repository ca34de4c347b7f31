SPECIFICATION FairSpec
CONSTANTS
    Second = 2
    MaxPeriod = 10
    DefaultTimeout = 8
    Requests <- MCRequests
    MaxSenders = 2
    MaxLoops = 2
    MaxCounter = 3
INVARIANTS TypeOK OneSender
PROPERTIES BeatsFollowCadence DueBeatGoesOut StoppedGoroutinesReturn
