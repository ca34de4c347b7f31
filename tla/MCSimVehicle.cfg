SPECIFICATION Spec
CONSTANTS
    MinCurrent = 2
    MaxCurrent = 3
    Caps = {1}
    Shares = {0, 2}
    Timeout = 1
    MaxWrites = 2
    MaxEvents = 2
INVARIANTS TypeOK SafeWhenSilent
PROPERTIES CurtailmentReaches
CHECK_DEADLOCK FALSE
