SPECIFICATION Spec
CONSTANTS
    MinCurrent = 2
    MaxCurrent = 3
    Caps = {1, 2}
    Shares = {0, 2}
    Timeout = 1
    MaxWrites = 0
    MaxEvents = 3
INVARIANTS SafeWhenAway
CHECK_DEADLOCK FALSE
