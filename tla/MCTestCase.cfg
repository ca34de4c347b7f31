SPECIFICATION FairSpec
CONSTANTS
    Scripts <- MCScripts
    Devices = {dut, simulator}
    Target = dut
    None = none
    Items = 2
INVARIANTS TypeOK VerdictSound FinallyRuns RightDevice
PROPERTIES VerdictStands CaseEnds
CHECK_DEADLOCK FALSE
