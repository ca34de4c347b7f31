SPECIFICATION Spec
CONSTANTS
    Sources <- MCSources
    Device <- MCDevice
    Traffic <- MCTraffic
    Capacity = 1
    MaxFrames = 2
    Publishers <- MCPublishers
    Kinds <- MCKinds
    RingSize = 3
    Streams = {}
    Backlog = 1
    MaxEvents = 4
    Hub = "hub"
    Manager = "run"
    EventLimit = 2
    Second = 2
    MaxTime = 5
    TestCases = 2
    Interrupting = {2}
    Room <- MCRoom
INVARIANTS TypeOK CountedOnce
PROPERTIES ConnectionSound
CHECK_DEADLOCK FALSE
