SPECIFICATION Spec
CONSTANTS
    Sources <- MCSources
    Traffic <- MCTraffic
    Capacity = 2
    MaxFrames = 3
    Tracers = {t1}
    Peers = {u1}
    ReplayDepth = 2
    QueueDepth = 1
    Publishers <- MCSources
    Kinds <- MCKinds
    RingSize = 2
    Streams = {s1}
    Backlog = 1
    MaxEvents = 2
INVARIANTS TypeOK SeamlessReplay SourceOrder StreamGapless
PROPERTIES CloseEnds
CHECK_DEADLOCK FALSE
