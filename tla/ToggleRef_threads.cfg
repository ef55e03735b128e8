CONSTANTS
    Objects = {o1}
    Threads = {main, w1, w2}
    Main = main
    Shareable = {o1}
    Pinned = {}
    MaxHeld = 1
    MaxQueue = 4
SPECIFICATION Spec
SYMMETRY OtherThreads
CONSTRAINT QueueBound
CHECK_DEADLOCK FALSE
INVARIANTS
    ReferencesSound
    PendingCount
    KeepAliveInSync
    QdataSourceAlive
