CONSTANTS
    Objects = {o1, o2}
    Threads = {main}
    Main = main
    Shareable = {}
    Pinned = {o1, o2}
    MaxHeld = 2
    MaxQueue = 8
SPECIFICATION Spec
INVARIANTS
    TogglesAsDocumented
PROPERTIES
    ImplementsMirror
