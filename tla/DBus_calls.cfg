SPECIFICATION Spec
CONSTANTS
    Names = {"a", "b"}
    Values = {"v", "w"}
    Unknown = "unknown"
    None = "none"
    MaxCalls = 2
    MaxChanges = 1
CHECK_DEADLOCK FALSE
INVARIANTS
    OnceEach
    NamedLoopsRun
    CacheAgrees
PROPERTIES
    ChangesAnnounced
    EveryWaitEnds
