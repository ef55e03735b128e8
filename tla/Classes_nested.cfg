SPECIFICATION MCSpec
CONSTANTS
    Types = {"Object", "Widget", "Local"}
    Parent <- MCParent
    NoType = "none"
    Namespaces = {"base", "toolkit"}
    Home <- MCHome
    Private = "private"
    Touches <- MCTouches
    MaxUses = 2
    MaxDepth = 12
    Enumerations <- MCEnumerations
    Fixed <- MCFixed
    Statics <- MCStatics
    PARAM = "Param"
    Pspecs = {"pspec"}
    Ids = {1, 2, 3, 4}
CHECK_DEADLOCK FALSE
INVARIANTS
    ClassesSound
    WrappersSound
PROPERTIES
    ClassStays
    EveryLookupEnds
