SPECIFICATION LangSpec
CONSTANTS
    Methods = {"f", "g"}
    Interfaces = {"I", "J"}
    Requires <- MCRequires
    Member <- MCMember
    Definitions <- MCDefinitions
    MaxClasses = 3
    MaxFrames = 3
CHECK_DEADLOCK FALSE
INVARIANTS
    InterfacesImplemented
    CallerIsRunning
    ParentGoesUp
