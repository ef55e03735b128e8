CONSTANTS
    Names = {bar, bonk}
    MaxId = 3
    MaxDepth = 2
SPECIFICATION Spec
INVARIANTS
    FlagMatchesArray
PROPERTIES
    CallsOnlyConnected
    EmissionComplete
