CONSTANTS
    MaxArgs = 3
    Signatures <- AllSignatures
    Callables <- AllCallables
SPECIFICATION MCSpec
CHECK_DEADLOCK FALSE
INVARIANTS
    ArgumentsMatch
    ArgumentsReleased
    CallbackMatches
