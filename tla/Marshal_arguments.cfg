SPECIFICATION MCSpec
CONSTANTS
    Half <- MCHalf
    FloatMax = 100
    EnumValues <- MCEnumValues
    FlagValues <- MCFlagValues
    Arguments <- MCArguments
    Inputs <- MCInputs
    Outputs <- MCOutputs
    ElementToC <- MCToC
    ElementFromC <- MCFromC
    ElementRelease <- MCRelease
    ElementBelongings <- MCBelongings
    ElementCarries <- MCCarries
    Types <- MCTypes
    Signatures <- MCSignatures
    Packed <- MCPacked
CHECK_DEADLOCK FALSE
INVARIANTS
    NothingReleasedTwice
    NothingKept
    RoundTrip
    IntegersExact
    VariantRoundTrip
