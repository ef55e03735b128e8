SPECIFICATION PropertiesSpec
CONSTANTS
    Half <- MCHalf
    FloatMax = 100
    EnumValues <- MCEnumValues
    FlagValues <- MCFlagValues
    Classes <- MCClasses
    Interfaces <- MCInterfaces
    Vfuncs <- MCVfuncs
    Spelled <- MCSpelled
    GProperties <- MCGProperties
    Names <- MCNames
    Used <- MCUsed
    Assigned <- MCAssigned
    JsValues <- MCJsValues
    CValues <- MCCValues
    MaxArguments = 2
CHECK_DEADLOCK FALSE
INVARIANTS
    MethodsResolve
    ReadYourWrites
    ParametersUnset
