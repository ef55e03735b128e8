CONSTANTS
    Names <- MCNames
    Directories <- MCDirectories
    Files <- MCFiles
    Unreadable <- MCUnreadable
    Inits <- MCInits
    InitNames <- MCInitNames
    StaticModules = {"system"}
    gi = "gi"
    overrides = "overrides"
    GLib = "GLib"
    cairo = "a"
    cairoNative = "system"
    IncludePath <- MCIncludePath
    Environment <- MCEnvironment
    Resource <- MCResource
    DataDirs <- MCDataDirs
    DataDir <- MCDataDir
    Namespaces = {"GLib"}
    SearchPaths <- MCSearchPaths
    MaxNamespaces = 2
    MaxDepth = 4
    MaxStack = 12
    MaxUses = 1
SPECIFICATION Spec
CHECK_DEADLOCK FALSE
INVARIANTS
    ReentrySafe
PROPERTIES
    ModulesRight
    EveryImportEnds
