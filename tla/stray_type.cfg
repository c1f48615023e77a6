SPECIFICATION FormSpec
CONSTANTS
    Nodes <- MCNodes
    Spec <- MCSpec
    Root = "config"
    NoNode = "none"
    AppSchemas <- MCAppSchemas
    Common = "common"
    Paths <- MCLogPaths
    Stored <- MCLogStored
    Inputs <- MCInputs
    None = None
    MaxNest = 3
    DiffDepth = 2
    CheckDepth = 2
    MaxTouched = 2
    MaxForeign = 2
INVARIANT CertainIsMistake
