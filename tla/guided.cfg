SPECIFICATION FormSpec
CONSTANTS
    Nodes <- MCNodes
    Spec <- MCSpec
    Root = "config"
    NoNode = "none"
    AppSchemas <- MCAppSchemas
    Common = "common"
    Paths <- MCPaths
    Stored <- MCStored
    Inputs <- MCInputs
    None = None
    MaxNest = 3
    DiffDepth = 2
    CheckDepth = 2
    MaxTouched = 2
    MaxForeign = 2
INVARIANTS TypeOK NoFalseAlarm NothingOverlooked DiffExact
PROPERTIES FrameKept RequiredKept UntouchedKept CoercedFits
