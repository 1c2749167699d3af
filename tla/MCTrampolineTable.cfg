SPECIFICATION Spec
CONSTANTS
    MaxMappings = 3
    LastPage = 12
    Spaces <- MCSpaces
    MinAddress = 4
    Int32Max = 25
    PageSize = 4
    Size = 8
    EnvModes <- MCEnv
INVARIANTS TableReplacesNothing TableReachable GivesUpOnlyIfFull
CHECK_DEADLOCK FALSE
