SPECIFICATION Spec
CONSTANTS
    MaxHeaders = 2
    Processes <- MCProcesses
    SpaceBases = {16}
    SpaceSize = 32
    PageSize = 8
    TmplSize = 4
    Slack = 2
    PathsSize = 8
    LineSize = 3
    MaxObjects = 2
    Big = TRUE
CHECK_DEADLOCK FALSE
INVARIANTS WrappersInSpace
