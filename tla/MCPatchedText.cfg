SPECIFICATION ExecSpec
CONSTANTS
    Base = 18
    Programs <- MCExecPrograms
    LargeText = 20
    BytesPerNop = 10
    MinNopCount = 2
    ReachMin = 12
    ReachMax = 9
    Int32Max = 1000
    PageSize = 8
    TrampolineModes = {TRUE}
    TrampolineTable = 500
    TrampolineTableSize = 42
    WrapperSpace = 900
    TmplSize = 40
PROPERTIES ImplementsInterceptedText
CHECK_DEADLOCK FALSE
