SPECIFICATION FairSpec
CONSTANTS
    Base = 18
    Programs <- MCPrograms
    LargeText = 20
    BytesPerNop = 10
    MinNopCount = 2
    ReachMin = 12
    ReachMax = 9
    Int32Max = 900
    PageSize = 8
    TrampolineModes = {TRUE, FALSE}
    TrampolineTable = 500
    TrampolineTableSize = 42
    WrapperSpace = 900
    TmplSize = 40
INVARIANTS PatcherInv PatchesDisjoint JumpDestinationsIntact ReturnsIntact NopsAssignedOnce EverySyscallPatched PlanCanBeActivated FaultOnlyAtPageStart
PROPERTIES WrittenOnce PatchingEnds
CHECK_DEADLOCK FALSE
