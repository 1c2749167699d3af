SPECIFICATION MCSpec
CONSTANTS
    t1 = t1
    t2 = t2
    SIZE = 2
    FsMallocMax = 3
    MaxLen = 4
    MaxCount = 3
    IntWidth = 3
    EINVAL = 22
    HookThreads <- MCThreads
    SyncallSeqNo <- MCSeqNos
    MaxOps = 2
    EPERM = 1
    FsErrors = {1, 2}
    EBADF = 9
    FdThreads <- MCThreads
    FsFds = {1, 2, 3}
    FSP_FD_START_VAL = 1
    Files = {"f"}
    Dirs = {"d"}
    Entries = 2
    DirentSize = 2
    DirentCounts = {0, 1, 2, 4}
    kMaxNumFds = 2
    AioThreads <- MCThreads
    FsBuffers = {1, 2}
    MaxIocbs = 2
    MaxProcs = 2
    MaxPassed = 3
    ForkThreads <- MCThreads
    fork_counter_max = 2
    LieAfter = 1
    LiePid = 16
    CopySize = 2
    IcapTexts <- MCTexts
    MaxText = 6
    PlayNames = {"a", "b"}
    PlayFds = {0, 1, 2}
    PlayMaxNumFds = 2
SYMMETRY Symmetry
CONSTRAINT UntilRace
INVARIANTS TransfersExact SeekKeepsData SyncallOnce  ServerLeftOnce TableExact AssertionsHold ForksCounted IcapDelivers PlayExact
CHECK_DEADLOCK FALSE
