SPECIFICATION AioSpec
CONSTANTS
    AioThreads = {1, 2}
    FsBuffers = {1, 2, 3}
    MaxIocbs = 2
INVARIANT AioBuffersFreed
CHECK_DEADLOCK FALSE
