SPECIFICATION Spec
CONSTANTS
    m = m
    a = a
    Threads = {m, a}
    Main = m
    Syscalls <- AllSyscalls
    HookModes = {TRUE}
    MaxCalls = 2
    MaxSignals = 1
INVARIANTS FramesIntact CallsTransparent
CHECK_DEADLOCK FALSE
