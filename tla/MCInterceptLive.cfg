SPECIFICATION FairSpec
CONSTANTS
    m = m
    a = a
    Threads = {m, a}
    Main = m
    Syscalls <- AllSyscalls
    HookModes = {TRUE, FALSE}
    MaxCalls = 1
    MaxSignals = 1
PROPERTIES EveryCallReturns
CHECK_DEADLOCK FALSE
