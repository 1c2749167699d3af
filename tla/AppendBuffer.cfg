SPECIFICATION Spec
CONSTANTS
    Threads = {1, 2, 3}
    BufferSize = 5
    Reserve = 2
    Lengths = {1, 2}
INVARIANTS LinesContiguous
PROPERTIES FullBufferStays
CHECK_DEADLOCK FALSE
