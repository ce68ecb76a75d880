SPECIFICATION StoreSpec
CONSTANTS
    HEADER = 1
    LIMIT = 4
    CAPACITY = 1
    MAXFILES = 1
    GENERATIONS = 4
    ch1 = ch1
    ch2 = ch2
    x = x
    y = y
    a = a
    b = b
    Channels = {ch1, ch2}
    Listers = {ch2}
    Idle = Idle
    Internal = Internal
    Names = {a, b}
    Bytes = {x}
    Garbage = Garbage
    Chunks <- OneByte
    Faults = TRUE
    Decays = FALSE
    Requests = {"write", "append", "scratch", "rename", "attribute", "concat", "compact"}
SYMMETRY Symmetry
VIEW View
INVARIANTS Invariant WriterOwnsChannel IndexIsDurable
PROPERTIES ImplementsStore
CHECK_DEADLOCK FALSE
