SPECIFICATION StoreSpec
CONSTANTS
    HEADER = 1
    LIMIT = 5
    CAPACITY = 1
    MAXFILES = 2
    GENERATIONS = 4
    ch1 = ch1
    ch2 = ch2
    x = x
    y = y
    a = a
    b = b
    Channels = {ch1}
    Listers = {}
    Idle = Idle
    Internal = Internal
    Names = {a, b}
    Bytes = {x}
    Garbage = Garbage
    Chunks <- OneByte
    Faults = FALSE
    Decays = FALSE
    Requests = {"write", "scratch", "rename"}
SYMMETRY Symmetry
VIEW View
INVARIANTS Durability
CHECK_DEADLOCK FALSE
