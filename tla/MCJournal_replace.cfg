SPECIFICATION StoreSpec
CONSTANTS
    HEADER = 1
    LIMIT = 5
    CAPACITY = 2
    MAXFILES = 1
    GENERATIONS = 4
    ch1 = ch1
    ch2 = ch2
    x = x
    y = y
    a = a
    b = b
    Channels = {ch1, ch2}
    Listers = {}
    Idle = Idle
    Internal = Internal
    Names = {a}
    Bytes = {x, y}
    Garbage = Garbage
    Chunks <- TwoBytes
    Faults = FALSE
    Decays = FALSE
    Requests = {"write", "append", "read"}
SYMMETRY Symmetry
VIEW View
INVARIANTS RebuiltSideIsFree SpaceSuffices
PROPERTIES ImplementsStore ProgrammedOnce
CHECK_DEADLOCK FALSE
