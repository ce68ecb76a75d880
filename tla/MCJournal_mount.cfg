SPECIFICATION AloneSpec
CONSTANTS
    HEADER = 1
    LIMIT = 4
    CAPACITY = 1
    MAXFILES = 1
    GENERATIONS = 4
    ch1 = ch1
    ch2 = ch2
    x = x
    y = y
    a = a
    b = b
    Channels = {ch1}
    Listers = {}
    Idle = Idle
    Internal = Internal
    Names = {a}
    Bytes = {x}
    Garbage = Garbage
    Chunks <- OneByte
    Faults = TRUE
    Decays = TRUE
    Requests = {"write", "scratch"}
INVARIANTS ActiveIsNewest
PROPERTIES MountsWhatItCan RequestsEnd
CHECK_DEADLOCK FALSE
