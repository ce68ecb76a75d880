SPECIFICATION AloneSpec
CONSTANTS
    HEADER = 1
    LIMIT = 5
    CAPACITY = 2
    MAXFILES = 1
    GENERATIONS = 4
    ch1 = ch1
    ch2 = ch2
    x = x
    y = y
    a = a
    b = b
    Channels = {ch1, ch2}
    Listers = {}
    Idle = Idle
    Internal = Internal
    Names = {a}
    Bytes = {x}
    Garbage = Garbage
    Chunks <- OneByte
    Faults = FALSE
    Decays = FALSE
    Requests = {"write", "read"}
PROPERTIES RoomIsFound
CHECK_DEADLOCK FALSE
