SPECIFICATION Spec
CONSTANTS
    x = x
    y = y
    Disks = {8}
    Places <- OneDisk
    Chunks = {x, y}
    SIZE = 2
    Troubles = FALSE
    Commands = {"concat"}
    Start <- Unlocked
VIEW View
INVARIANTS ConcatCombines
