SPECIFICATION Spec
CONSTANTS
    x = x
    y = y
    Disks = {8}
    Places <- TwoDirectories
    Chunks = {x}
    SIZE = 1
    Troubles = TRUE
    Commands = {"move", "rename", "concat", "delete", "all", "redirect"}
    Start <- OrLocked
VIEW View
INVARIANTS MoveKeepsContents CartridgeKeepsOld SuccessIsReal CacheIsFresh
