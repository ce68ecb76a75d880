SPECIFICATION Spec
CONSTANTS
    x = x
    y = y
    Disks = {8, 9, 10}
    Places <- ThreeDrives
    Chunks = {x, y}
    SIZE = 1
    Troubles = FALSE
    Commands = {"redirect"}
    Start <- Unlocked
VIEW View
INVARIANTS LiveFilesStayOpen
