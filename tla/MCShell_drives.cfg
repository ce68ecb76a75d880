SPECIFICATION Spec
CONSTANTS
    x = x
    y = y
    Disks = {8, 9, 10}
    Places <- ThreeDrives
    Chunks = {x}
    SIZE = 1
    Troubles = TRUE
    Commands = {"copy", "move", "redirect"}
    Start <- OrLocked
VIEW View
INVARIANTS CopiesStayOpen
