SPECIFICATION Spec
CONSTANTS
    x = x
    y = y
    Disks = {8}
    Places <- OneDisk
    Chunks = {x}
    SIZE = 1
    Troubles = FALSE
    Commands = {"move"}
    Start <- OrLocked
VIEW View
INVARIANTS MoveDeletesSource
