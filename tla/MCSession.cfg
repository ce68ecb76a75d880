SPECIFICATION UsedSpec
CONSTANTS
    PER = 2
    SIZE = 1
    GENERATIONS = 10
    Fresh = Fresh
    Changed = Changed
    Values <- MCValues
    Faults = TRUE
VIEW View
INVARIANTS NewestKept ResumesDeparture ReportsAreReal FailuresExplained
