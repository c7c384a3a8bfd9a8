CONSTANTS
    PAGE_SIZE = 8
    HEADER_SIZE = 2
    MaxPages = 3
    Tuples <- Sizes
    Budgets <- SomeBudgets
    Unused = Unused
    Dead = Dead
    NoScan = NoScan
SPECIFICATION Spec
INVARIANTS ChainIntact ScanExact FlushedReopens
PROPERTY MapRefined
CHECK_DEADLOCK FALSE
