CONSTANTS
    c1 = c1
    c2 = c2
    c3 = c3
    f1 = f1
    f2 = f2
    Clients <- Pinners
    Flushers = {}
    MaxPages = 3
    Capacity = 2
    MaxPins = 2
    MaxVersion = 1
    WritersPanic = TRUE
    PolicyPanics = TRUE
    Crashes = FALSE
SYMMETRY Symmetry
SPECIFICATION Spec
INVARIANTS TypeOK MappingConsistent PinAccounting VictimExclusive ReadsLatest
CHECK_DEADLOCK FALSE
