CONSTANTS
    c1 = c1
    c2 = c2
    c3 = c3
    f1 = f1
    f2 = f2
    Clients <- TwoFlushers
    Flushers <- TwoFlushers
    MaxPages = 2
    Capacity = 1
    MaxPins = 2
    MaxVersion = 2
    WritersPanic = TRUE
    PolicyPanics = TRUE
    Crashes = FALSE
SYMMETRY Symmetry
SPECIFICATION Spec
INVARIANT Coherent
PROPERTY NoStaleWriteback
CHECK_DEADLOCK FALSE
