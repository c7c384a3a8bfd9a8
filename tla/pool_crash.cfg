CONSTANTS
    c1 = c1
    c2 = c2
    c3 = c3
    f1 = f1
    f2 = f2
    Clients = {c1, f1}
    Flushers <- OneFlusher
    MaxPages = 2
    Capacity = 2
    MaxPins = 2
    MaxVersion = 1
    WritersPanic = FALSE
    PolicyPanics = FALSE
    Crashes = TRUE
SYMMETRY Symmetry
SPECIFICATION Spec
INVARIANTS IInv FlushAllDurable
PROPERTY FlushedSurvivesCrash
