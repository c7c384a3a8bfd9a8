CONSTANTS
    c1 = c1
    c2 = c2
    c3 = c3
    Clients = {c1, c2, c3}
    Flushers = {}
    MaxPages = 2
    Capacity = 2
    MaxPins = 2
    MaxVersion = 0
    WritersPanic = FALSE
    PolicyPanics = FALSE
    Crashes = FALSE
SYMMETRY Symmetry
SPECIFICATION ClockSpec
INVARIANT NoneOnlyIfNoneFound
