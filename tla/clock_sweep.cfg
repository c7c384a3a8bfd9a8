CONSTANTS
    c1 = c1
    c2 = c2
    c3 = c3
    Clients = {c1, c2, c3}
    Flushers = {}
    MaxPages = 3
    Capacity = 2
    MaxPins = 2
    MaxVersion = 0
    WritersPanic = FALSE
    PolicyPanics = FALSE
    Crashes = TRUE
SPECIFICATION ClockFairSpec
INVARIANTS ClockTypeOK SweepFindsOpenFrame
PROPERTIES SecondChanceFirst SweepEnds
