CONSTANTS
    f1 = f1
    f2 = f2
    p1 = p1
    p2 = p2
    b1 = b1
    b2 = b2
    b3 = b3
    NoFrame = NoFrame
    Frames = {f1, f2}
    Pages = {p1, p2}
    Backends = {b1, b2, b3}
SPECIFICATION FairSpec
INVARIANTS TypeOK MappingBijection PinAccounting Ownership WriterExclusive
PROPERTIES IoOwnsFrame DirtyWrittenBack WaitersServed
