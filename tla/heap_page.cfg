CONSTANTS
    PAGE_SIZE = 14
    HEADER_SIZE = 4
    Owners = {0, 1}
    Tuples <- Sizes
SPECIFICATION Spec
INVARIANT SpaceExact
PROPERTY PageImplements
