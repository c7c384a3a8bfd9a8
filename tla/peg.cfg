CONSTANTS
    Atoms <- SomeAtoms
    Names <- SomeNames
    MAX_NESTING = 4
    Cases <- AllCases
SPECIFICATION Spec
INVARIANTS TextFaithful ParserProgresses ResultExact TreeWellFormed
CHECK_DEADLOCK FALSE
