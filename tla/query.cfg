CONSTANTS
    Tables <- TheTables
    Unreadable <- NoNames
    Schemas <- TheSchemas
    Contents <- TheContents
    MAX_DEPTH = 5
    I32_MAX = 4
    I64_MAX = 7
    U32_MAX = 9
    U64_MAX = 9
    Cases <- AllCases
    RuleLists <- AllRules
    MaxPasses = 2
SPECIFICATION MCSpec
INVARIANTS PlanFaithful BoundPlans BoundaryHolds
CHECK_DEADLOCK FALSE
