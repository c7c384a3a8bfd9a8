CONSTANTS
    PAGE_SIZE = 28
    HEADER_SIZE = 2
    U32_MAX = 3
    MaxPages = 5
    Budgets <- AllBudgets
    Declarations <- AllDeclarations
    Records <- DamagedRecords
SPECIFICATION Spec
INVARIANTS CacheExact RootsDistinct OpenCanonical CatalogReopens
CHECK_DEADLOCK FALSE
