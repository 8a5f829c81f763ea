SPECIFICATION PlanSpec
CONSTANTS
    Catalog <- MCCatalog
    States = {1, 2}
    Second = 2
    Year = 4
    MaxNodes = 4
    Expressions <- MCExpressions
    Offers <- MCOffers
INVARIANT DecidedIsForced
CHECK_DEADLOCK FALSE
