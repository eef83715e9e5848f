\* Two permanent pages, three pages of window, four owners of three classes.
SPECIFICATION Spec
CONSTANTS
    Base = 1
    Mid = 3
    End = 6
    MaxSize = 2
    MaxBlocks = 4
    Owners <- MCOwners
    ClassOf <- MCClassOf
    Limit <- MCLimit
INVARIANTS
    BlocksDisjoint
    BlocksPlaced
    WindowExclusive
    AccountingExact
    QueriesExact
    FirstFitComplete
PROPERTY
    FirmwareSurvives
