SPECIFICATION Spec
CONSTANTS
    Size <- MCSize
    Entries <- MCEntries
    Queries <- MCQueries
    Capacity = 6
    MaxPages = 8
    MaxEvents = 1
    UndoOverlaps = FALSE
INVARIANTS
    TreeWellFormed
    ReadsComplete
PROPERTIES
    EveryReadReturns
