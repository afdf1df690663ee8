SPECIFICATION Spec
CONSTANTS
    Base = 4
    IntWidth = 1
    BigWidth = 2
    Schemas <- MCSchemas
    Values <- MCValues
    Rows <- MCRows
    Wheres <- MCWheres
    Pages <- MCPages
    MaxIndexes = 1
INVARIANTS
    SelectAgrees
    DescribedBinds
    IndexFaithful
    ExplainAgrees
