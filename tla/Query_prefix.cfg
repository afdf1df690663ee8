SPECIFICATION Spec
CONSTANTS
    Base = 4
    IntWidth = 1
    BigWidth = 2
    Schemas <- MCPrefixSchemas
    Values <- MCPrefixValues
    Rows <- MCRows
    Wheres <- MCWheres
    Pages <- MCPages
    MaxIndexes = 1
INVARIANTS
    SelectAgrees
