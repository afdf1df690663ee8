SPECIFICATION Spec
CONSTANTS
    Txns = {t1, t2, t3}
    TableNames = {n1, n2}
    IndexNames = {i1}
    PageSlots = 1
    MaxStatements = 3
    MaxPages = 4
    MaxRoots = 3
    MaxRows = 2
    Races = {}
INVARIANTS
    
    CatalogAgrees
    
PROPERTIES
    EveryStatementEnds
