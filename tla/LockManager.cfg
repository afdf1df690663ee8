SPECIFICATION FairSpec
CONSTANTS
    MaxTxns = 3
    Resource = {r1, r2}
    Timeout = 1
INVARIANTS
    GrantsCompatible
    TablesAgree
    SearchAgrees
PROPERTY
    EveryCallReturns
