SPECIFICATION Spec
CONSTANTS
    MaxTxns = 3
    MaxRows = 2
    MaxPages = 2
    PageCap = 2
    Limits <- MCLimits
    CommitAfterFailedUndo = FALSE
    RepeatAborts = FALSE
INVARIANTS
    ChainsReclaimed
    IndexAgrees
    
PROPERTY
    ImplementsSnapshotIsolation
