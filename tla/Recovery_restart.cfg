SPECIFICATION FairSpec
CONSTANTS
    MaxTxns = 2
    Pages = 1
    Slots = 1
    MaxUpdates = 2
    MaxCkpts = 0
    MaxCrashes = 2
    CkptDuringWrite = FALSE
INVARIANTS
    CommittedState
    WriteAheadRule
    CompensatedOnce
PROPERTY
    RecoveryCompletes
