SPECIFICATION Spec
CONSTANTS
    MaxTxns = 1
    Pages = 1
    Slots = 1
    MaxUpdates = 1
    MaxCkpts = 1
    MaxCrashes = 1
    CkptDuringWrite = TRUE
INVARIANTS
    CommittedState
