SPECIFICATION Spec
CONSTANTS
    MaxTxns = 1
    Pages = 1
    Slots = 1
    MaxUpdates = 1
    MaxCkpts = 2
    MaxCrashes = 2
    CkptDuringWrite = FALSE
INVARIANTS
    CommittedState
    TruncationSafe
