SPECIFICATION Spec
CONSTANTS
    Threads = {t1, t2}
    Frames = {f1, f2}
    NumPages = 3
    Allocated = {1, 2}
    Cached = {1, 2}
    MaxLsn = 3
    DwbCapacity = 2
    MaxHeld = 2
    MaxOps = 4
    MaxFaults = 1
    MaxCrashes = 2
    StaleFlush = FALSE
SYMMETRY Symmetry
INVARIANTS
    FrameAccounting
    GuardKeepsItsPage
    NoLostWrite
    
    RecoveredWhole
    SomeThreadCanRun
