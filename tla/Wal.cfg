SPECIFICATION Spec
SYMMETRY Symmetry
CONSTANTS
    Txns = {t1, t2}
    Lengths = {1, 2}
    SegmentSize = 2
    MaxLsn = 6
    MaxCrashes = 2
    Faults = {}
INVARIANTS
    ReadsAgree
    ChainsUnbroken
    NeverRefused
PROPERTIES
    ImplementsDurableLog
