SPECIFICATION Spec
CONSTANTS
    s1 = s1
    s2 = s2
    Sessions <- MCSessions
    Workers = {w1, w2}
    Names = {n1}
    MaxStatements <- MCStatements
    MaxSplits = 1
    MaxExpires = 1
    MaxFaults = 1
SYMMETRY Symmetry
INVARIANTS
    StatementInItsTxn
    EndedByOne
    SlotsAndTxnsAgree
    StoppedClean
    
