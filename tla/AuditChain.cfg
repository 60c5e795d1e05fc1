SPECIFICATION Spec
CONSTANTS
    Writers = {w1, w2}
    NoWriter = NoWriter
    Retentions <- MCRetentions
    Histories <- MCHistories
    FirstHash = 10
    MaxHash = 14
    MaxTime = 2
SYMMETRY MCSymmetry
INVARIANTS
    ChainUnforked
PROPERTIES
    SweepSparesYoungRows
    OnlyPrefixesLeave
