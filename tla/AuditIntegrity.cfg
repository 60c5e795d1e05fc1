SPECIFICATION ISpec
CONSTANTS
    Writers = {w1}
    NoWriter = NoWriter
    Checkers = {"manual"}
    Retentions <- MCRetentions
    Histories <- MCHistories
    FirstHash = 10
    MaxHash = 12
    MaxTime = 3
    MaxEdits = 1
INVARIANTS
    UntouchedLogVerifies
    EditsAreReported
    OnlyForksAreRecorded
VIEW MCView
