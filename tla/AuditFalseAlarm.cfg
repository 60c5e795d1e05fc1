SPECIFICATION ISpec
CONSTANTS
    Writers = {w1}
    NoWriter = NoWriter
    Checkers = {"job"}
    Retentions <- MCRetentions
    Histories <- MCNewInstall
    FirstHash = 10
    MaxHash = 13
    MaxTime = 2
    MaxEdits = 0
INVARIANTS
    NoFalseAlarm
