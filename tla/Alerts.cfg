SPECIFICATION AlertsSpec
CONSTANTS
    Files = {1, 2}
    MaxAlerts = 2
    MaxLines = 2
    MaxHits = 1
    MaxSent = 1
    MaxEvents = 2
INVARIANTS
    EveryMatchAccounted
PROPERTIES
    NoRepeats
