SPECIFICATION FairSpec
CONSTANTS
    Absent = Absent
    Revisions = 2
    MaxSalts = 6
    MaxEvents = 4
INVARIANTS
    NeverWithoutItsSalt
    KeysStay
PROPERTIES
    GetsUp
