SPECIFICATION FairSpec
\* The model stops once every request has been used.
CHECK_DEADLOCK FALSE
CONSTANTS
    Keys = {k1, k2}
    Requests = {v1, v2, d1}
    Downloads = {d1}
    MaxBytes = 1
INVARIANTS
    RefsCountHolders
    ForgottenFilesLostTheirEntry
PROPERTIES
    OnlyStrayReleasesRob
    LeaksAreSwept
