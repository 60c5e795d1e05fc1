SPECIFICATION FairSpec
\* The model stops once every connection and command has been used.
CHECK_DEADLOCK FALSE
CONSTANTS
    Conns = {c1, c2}
    NoConn = NoConn
    Requests = {f1}
    Fetches = {f1}
    Slots = 1
    Limit = 2
    MaxChunks = 2
    MaxFaults = 1
INVARIANTS
    WaitsOnlyOnTheRegistered
    WholeFileOrNone
PROPERTIES
    OnlyOwnUnregistered
    KeepsPromise
    DroppedCommandsReturn
