SPECIFICATION OrgSpec
\* The bound on the requests lets the model stop.
CHECK_DEADLOCK FALSE
CONSTANTS
    MaxCustomers = 2
    MaxFolders = 3
    MaxSources = 1
    MaxGrants = 2
    MaxRequests = 5
    StartCustomers = 1
VIEW MCView
INVARIANTS
    OnlyGrantedPathsShown
PROPERTIES
    ConsistencyKept
    NewScopesStartUngranted
