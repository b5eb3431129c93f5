SPECIFICATION Spec
CONSTANTS
    root = root
    middle = middle
    leaf = leaf
    Pass = pass
    None = None
    Customers = {ann, bob}
    Segments = {root, middle, leaf}
    Dynamic = {root, middle}
    Parents <- ChainParents
    CreatedAt <- MCCreatedAt
    Data = {0, 1}
    Memberships = {TRUE, FALSE}
    Matches <- MCMatches
    Handlers = {h1, h2}
    Requests = {r1}
    MaxCascadeDepth = 2
    MaxChanges = 2
    MaxRefreshes = 1
    MaxFailures = 1
    MaxCrashes = 1
\* The changes and refreshes are used up.
CHECK_DEADLOCK FALSE
INVARIANT NoLostDrift
INVARIANT LimitSparesShallowGraphs
PROPERTY StaticOnlyByRefresh
