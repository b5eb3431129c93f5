SPECIFICATION FairSpec
CONSTANTS
    root = root
    middle = middle
    leaf = leaf
    Pass = pass
    None = None
    Customers = {ann}
    Segments = {root, middle}
    Dynamic = {root, middle}
    Parents <- ChainParents
    CreatedAt <- MCCreatedAt
    Data = {0, 1}
    Memberships = {TRUE, FALSE}
    Matches <- MCMatches
    Handlers = {h1}
    Requests = {r1}
    MaxCascadeDepth = 1
    MaxChanges = 2
    MaxRefreshes = 1
    MaxFailures = 0
    MaxCrashes = 1
\* The changes and refreshes are used up.
CHECK_DEADLOCK FALSE
PROPERTY EventuallyUpToDate
PROPERTY EventuallyQuiet
