SPECIFICATION Spec
CONSTANTS
    A = A
    B = B
    C = C
    D = D
    ann = ann
    bob = bob
    Pass = pass
    None = None
    Customers = {ann}
    Segments = {A, B, C, D}
    Dynamic = {A, B, C, D}
    Parents <- MCParents
    CreatedAt <- MCCreatedAt
    Data = {0, 1}
    Memberships = {{}, {ann}, {bob}, {ann, bob}}
    Matches <- MCMatches
    Handlers = {h1, h2}
    Requests = {}
    MaxCascadeDepth = 10
    MaxChanges = 1
    MaxRefreshes = 0
    MaxFailures = 0
    MaxCrashes = 0
CHECK_DEADLOCK FALSE
INVARIANT
    NoMixedSnapshot
