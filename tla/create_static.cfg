SPECIFICATION Spec
CONSTANTS
    Ids = {i1, i2, i3}
    Names = {n1, n2}
    Requests = {q1, q2}
    Unknown = unknown
    None = None
    MaxCreations = 3
    MaxFailures = 1
CHECK_DEADLOCK FALSE
INVARIANT
    StaticFixedAtCreation
