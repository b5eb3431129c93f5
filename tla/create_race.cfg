SPECIFICATION FairSpec
CONSTANTS
    Ids = {i1, i2, i3}
    Names = {n1, n2, n3}
    Requests = {q1, q2}
    Unknown = unknown
    None = None
    MaxCreations = 3
    MaxFailures = 1
\* The requests are used up.
CHECK_DEADLOCK FALSE
INVARIANT ParentsAreOlder
INVARIANT DependenciesMatchRules
INVARIANT NamesAreUnique
PROPERTY CreationsEnd
