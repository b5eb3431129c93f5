SPECIFICATION Spec
CONSTANTS
    Customers = {c1, c2}
    Segments = {a, b}
    None = None
    MaxLog = 2
    MaxEvaluations = 2
    MaxRefreshes = 1
    MaxNavigations = 1
    MaxFailures = 0
INVARIANT SwitchingIsHarmless
\* The bounds are used up and the page is at rest.
CHECK_DEADLOCK FALSE
