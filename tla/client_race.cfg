SPECIFICATION ClientSpec
CONSTANTS
    Customers = {c1, c2}
    Segments = {a, b}
    Seeded = {a}
    None = None
    MaxLog = 2
    MaxItems = 2
    MaxEvaluations = 2
    MaxRefreshes = 2
    MaxNavigations = 2
    MaxFailures = 1
    MaxDeltas = 2
    MaxCommands = 3
    MaxVisits = 4
    MaxOthers = 1
INVARIANT TypesOK
INVARIANT SettledListIsRight
INVARIANT TickerIsNamed
INVARIANT CardsKeepTheirDelta
INVARIANT DirectoryIsComplete
INVARIANT OwnPatchesAreRemembered
PROPERTY SuccessFreesForms
\* The bounds are used up and everything is at rest.
CHECK_DEADLOCK FALSE
