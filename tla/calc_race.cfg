SPECIFICATION FairSpec
CONSTANTS
    api = api
    worker = worker
    refresh = refresh
    pass = pass
    cascade = cascade
    None = None
    Customers = {c1, c2}
    Segments = {s1}
    Processes = {api, worker}
    Evaluators = {refresh, pass, cascade}
    Host <- MCHost
    Skew <- NoSkew
    MaxEvaluations = 4
    MaxDrifts = 2
    MaxFailures = 1
    MaxCrashes = 1
\* The calls, drifts and failures are used up.
CHECK_DEADLOCK FALSE
INVARIANT AuditTrailMatchesMembership
INVARIANT SnapshotsAreChanges
INVARIANT AnnouncementsBalanceOut
PROPERTY ChangesAreReportedOnce
PROPERTY CallsEnd
PROPERTY ImplementsLedger
