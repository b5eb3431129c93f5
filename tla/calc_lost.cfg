SPECIFICATION Spec
CONSTANTS
    api = api
    worker = worker
    refresh = refresh
    pass = pass
    cascade = cascade
    None = None
    Customers = {c1, c2}
    Segments = {s1}
    Processes = {api, worker}
    Evaluators = {refresh, pass}
    Host <- MCHost
    Skew <- NoSkew
    MaxEvaluations = 3
    MaxDrifts = 1
    MaxFailures = 0
    MaxCrashes = 1
CHECK_DEADLOCK FALSE
INVARIANT
    AnnouncementsMatchMembership
