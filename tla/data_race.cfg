SPECIFICATION DataSpec
CONSTANTS
    c1 = c1  c2 = c2  ghost = ghost  k1 = k1
    parent = "vip"  other = "active"  ann = ann  bob = bob
    None = None  Null = Null
    Customers = {c1, c2}  CustomerIds = {c1, c2}
    Requests = {r1, r2, r3}
    Keys = {k1}
    Jobs <- AllJobs
    ChunkSize = 2
    MaxFaults = 1
    Segments = {"vip", "active", "vipAndActive"}
    Texts = {ann, bob}
    MaxDepth = 2
    RuleSet <- AllRules
    Databases <- StartDatabases
    Transactions <- SomeTransactions
    MaxChanges = 3
INVARIANT TypeOK
INVARIANT EventsMatchData
INVARIANT OnlyStaleSavesLose
INVARIANT CompiledMeansRule
INVARIANT RefsMatchReads
INVARIANT TimeMovesOneWay
INVARIANT ShiftIsTime
INVARIANT SeedMatchesTable
INVARIANT OnePassSettlesAll
PROPERTY RequestsEnd
\* Every request has ended, the changes are used up.
CHECK_DEADLOCK FALSE
