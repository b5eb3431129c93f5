SPECIFICATION DataSpec
CONSTANTS
    c1 = c1  c2 = c2  ghost = ghost  k1 = k1
    parent = "vip"  other = "active"  ann = ann  bob = bob
    None = None  Null = Null
    Customers = {c1, c2}  CustomerIds = {c1, c2}
    Requests = {r1, r2}
    Keys = {k1}
    Jobs <- TransactionJobs
    Segments = {"vip", "active", "vipAndActive"}
    Texts = {ann, bob}
    MaxDepth = 2
    RuleSet <- AllRules
    Databases <- StartDatabases
    Transactions <- SomeTransactions
    MaxChanges = 0
    ChunkSize = 1
    MaxFaults = 0
INVARIANT CountedRows
\* Every request has ended.
CHECK_DEADLOCK FALSE
