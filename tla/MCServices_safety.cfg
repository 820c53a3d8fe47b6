SPECIFICATION MCSpec
CONSTANTS
    Keys = {k1, k2}
    Prints = {k1, k2}
    Deliveries = {d1, d2, d3}
    StoreTTL = 2
    WebhookTTL = 1
    MaxEntries = 1
    MaxTime = 3
    None = None
    Locks = {k1, k2}
    Handles = {d1, d2, d3}
    TTLs = {1, 2}
    TableSize = 1
    LockMaxTime = 2
    MaxCloses = 1
    NoHolder = NoHolder
    c1 = c1
    c2 = c2
    c3 = c3
    o1 = o1
    o2 = o2
    Calls = {c1, c2, c3}
    Owner <- OwnerOf
    MaxLeases = 3
    NoRow = NoRow
    Jobs = {j1, j2}
    Handlers = {h1, h2}
    Local = {h1}
    Sweepers = {s1}
    MaxAttempts = 1
    MaxCopies = 2
    MaxJobFaults = 1
    MaxStoreErrors = 0
    NoJob = NoJob
    RMessages = {n1, n2}
    RPushers = {w1}
    RPoppers = {q1, q2}
    RBuffer = 2
    SweepBatch = 1
    MaxRAttempt = 2
    MaxResends = 1
    Closable = {q1}
    NoEntry = NoEntry
SYMMETRY ServicesSymmetry
CHECK_DEADLOCK FALSE
INVARIANTS ServicesTypeOK Exclusive OneAtWork ThenIsTrue ExecutionBudget NoOrphan DuplicateWasHandled
PROPERTY RedisKeepsContract
