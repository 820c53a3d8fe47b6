SPECIFICATION MCSpec
CONSTANTS
    Engines = {e1, e2}
    N = 4
    Pivots = {2}
    Compensable = {0, 1, 3}
    Overlap = FALSE
    MaxCrashes = 2
    MaxDBErrors = 1
    MaxStepErrors = 2
    NoRun = NoRun
    DbMessages = {m1, m2}
    Pushers = {p1}
    Poppers = {q1, q2}
    DbBuffer = 2
    ReclaimBatch = 1
    MaxDelivery = 3
    NoMsg = NoMsg
    Jobs = {j1}
    Handlers = {h1, h2}
    Local = {h1}
    Sweepers = {s1}
    MaxAttempts = 2
    MaxCopies = 3
    MaxJobFaults = 1
    MaxStoreErrors = 1
    NoJob = NoJob
    Replicas = {r1, r2}
    Named = {r1, r2}
    MaxSlot = 1
    LeaseTTL = 2
    FireTimeout = 2
    MaxSchedules = 2
    MaxDeaths = 1
    MaxTickFaults = 1
    Gone = Gone
    NoSlot = NoSlot
CHECK_DEADLOCK FALSE
INVARIANTS BackgroundTypeOK SagaOutcome OwnResult OneHolder JobNotLost  FiresUnderLease
PROPERTIES NeverReexecuted ReverseOrder SagaEnds DbKeepsContract  BatchResolved JobEnds SlotServed
