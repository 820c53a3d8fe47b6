SPECIFICATION FairSpec
CONSTANTS
    m1 = m1
    m2 = m2
    Messages = {m1, m2}
    Relays = {r1, r2}
    Created <- CreatedInOrder
    BatchSize = 1
    LockTime = 1
    Delays = {1}
    MaxAttempts = 2
    Retention = 0
    MaxFaults = 1
    MaxAdmin = 1
    Prompt = TRUE
INVARIANT TypeOK
INVARIANT NoRacePublish
INVARIANT AttemptBudget
PROPERTY RowsSettle
