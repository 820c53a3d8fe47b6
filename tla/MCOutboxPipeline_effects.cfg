SPECIFICATION PipelineSpec
CONSTANTS
    m1 = m1
    m2 = m2
    Messages = {m1}
    Events = {m1}
    Relays = {r1, r2}
    Consumers = {c1, c2}
    Created <- CreatedInOrder
    BatchSize = 1
    LockTime = 0
    Delays = {0}
    MaxAttempts = 2
    Retention = 0
    MaxFaults = 1
    MaxAdmin = 1
    MaxRollbacks = 1
    Prompt = FALSE
INVARIANTS NoSilentLoss ExactlyOnce
PROPERTIES SettledStays RecordedTakesEffect
