SPECIFICATION Spec
CONSTANTS
    m1 = m1
    m2 = m2
    Messages = {m1}
    Relays = {r1, r2}
    Created <- CreatedInOrder
    BatchSize = 1
    LockTime = 1
    Delays = {0}
    MaxAttempts = 2
    Retention = 0
    MaxFaults = 0
    MaxAdmin = 0
    Prompt = FALSE
SYMMETRY RelaySymmetry
INVARIANT NoDoublePublish
