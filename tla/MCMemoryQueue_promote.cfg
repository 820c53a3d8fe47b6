SPECIFICATION Spec
CONSTANTS
    Producers = {p1}
    Consumers = {c1}
    Promoters = {g1, g2}
    Queues = {t1, t2}
    Messages = {m1, m2}
    Delays = {0, 1}
    Visibility = 1
    Buffer = 1
    CompactAt = 0
    MaxTime = 2
    MaxAttempt = 2
    None = None
SYMMETRY Symmetry
INVARIANTS TypeOK SingleCopy NeverEarly CloseIsAnswered
PROPERTY KeepsContract
CHECK_DEADLOCK FALSE
