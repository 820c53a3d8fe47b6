\* One delayed message and one consumer whose Pop times out.
SPECIFICATION Spec
CONSTANTS
    Producers = {p1}
    Consumers = {c1}
    Promoters = {g1}
    Queues = {t1, t2}
    Messages = {m1}
    Delays = {1}
    Visibility = 1
    Buffer = 2
    CompactAt = 0
    MaxTime = 2
    MaxAttempt = 2
    None = None
INVARIANT NothingStranded
CHECK_DEADLOCK FALSE
