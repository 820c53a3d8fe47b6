SPECIFICATION FairSpec
CONSTANTS
    Producers = {p1}
    Consumers = {c1, c2}
    Promoters = {g1}
    Queues = {t1}
    Messages = {m1}
    Delays = {0}
    Visibility = 1
    Buffer = 1
    CompactAt = 0
    MaxTime = 2
    MaxAttempt = 2
    None = None
INVARIANTS FreshDelivery LeaseIndexed
PROPERTIES LeaseFence LeaseEnds
CHECK_DEADLOCK FALSE
