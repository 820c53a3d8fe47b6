SPECIFICATION SchedFairSpec
CONSTANTS
    Replicas = {r1}
    Named = {}
    MaxSlot = 1
    LeaseTTL = 2
    FireTimeout = 2
    MaxSchedules = 1
    MaxDeaths = 1
    MaxTickFaults = 0
    Gone = Gone
    NoSlot = NoSlot
CHECK_DEADLOCK FALSE
PROPERTY SlotServed
