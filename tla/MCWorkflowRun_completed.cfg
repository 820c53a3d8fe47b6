SPECIFICATION WfSpec
CONSTANTS
    c1 = c1
    c2 = c2
    c3 = c3
    o1 = o1
    o2 = o2
    Calls = {c1, c2}
    Owner <- OwnerOf
    MaxLeases = 3
    NoRow = NoRow
CHECK_DEADLOCK FALSE
PROPERTY CompletedKept
