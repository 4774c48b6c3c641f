CONSTANTS
    e1 = e1
    e2 = e2
    p1 = p1
    p2 = p2
    loop1 = loop1
    loop2 = loop2
    flush1 = flush1
    Event = {e1, e2}
    Process = {p1, p2}
    Runner = {loop1, loop2, flush1}
    HostOf <- MCHostOf
    Loop = {loop1, loop2}
    BatchSize = 1
    MaxAttempts = 3
    Archive = TRUE
SPECIFICATION FairSpec
CHECK_DEADLOCK FALSE
INVARIANTS
    OneOwner
    NothingVanishes
PROPERTIES
    ImplementsDelivery
    EventsAreSettled
