SPECIFICATION Spec
CONSTANTS
    Clients = {c1}
    QueueCap = 4
    Updates <- AllFeeds
INVARIANT CoherentAtRest
CHECK_DEADLOCK FALSE
