SPECIFICATION FairSpec
CONSTANTS
    Clients = {c1}
    QueueCap = 8
    Updates <- AllFeeds
INVARIANT CoherentAtRest
PROPERTIES NeverShowsOlder UpdatesReachViewers
CHECK_DEADLOCK FALSE
