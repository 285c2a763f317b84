SPECIFICATION FairSpec
CONSTANTS
    Clients = {c1, c2}
    QueueCap = 1
    Updates <- ThreeSatellites
INVARIANT ChannelClosedOnce
PROPERTIES ImplementsSubscription GonePeersAreRemoved
CHECK_DEADLOCK FALSE
