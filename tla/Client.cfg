SPECIFICATION FairSpec
CONSTANTS
    Chunks = 2
    MaxVersion = 2
    MaxToggles = 2
    MaxDrops = 1
INVARIANTS ShownWhole SocketsCoherent
PROPERTIES DisconnectedIsQuiet ComesToShowCurrent
CHECK_DEADLOCK FALSE
