SPECIFICATION FairLauncherSpec
CONSTANTS
    Launchers = {l1, l2}
    NoOne = NoOne
    Services = 2
    EarlyStop = TRUE
    MaxCrashes = 1
INVARIANTS NothingLeftBehind OneSession
PROPERTIES SessionsEndCleanly
CHECK_DEADLOCK FALSE
