SPECIFICATION ProvidersSpec
CONSTANTS
    Viewers = {v1, v2}
    Keys = {k1, k2}
    Capacity = 1
    TTL = 2
    Timeout = 3
    Delays = {0, 3}
    MaxObjects = 3
    MaxTime = 5
    Sources <- MCSources
    MaxAge <- MCMaxAge
    Ahead = 0
    MaxClockW = 3
    MaxStarts = 2
    Groups = 3
    MaxAttempts = 2
    MaxBatches = 2
    MaxLaunches = 2
    Day = 2
    MaxHours = 4
    MaxEngineRuns = 3
    Queries = {"q1", "q2"}
    Searchers = {"v1", "v2"}
    CacheLife = 2
    CacheSize = 1
    MaxSeconds = 4
PROPERTIES RequestsSpaced RetryAfterHonored ProvidersSpared ProvidersSound EverythingIsServed
CHECK_DEADLOCK FALSE
