SPECIFICATION FairSpec
CONSTANTS
    Events = {1, 9}
    Reuse = 2
    Backoff = 1
    MaxTime = 3
    MaxFaults = 2
PROPERTIES AlertsNeverOlder CDMRequestsSpaced FetchedGetsPublished
CHECK_DEADLOCK FALSE
