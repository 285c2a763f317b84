SPECIFICATION Spec
CONSTANTS
    Satellites = {s1, s2}
    MaxEpoch = 2
    First = p0
    Partitions = {p0, p1}
    MaxRecords = 3
    MaxCrashes = 1
INVARIANTS CatalogIsNewestRead CatalogCompleteWhenCaughtUp
PROPERTY PositionsNeverFromOlderElements
CHECK_DEADLOCK FALSE
