SPECIFICATION Spec
CONSTANTS
    Cycles = 3
    BatchCount <- ThreeCycles
    Partitions = {p1, p2}
    MaxRetries = 1
    MaxRestarts = 1
    MaxRejoins = 1
INVARIANTS PayloadWhole CompleteCycleShown
PROPERTY OlderCycleOnlyIfReordered
SYMMETRY PartitionSymmetry
CHECK_DEADLOCK FALSE
