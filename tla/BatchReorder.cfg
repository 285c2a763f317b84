SPECIFICATION Spec
CONSTANTS
    Cycles = 2
    BatchCount <- TwoCycles
    Partitions = {p1}
    MaxRetries = 0
    MaxRestarts = 0
    MaxRejoins = 1
PROPERTY NeverOlderCycle
CHECK_DEADLOCK FALSE
