SPECIFICATION FairSpec
CONSTANTS
    Latency = 2
    Capacity = 3
    Priorities = {0, 1}
    MaxUop = 5
INVARIANTS
    RingShape
PROPERTIES
    RingIsDelayLine
    EveryUopLeaves
CHECK_DEADLOCK FALSE
