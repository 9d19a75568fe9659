SPECIFICATION FairSpec
CONSTANTS
    Setups <- MCSetups
    Width = 2
    FetchWidth = 2
    FeSize = 4
    RobSize = 3
    MaxSched = 7
    WbSize = 2
    FirstVersions <- MCFirstVersions
    Registers = {"r", "s"}
    Addresses = {0, 4, 8}
    QuadWord = 8
    Capacity <- MCCapacity
    AllocQSize <- MCAllocQSize
    SchedSize <- MCSchedSize
    SchedRate <- MCSchedRate
    MaxPort <- MCMaxPort
INVARIANTS
    CoreExact
    StoreMapExact
PROPERTIES
    FenceHolds
    CommitsInOrder
    EveryUopCommits
