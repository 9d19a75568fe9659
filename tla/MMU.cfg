SPECIFICATION FairSpec
CONSTANTS
    Uops <- MCUops
    Parents <- MCParents
    Threads <- MCThreads
    ThreadOf <- MCThreadOf
    ParentOf <- MCParentOf
    NoParent = NoParent
    PageOf <- MCPageOf
    Pages <- MCPages
    NumFrames = 2
    TLBEntries = 1
    FaultBufferSize = 1
    WalkLatency = 1
    FaultLatency = 1
    EvictionLatency = 1
    BatchOverhead = 2
INVARIANTS
    FramesExact
    TLBCoherent
    FaultsResolvable
    UopsExact
PROPERTIES
    NoAccessStarves
