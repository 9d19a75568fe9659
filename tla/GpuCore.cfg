SPECIFICATION FairSpec
CONSTANTS
  Setups <- MCSetups
  Capacity <- MCCapacity
  Width = 1
  FetchWidth = 1
  FeSize = 3
  AllocQSize = 1
  RobSize = 2
  SchedSize = 2
  SchedRate = 1
  MaxPort = 1
  MaxSched = 4
  MaxThreads = 2
  RetireWidth = 3
  NumSchedulers = 2
INVARIANTS
    WarpsExact
    WarpsIssueInOrder
    BarrierHolds
PROPERTIES
    EveryWarpFinishes
