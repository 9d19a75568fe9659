SPECIFICATION LiveSpec
CONSTANTS
  NumCores = 4
  GpuCores <- MixedGpus
  MaxThreads = 1
  Balanced = TRUE
  GreedyInitially = FALSE
  Setups <- MCSetups
  MaxApps = 3
INVARIANTS
    BlocksTogether
    ThreadsConserved
    CountersExact
    EndsAfterAll
PROPERTIES
    SimulationEnds
CHECK_DEADLOCK FALSE
