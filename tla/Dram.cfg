SPECIFICATION Spec
CONSTANTS
    NumChannel = 1
    BanksPerChannel = 2
    BusWidth = 2
    BufferSize = 3
    ActivateLatency = 1
    PrechargeLatency = 1
    ColumnLatency = 1
    StarvationLimit = 9
    Knobs <- MCKnobs
    Kinds <- MCKinds
    BankOf <- MCBankOf
    RowOf <- MCRowOf
    NetSize = 1
    MaxRequests = 4
    LastArrival = 4
    MaxCycle = 16
INVARIANTS
    ControllerExact
    BandwidthKept
    ReadsFollowWritebacks
    NoFalseAlarm
    RowsDistinct
PROPERTIES
    ServesAll
