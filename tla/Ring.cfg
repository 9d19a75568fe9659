SPECIFICATION MCSpec
CONSTANTS
    NumRouter = 4
    NumPort <- RingPorts
    NumVC = 3
    BufferMax = 2
    InjectionMax = 1
    LinkLatency = 1
    Ratio = 1
    Packets <- MCPackets
    Src <- MCSrc
    Dst <- MCDst
    NumFlit <- MCNumFlit
    Link <- RingLink
    Routes <- RingRoutes
INVARIANTS
    CreditsConserved
    WormsExact
    PacketsConserved
PROPERTIES
    EveryPacketArrives
