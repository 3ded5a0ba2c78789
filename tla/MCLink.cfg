CONSTANTS
    HeaderUnits = 2
    NumChannels = 2
    PipeUnits = 3
    Sockets <- MCSockets
    Setups <- MCSetups
    MaxFaults = 1
    Block = 2
    RingCapacity = 3
    MaxFrames <- MCMaxFrames
SPECIFICATION FairSpec
INVARIANTS
    LagIsReported
    BurstKeepsOrder
PROPERTIES
    StreamSpec
    CloseEndsBoth
CHECK_DEADLOCK FALSE
