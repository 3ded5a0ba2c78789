CONSTANTS
    NumChannels = 2
    Slots = 3
    Options <- MCOptions
    Blocks <- MCBlocks
    MaxBlock = 2
    Rates <- MCRates
    RateOptions <- MCRateOptions
    HighRate = 2
    BatchLow = 1
    BatchHigh = 2
    FileLength = 3
    MaxTicks <- MCTicks
    HasWindow = TRUE
    MaxInputs = 2
SPECIFICATION FairSpec
INVARIANTS
    OneProducer
    EveryGapIsReported
    ChannelsStayTogether
    RateIsTheSources
PROPERTIES
    StopEndsAll
CHECK_DEADLOCK FALSE
