CONSTANTS
    ChannelCounts = {1, 2}
    HwWorkers = {1, 2}
    RingSize = 2
    GenerationMod = 8
    FastRate = 1
    Modes = {"MinMax"}
    Targets = {2}
    Rates = {0, 1}
    Spans = {1}
    MaxSamples = 3
    MaxStarts = 1
SPECIFICATION FairSpec
PROPERTIES
    StopReturns
CHECK_DEADLOCK FALSE
