CONSTANTS
    Modes <- MCUdp
    Rates <- MCRates
    Scenarios <- MCScenarios
    SettleFrames = 2
    ScenarioFrames = 4
    PipeFrames = 1
    MaxKeys = 1
SPECIFICATION FairSpec
PROPERTIES
    QuitAlwaysEnds
CHECK_DEADLOCK FALSE
