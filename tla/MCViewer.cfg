CONSTANTS
    Modes <- MCModes
    Rates <- MCRates
    Scenarios <- MCScenarios
    SettleFrames = 2
    ScenarioFrames = 4
    PipeFrames = 1
    MaxKeys = 2
SPECIFICATION FairSpec
INVARIANTS
    NoUseAfterClose
    ChildIsReaped
    VerifierUsesLiveBuffer
PROPERTIES
    QuitEnds
CHECK_DEADLOCK FALSE
