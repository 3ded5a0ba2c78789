CONSTANTS
    N = 2
    Entries <- MCEntries
    MaxFrames = 3
    MaxBatch = 2
    MaxSessions = 2
SPECIFICATION FairSpec
INVARIANTS
    NoOvertaking
    EachFrameOnce
    NothingStale
    StoppedMeansQuiet
    BlockedInputsKeepAll
PROPERTIES
    StopReturns
CHECK_DEADLOCK FALSE
