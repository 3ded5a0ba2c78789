CONSTANTS
    Rates <- MCOneRate
    Period <- MCOnePeriod
    Batch <- MCOneBatch
    Measured <- MCOneRate
    LttbLimit = 245
    Target = 4
    MaxFrames = 2
    SlotCount = 3
    FramesInFlight = 2
    Spans <- MCOneSpan
    FirstSpan = 2
    SpanUnit = 120
    DisplayPoints = 4
    MaxCommands = 0
SPECIFICATION Spec
INVARIANTS
    DrawnIsLeftAlone
