CONSTANTS
    Rates <- MCRates
    Period <- MCPeriod
    Batch <- MCBatch
    Measured <- MCMeasured
    LttbLimit = 245
    Target = 4
    MaxFrames = 2
    SlotCount = 3
    FramesInFlight = 2
    Spans <- MCSpans
    FirstSpan = 2
    SpanUnit = 120
    DisplayPoints = 4
    MaxCommands = 2
SPECIFICATION Spec
INVARIANTS
    EnvelopeHolds
    DrawnHasArrived
    FencesComeBack
    WindowIsNewest
