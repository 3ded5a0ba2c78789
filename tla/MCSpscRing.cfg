CONSTANTS
    Capacity = 4
    Values = {a, b}
    MaxRequest = 3
SPECIFICATION Spec
SYMMETRY Symmetry
INVARIANTS
    TypeOK
    NoSlotRace
    SizeIsPromise
PROPERTIES
    PushPublishesPrefix
    FifoSpec
