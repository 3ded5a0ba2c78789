CONSTANTS
    Producers = {p1, p2, p3}
    Capacities = {0, 2}
    MaxOffers = 2
SPECIFICATION FairSpec
INVARIANTS
    TypeOK
    Bounded
    Accounting
    NoLostWakeup
    ProducerOrder
    BlockLosesNothing
PROPERTIES
    QueueSpec
