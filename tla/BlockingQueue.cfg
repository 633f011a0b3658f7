CONSTANTS
    p1 = p1  p2 = p2  p3 = p3
    c1 = c1  c2 = c2  c3 = c3
    i1 = i1  i2 = i2  i3 = i3  i4 = i4
    None = None
    Producers <- MCProducers
    Consumers <- MCConsumers
    Items <- MCItems
    Capacity = 2

SPECIFICATION FairSpec

INVARIANTS
    NoLostWakeup

PROPERTIES
    ImplementsBoundedFifo
    PushReturns
