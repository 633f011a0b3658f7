\* With no runner the callers and the manager end up waiting for each other.
CHECK_DEADLOCK FALSE
CONSTANTS
    r1 = r1  r2 = r2
    Missing = Missing
    None = None
    Manager = Manager
    TotalRunners <- CountLeftOut
    MaxQueueSize <- OneSlot
    MaxUpdates = 0
    Payloads <- PairOfPayloads
    NumContexts <- Defaulted
SPECIFICATION FairSpec
PROPERTY
    DefaultCountServes
