CONSTANTS
    r1 = r1  r2 = r2
    Missing = Missing
    None = None
    Manager = Manager
    TotalRunners <- TwoInstances
    MaxQueueSize <- OneSlot
    MaxUpdates = 1
    Payloads <- PairOfPayloads
    NumContexts <- Steady

SPECIFICATION Spec

INVARIANTS
    NoRunOnDeadBackend
