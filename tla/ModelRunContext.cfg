CONSTANTS
    r1 = r1  r2 = r2
    Missing = Missing
    None = None
    Manager = Manager
    TotalRunners <- TwoInstances
    MaxQueueSize <- OneSlot
    MaxUpdates = 1
    Payloads <- PairOfPayloads
    NumContexts <- Shrinking
SPECIFICATION FairSpec
INVARIANTS
    EnqueueNeverMeetsStop
    DrainedRemovalAnswersAll
    NoBackendLeak
    InstalledFunctionIsSafe
PROPERTIES
    CallsAndRemovalReturn
    OldBackendAbandoned
