CONSTANTS
    r1 = r1  r2 = r2  r3 = r3
    None = None
    Payloads <- MCPayloads
    TotalRunners = 2
    MaxQueueSize = 1
    MaxUpdates = 1
SPECIFICATION FairSpec
INVARIANTS
    ExactlyOnePlace
    DrainedStopCompletesAll
PROPERTIES
    ImplementsLifecycle
    AcceptedAnswered
    NobodyWaitsForEver
