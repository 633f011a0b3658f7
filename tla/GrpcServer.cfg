CONSTANTS
    Infer = Infer  Status = Status  Health = Health
    MaxCalls <- Calls

SPECIFICATION FairSpec

INVARIANTS
    PostsOnOpenQueues
    FreedIsForgotten
    NothingLeftAtStop
    AlwaysListening

PROPERTIES
    CompletedOnce
    CallsFinish
    StopReturns
