CONSTANTS
    r1 = r1  r2 = r2  r3 = r3
    None = None
    Payloads <- MCPayloads
    TotalRunners = 1
    MaxQueueSize = 2
    MaxUpdates = 0

SPECIFICATION Spec

INVARIANTS
    StopFinishesEnqueued
