\* The client may stop using its context.
CHECK_DEADLOCK FALSE
CONSTANTS
    t1 = t1  t2 = t2
    Null = Null
    Tensors <- MCTensors
    MaxInputs = 2
    MaxOutputs = 2
    MaxIndex = 2
    MaxCalls = 2
    Two31 = 4
SPECIFICATION Spec
INVARIANTS
    OutputsInDescribedOrder
