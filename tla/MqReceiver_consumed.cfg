CONSTANTS
    Clients = {k1}
    MaxMessages = 1
    MaxEpochs = 1
SPECIFICATION Spec
INVARIANT AckedWhenConsumed
CHECK_DEADLOCK FALSE
