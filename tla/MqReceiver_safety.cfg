CONSTANTS
    Clients = {k1, k2}
    MaxMessages = 3
    MaxEpochs = 2
SPECIFICATION Spec
SYMMETRY Symmetry
INVARIANTS
    TypeOK
    AckedReached
    InQueueOrder
    OneMessageBuffered
    OutboxBounded
CHECK_DEADLOCK FALSE
