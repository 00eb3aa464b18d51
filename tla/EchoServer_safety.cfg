CONSTANTS
    Clients = {k1, k2}
    Lengths = {5, 9}
    MaxFrames = 4
    MaxLosses = 1
SPECIFICATION FairSpec
INVARIANTS
    TypeOK
    PublishedInOrder
    OneFatePerMessage
    LagsByOne
PROPERTY EventuallyDecoded
CHECK_DEADLOCK FALSE
