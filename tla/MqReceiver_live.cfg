CONSTANTS
    Clients = {k1}
    MaxMessages = 3
    MaxEpochs = 2
SPECIFICATION FairSpec
PROPERTY EventuallyAcked
CHECK_DEADLOCK FALSE
