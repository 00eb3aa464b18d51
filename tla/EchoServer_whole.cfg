CONSTANTS
    Clients = {k1}
    Lengths = {6}
    MaxFrames = 2
    MaxLosses = 1
SPECIFICATION Spec
INVARIANT DecodedWhenWhole
CHECK_DEADLOCK FALSE
