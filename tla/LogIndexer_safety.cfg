CONSTANTS
    Collectors = {c1, c2}
    None = None
    Kinds = {"event", "noMessage"}
    MaxLog = 2
    MaxPoll = 2
    MaxBoots = 2
    MaxRebalances = 1
SPECIFICATION Spec
SYMMETRY Symmetry
INVARIANTS
    TypeOK
    CommittedIsProcessed
    DuplicatesNeedHandover
    Accounted
PROPERTIES
    CommittedMonotone
    ImplementsDelivery
CHECK_DEADLOCK FALSE
