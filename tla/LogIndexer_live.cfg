CONSTANTS
    Collectors = {c1, c2}
    None = None
    Kinds = {"text"}
    MaxLog = 1
    MaxPoll = 1
    MaxBoots = 2
    MaxRebalances = 1
SPECIFICATION FairSpec
PROPERTY EventuallyProcessed
CHECK_DEADLOCK FALSE
