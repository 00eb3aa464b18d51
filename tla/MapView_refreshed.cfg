CONSTANTS
    Zooms = {1, 2}
    Places = {0, 1}
    Halves = {1, 2}
    Threshold = 4
    Near = 1
    StartPlace = 0
    StartZoom = 1
    StartHalf = 1
    Browsers = {TRUE}
    PopupWidth = 2
    Padding = 1
    MaxAsks = 3
SPECIFICATION VwSpec
INVARIANT RefreshedWhenQuiet
CHECK_DEADLOCK FALSE
