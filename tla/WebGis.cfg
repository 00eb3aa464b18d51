CONSTANTS
    Fns = {"f"}
    Foreign = {"c1", "c2"}
    ContextSeq <- MCContextSeq
    Own = "own"
    NoContext = "no context"
    MaxListeners = 3
    MaxStores = 1
    MaxDepth = 2
    MaxMissed = 1
    Zooms = {1, 2}
    Places = {0, 1}
    Halves = {1, 2}
    Threshold = 4
    Near = 1
    StartPlace = 0
    StartZoom = 1
    StartHalf = 1
    Browsers = {TRUE, FALSE}
    PopupWidth = 2
    Padding = 1
    MaxAsks = 4
    Areas = {0, 1}
    Visible <- MCVisible
    Platforms = {"desktop", "mobile"}
    MaxStrays = 2
    MaxLost = 1
    Titles = {"ka", "bk"}
    NoTitle = "none"
    Typed = {"k", "+"}
    Invalid = {"+"}
    Matches <- MCMatches
    Completes <- MCCompletes
    Answers <- MCAnswers
    Ticks = 1
    MaxDraws = 2
    MaxAnims = 2
    Devices = {"mouse", "touch"}
    Positions = {0, 1}
    WheelMax = 1
    MaxPresses = 2
    MaxStale = 1
    MaxZooms = 2
    Grid = {0, 1, 2, 3}
    PathGrid = {0, 1, 2}
    Unit = 6
    ViewMin = 1
    ViewMax = 2
    ShapePoints = 3
    PathPoints = 5
    Tolerance = 1
    Markers = {"m1", "m2", "m3"}
    NoMarker = "no marker"
    Sites = {1, 2}
    NoLayer = "no layer"
    BaseLayers <- MCBaseLayers
    StartLayer = "amap"
    MaxClicks = 2
    Spots = {"s1", "s2", "s3"}
    NoSpot = "no spot"
    Supports = {TRUE, FALSE}
    MaxEnds = 2
    Starts = {"r1", "r2"}
    Pages = 2
    MaxFaults = 2
SPECIFICATION WgSpec
INVARIANTS
    WgTypeOK
    CountFollowsIndex
    QuietMeansSettled
    CounterExact
    MarkersOfLastArea
    TipsUnderInput
    IntervalsEnd
    HandsOff
    GrabbedPointHeld
    DrawnAsGiven
    OverlaysAgree
    LocateAgrees
    ExportsTable
PROPERTIES
    RemovedNotCalled
    BufferKept
    ClickOrDrag
CHECK_DEADLOCK FALSE
