SPECIFICATION FairSpec
CONSTANTS
    Callers = {c1}
    Cover = Cover
    Profiler = Profiler
    Free = Free
    Web = Web
    Video = Video
    File = File
    Dyn = Dyn
    States = {Web, Video, File}
    WebBrowsing = Web
    Dynamic = Dyn
    Interval <- MCInterval
    NoTicker = NoTicker
    Enough = 3
    MaxCells = 2
    MaxObs = 3
PROPERTY SwitchHappens
CHECK_DEADLOCK FALSE
