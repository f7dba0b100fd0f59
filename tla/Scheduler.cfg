SPECIFICATION SchedulerSpec
CONSTANTS
    MaxItems = 5
    MaxTime = 1
    Intervals = {1, 2}
    WebInterval = 2
INVARIANTS DueCellFound
PROPERTY ImplementsCellQueue
CHECK_DEADLOCK FALSE
