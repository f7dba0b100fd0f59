SPECIFICATION FairSpec
CONSTANTS
    CellIDs = {0, 1}
    SeqMod = 4
    MaxCells = 4
    MaxFrags = 2
    MaxDummies = 0
    MaxTime = 4
    MaxSetBacks = 0
    ProbingInterval = 2
    ReadSizes = {4}
    CellHeaderLen = 22
PROPERTY EveryMessageArrives
CHECK_DEADLOCK FALSE
