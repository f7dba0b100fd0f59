SPECIFICATION FairSpec
CONSTANTS
    CellIDs = {0, 1}
    SeqMod = 4
    MaxCells = 3
    MaxFrags = 2
    MaxDummies = 1
    MaxTime = 2
    MaxSetBacks = 1
    ProbingInterval = 2
    ReadSizes = {1}
    CellHeaderLen = 22
INVARIANTS DeliveredInOrder WholeMessages RejectedOnlyAfterUnterminated
PROPERTIES WriteFlushesData ImplementsMessageStream DeliverableArrives
CHECK_DEADLOCK FALSE
