SPECIFICATION Spec
CONSTANTS
    CellHeaderLen = 22
    MinCellSize = 24
    MaxCellSize = 27
    MaxData = 4
    MaxBytes = 5
    MaxDummies = 1
INVARIANTS FragmentsInOrder EndFlagOnlyLast DecodedIffLengthsAgree
CHECK_DEADLOCK FALSE
