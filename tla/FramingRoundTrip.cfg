SPECIFICATION Spec
CONSTANTS
    CellHeaderLen = 20
    MinCellSize = 22
    MaxCellSize = 25
    MaxData = 4
    MaxBytes = 4
    MaxDummies = 1
INVARIANT RoundTrip
CHECK_DEADLOCK FALSE
