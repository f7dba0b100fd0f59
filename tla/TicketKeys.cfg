SPECIFICATION Spec
CONSTANTS
    Conns = {g1, g2}
    Setters = {s1}
    Main = Main
    ForClient = ForClient
    Free = Free
    Rotation = 2
    Lifetime = 3
    MaxTime = 4
    MaxLost = 1
INVARIANTS LocksBalanced RotatedOnce KeysKept SomeoneMoves
PROPERTY SetKeysStay
CHECK_DEADLOCK FALSE
