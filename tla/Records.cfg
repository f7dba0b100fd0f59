SPECIFICATION FairSpec
CONSTANTS
    Writers = {w}
    Closers = {k}
    Reader = r
    None = None
    Modes = {"tls13", "bare"}
    MaxUseless = 1
    SeqSpace = 2
    MaxBurst = 2
    MaxWrites = 1
    MaxCloses = 2
    MaxReads = 2
INVARIANTS SealedInTurn TruthfulEnd NothingAfterCloseNotify
PROPERTIES CloseReturns ReadsEnd
CHECK_DEADLOCK FALSE
