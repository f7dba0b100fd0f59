SPECIFICATION GateFairSpec
CONSTANTS
    Callers = {g1, g2, g3}
    Cancellable = {g1, g2}
    Free = Free
INVARIANTS ResultsAgree InterrupterJoined
PROPERTY CancelledCallReturns
