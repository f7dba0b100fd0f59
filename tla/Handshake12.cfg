SPECIFICATION Spec
CONSTANTS
    None = None
    Configs <- MCConfigs
    Names = {"a", "b"}
    Capacity = 1
    Lifetime = 1
    MaxConns = 3
    MaxTime = 2
    Rivals = 1
INVARIANTS EndsAgree ResumptionSound ClientAuthHolds ServerVerified AlertsHaveACause HandshakeProceeds
