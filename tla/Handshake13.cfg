SPECIFICATION FairSpec
CONSTANTS
    None = None
    Configs <- MCConfigs
INVARIANTS Agreement ClientAuthEnforced TicketSecretsAgree FailuresHaveACause
PROPERTIES CompatibleEndsComplete HandshakesEnd
CHECK_DEADLOCK FALSE
