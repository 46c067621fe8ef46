\* One user, one call and one credential refute it.
CONSTANTS
    TurnUsers = {alice}
    TurnCalls = {c1}
    TurnTtl = 2
    MaxTime = 4
    MaxBacks = 0
SPECIFICATION TurnSpec
INVARIANT CredentialsAccepted
CHECK_DEADLOCK FALSE
