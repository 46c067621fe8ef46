\* One bucket shared by the sockets of two processes.
CONSTANTS
    s1 = s1
    s2 = s2
    p1 = p1
    p2 = p2
    Keys = {alice}
    Sockets = {s1, s2}
    Processes = {p1, p2}
    Home <- MCHome
    Ttls = {1, 3}
    MaxTime = 4
    MaxCalls = 4
SPECIFICATION RedisSpec
INVARIANTS
    RedisTypeOK
    OfflineStaysOffline
PROPERTY ImplementsPresence
\* Time, calls and commands end.
CHECK_DEADLOCK FALSE
