\* Two users asked about at once.
CONSTANTS
    s1 = s1
    s2 = s2
    p1 = p1
    p2 = p2
    Keys = {alice, bob}
    Sockets = {s1, s2}
    Processes = {p1, p2}
    Home <- MCHome
    Ttls = {1, 2}
    MaxTime = 2
    MaxCalls = 2
SPECIFICATION RedisSpec
INVARIANT WhoIsOnlineTellsAll
\* Time, calls and commands end.
CHECK_DEADLOCK FALSE
