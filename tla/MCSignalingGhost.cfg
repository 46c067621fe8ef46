\* One process, one call, one socket that closes while the bus is asked.
CONSTANTS
    alice = alice
    bob = bob
    s1 = s1
    s2 = s2
    s3 = s3
    p1 = p1
    p2 = p2
    Users = {alice, bob}
    Sockets = {s1}
    CallIds = {c1}
    Processes = {p1}
    UserOf <- MCUserOf
    Home <- MCHome
    CallsOf <- MCCallsOf
SPECIFICATION Spec
INVARIANT NoGhosts
\* The model ends when every socket has come and gone.
CHECK_DEADLOCK FALSE
