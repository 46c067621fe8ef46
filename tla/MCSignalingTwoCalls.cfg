\* One process and two calls: what leaving one does to the other.
CONSTANTS
    alice = alice
    bob = bob
    s1 = s1
    s2 = s2
    s3 = s3
    p1 = p1
    p2 = p2
    Users = {alice, bob}
    Sockets = {s1, s3}
    CallIds = {c1, c2}
    Processes = {p1}
    UserOf <- MCUserOf
    Home <- MCHome
    CallsOf <- MCCallsOf
SPECIFICATION Spec
INVARIANT RoomsAgree
\* The model ends when every socket has come and gone.
CHECK_DEADLOCK FALSE
