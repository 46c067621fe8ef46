\* Two processes, one call: two sockets of one user on the first process, one
\* of another user on the second.
CONSTANTS
    alice = alice
    bob = bob
    s1 = s1
    s2 = s2
    s3 = s3
    p1 = p1
    p2 = p2
    Users = {alice, bob}
    Sockets = {s1, s2, s3}
    CallIds = {c1}
    Processes = {p1, p2}
    UserOf <- MCUserOf
    Home <- MCHome
    CallsOf <- MCCallsOf
SPECIFICATION FairSpec
INVARIANTS
    TypeOK
    PeersMeet
    KnownPeersRegistered
    RoomsAgree
    MembersVouched
    OnlyAbandonedGhosts
PROPERTIES
    AdmittedIsAnnounced
    ImplementsMesh
\* The model ends when every socket has come and gone.
CHECK_DEADLOCK FALSE
