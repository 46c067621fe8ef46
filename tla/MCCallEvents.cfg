\* Two events of one client, and an invitation.
CONSTANTS
    alice = alice
    bob = bob
    s1 = s1
    s2 = s2
    p1 = p1
    c1 = c1
    m1 = m1
    m2 = m2
    m3 = m3
    i1 = i1
    Users = {alice, bob}
    Sockets = {s1, s2}
    CallIds = {c1}
    Processes = {p1}
    Messages = {m1, m2}
    Invites = {i1}
    UserOf <- MCUserOf
    Home <- MCHome
    CallsOf <- MCCallsOf
    Sender <- MCSender
    About <- MCAbout
    InviteOf <- MCInviteOf
SPECIFICATION EventsSpec
INVARIANTS
    EventsTypeOK
    HeardWasRecorded
    ActorsVouched
    AcknowledgedOrder
\* The model ends when every socket has come and gone.
CHECK_DEADLOCK FALSE
