\* Two calls, two room codes, three users: codes are freed and drawn again,
\* and a call may have its creator, an invited user and a stranger.
CONSTANTS
    u1 = u1
    u2 = u2
    u3 = u3
    Users = {u1, u2, u3}
    CallIds = {c1, c2}
    Codes = {k1, k2}
    None = None
    MaxEvents = 6
    InviteeLists <- MCInviteeLists
SPECIFICATION Spec
SYMMETRY MCSymmetry
INVARIANTS
    TypeOK
    CodeIndexExact
    JournalReplaysState
    OnlyLeavingAfterEnd
    PrivateByInvitation
PROPERTY ImplementsLifecycle
