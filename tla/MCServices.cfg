CONSTANTS
    \* one clock
    MaxTime = 5
    MaxBacks = 1
    \* presence: two buckets, two sockets, short and long time-outs
    Owners = {alice, bob}
    Sockets = {s1, s2}
    Ttls = {1, 3}
    \* the security limiter: one key, refilled just when it may be swept
    Keys = {alice}
    Scopes = {"user"}
    ScopeOf <- MCScopeOf
    Capacity <- MCCapacity
    Rate <- MCRate
    Ttl = 2
    Costs = {1, 2}
    \* the guard: one socket
    Clients = {s1}
    Allowance = 2
    Window = 2
    \* accounts: two logins at a time, two Google accounts, one guest
    Logins = {r1, r2}
    GoogleAccounts = {g1, g2}
    Guests = {guest}
    Emails = {e1}
    NoEmail = NoEmail
    Ids = {u1, u2, u3}
    \* OAuth: two popups, two callbacks at a time
    Browsers = {b1, b2}
    Targets = {t1, t2}
    NoTarget = NoTarget
    Callbacks = {q1, q2}
    MaxStarts = 2
    \* tokens
    SessionTtl = 2
    WsTtl = 1
    Jtis = {j1, j2, j3}
    MaxLives = 1
    \* probes
    Probes = {i1, i2}
SPECIFICATION ServicesSpec
INVARIANTS
    ServicesTypeOK
    OneTimerPerBucket
    WithinBudget
    RetryAfterSuffices
    AtMostTwice
    RefusesOnlyBusy
    SessionsAreStamped
    SignedInByOwnLogin
    ReturnsWhereAsked
    ConsumableOnce
    EntersByLogin
    LeftoversExcused
PROPERTIES
    ImplementsPresence
    ForgottenInTheEnd
    ImplementsTokenBucket
    ImplementsDirectory
\* Time ends.
CHECK_DEADLOCK FALSE
