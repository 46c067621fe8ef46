\* Two calls one after the other under one room code, one request that clients
\* may repeat, one token, one restart.
CONSTANTS
    Users = {u1, u2}
    CallIds = {c1, c2}
    Codes = {k1}
    None = None
    MaxEvents = 5
    InviteeLists <- MCInviteeLists
    MaxUnsure = 1
    MaxTokens = 1
    MaxRestarts = 1
SPECIFICATION ApiSpec
SYMMETRY MCSymmetry
INVARIANTS
    RecordedOnce
    StrayOnlyByFreedCode
    TokensWereEntitled
\* Calls, tokens and the journal end.
CHECK_DEADLOCK FALSE
