------------------------------- MODULE Directory -------------------------------
(***************************************************************************)
(* What signing in promises (AuthService, src/auth/auth.service.ts): an    *)
(* account has one user, for good, and a user one account; a session is    *)
(* only opened for a user with a login on record.  Implemented by Accounts,*)
(* with a table, indices and logins that interleave and fail.              *)
(***************************************************************************)
CONSTANTS
    Account,
    Ids          \* of users

VARIABLES
    enrolled,    \* accounts with their users
    visited,     \* users whose time of login is set
    sessions     \* accounts that were signed in, with the user each got

directoryVars == <<enrolled, visited, sessions>>

Entry == [account : Account, user : Ids]

Init ==
    /\ enrolled = {}
    /\ visited = {}
    /\ sessions = {}

Enroll(entry) ==
    /\ \A e \in enrolled : e.account # entry.account /\ e.user # entry.user
    /\ enrolled' = enrolled \cup {entry}
    /\ UNCHANGED <<visited, sessions>>

RecordLogin(entry) ==
    /\ entry \in enrolled
    /\ visited' = visited \cup {entry.user}
    /\ UNCHANGED <<enrolled, sessions>>

SignIn(entry) ==
    /\ entry \in enrolled /\ entry.user \in visited
    /\ sessions' = sessions \cup {entry}
    /\ UNCHANGED <<enrolled, visited>>

Next == \E entry \in Entry : Enroll(entry) \/ RecordLogin(entry) \/ SignIn(entry)

Spec == Init /\ [][Next]_directoryVars
=============================================================================
