------------------------------- MODULE Accounts -------------------------------
(***************************************************************************)
(* Signing in, behind the HTTP routes: AuthService (src/auth/              *)
(* auth.service.ts) looks the account up in the table users or creates it  *)
(* (users.repository.ts), stamps the login and signs a session token.      *)
(*                                                                         *)
(* Logins run concurrently, on any number of processes: each await of the  *)
(* database is a step.  A command may fail, be executed although its reply *)
(* is lost, or be the last thing its process does.                         *)
(*                                                                         *)
(* An account is a provider with its providerSub.  A row keeps what the    *)
(* unique indexes look at and whether lastLoginAt is set; names and        *)
(* pictures are left out.  save writes a row at once: TypeORM reads it     *)
(* again and updates what differs.                                         *)
(*                                                                         *)
(* "wrong" marks plausible bugs that no action uses.                       *)
(***************************************************************************)
CONSTANTS
    Logins,          \* requests that sign somebody in
    GoogleAccounts,
    Guests,          \* accounts anonymous logins make up
    Emails,
    NoEmail,
    Ids              \* ids of users

VARIABLES
    users,           \* the table
    login,           \* what each request has come to
    sessions         \* session tokens signed

accountsVars == <<users, login, sessions>>

Account == GoogleAccounts \cup Guests
Email == Emails \cup {NoEmail}
Row == [id : Ids, account : Account, email : Email, stamped : BOOLEAN]

Idle == [at |-> "idle"]
Stage ==
    [at : {"finding", "inserting"}, account : Account, email : Email]
        \cup [at : {"writing", "signing"}, account : Account, email : Email, id : Ids]

ASSUME AccountsAssumption ==
    /\ GoogleAccounts \cap Guests = {}
    /\ NoEmail \notin Emails

AccountsInit ==
    /\ users = {}
    /\ login = [r \in Logins |-> Idle]
    /\ sessions = {}

-----------------------------------------------------------------------------
\* The indexes: the primary key, and email and account, each unique (NULLs
\* are not compared).
ConflictsByEmail(row, rows) ==                                         \* wrong
    \E u \in rows :
        \/ u.id = row.id
        \/ u.email = row.email /\ u.email # NoEmail
Conflicts(row, rows) ==
    \E u \in rows :
        \/ u.id = row.id
        \/ u.email = row.email /\ u.email # NoEmail
        \/ u.account = row.account

RowsOf(account) == {u \in users : u.account = account}
RowOfId(id) == {u \in users : u.id = id}

Comes(r, stage) == login' = [login EXCEPT ![r] = stage]

\* completeOAuth, once Google has told the profile.
CompleteOAuth(r, account, email) ==
    /\ login[r] = Idle
    /\ Comes(r, [at |-> "finding", account |-> account, email |-> email])
    /\ UNCHANGED <<users, sessions>>

\* anonymousLogin, signInAnonymous: with an account nobody has yet, as far as
\* its random digits go.
SignInAnonymous(r, guest) ==
    /\ login[r] = Idle
    /\ RowsOf(guest) = {}
    /\ \A q \in Logins : login[q] # Idle => login[q].account # guest
    /\ Comes(r, [at |-> "finding", account |-> guest, email |-> NoEmail])
    /\ UNCHANGED <<users, sessions>>

\* upsertByProvider: findByProviderSub ...
Find(r) ==
    LET l == login[r]
    IN  /\ l.at = "finding"
        /\ \/ /\ RowsOf(l.account) = {}
              /\ Comes(r, [l EXCEPT !.at = "inserting"])
           \/ \E u \in RowsOf(l.account) :
                 Comes(r, [at |-> "writing", account |-> l.account,
                           email |-> l.email, id |-> u.id])
        /\ UNCHANGED <<users, sessions>>

\* ... create, with a random id ...
FreshIds == {id \in Ids : RowOfId(id) = {}}
NewId == CHOOSE id \in FreshIds : TRUE

NewRow(l) == [id |-> NewId, account |-> l.account, email |-> l.email, stamped |-> FALSE]

InsertIs(r, next) ==
    LET l == login[r]
    IN  /\ l.at = "inserting"
        /\ FreshIds # {}
        /\ ~Conflicts(NewRow(l), users)
        /\ users' = users \cup {NewRow(l)}
        /\ Comes(r, [at |-> next, account |-> l.account, email |-> l.email, id |-> NewId])
        /\ UNCHANGED sessions

InsertAndSign(r) == InsertIs(r, "signing")                             \* wrong
Insert(r) == InsertIs(r, "writing")

\* ... and save, of the row found or created, now with lastLoginAt.
Save(r) ==
    LET l == login[r]
        row == [id |-> l.id, account |-> l.account, email |-> l.email, stamped |-> TRUE]
        others == users \ RowOfId(l.id)
    IN  /\ l.at = "writing"
        /\ ~Conflicts(row, others)
        /\ users' = others \cup {row}
        /\ Comes(r, [l EXCEPT !.at = "signing"])
        /\ UNCHANGED sessions

\* signSessionToken, and the answer.
Sign(r) ==
    /\ login[r].at = "signing"
    /\ sessions' = sessions \cup {[account |-> login[r].account, user |-> login[r].id]}
    /\ Comes(r, Idle)
    /\ UNCHANGED users

\* An index refuses the row, the database fails, its reply is lost, or the
\* process stops.
Fail(r) ==
    /\ login[r] # Idle
    /\ Comes(r, Idle)
    /\ UNCHANGED <<users, sessions>>

AccountsNext ==
    \E r \in Logins :
        \/ \E account \in GoogleAccounts, email \in Email : CompleteOAuth(r, account, email)
        \/ \E guest \in Guests : SignInAnonymous(r, guest)
        \/ Find(r) \/ Insert(r) \/ Save(r) \/ Sign(r) \/ Fail(r)

AccountsSpec == AccountsInit /\ [][AccountsNext]_accountsVars

-----------------------------------------------------------------------------
(* Properties *)

\* The shape of the state.
AccountsTypeOK ==
    /\ users \subseteq Row
    /\ login \in [Logins -> Stage \cup {Idle}]
    /\ sessions \subseteq [account : Account, user : Ids]

\* However first logins of an account race and fail half way, it always signs
\* in the same user, and no other account does.
SameUserEachTime ==
    \A s, t \in sessions : s.account = t.account <=> s.user = t.user

\* Whoever holds a session token finds its own profile (getProfile), with the
\* time of a login, although a user is created without one.
SessionsAreStamped ==
    \A s \in sessions : \E u \in users :
        /\ RowOfId(s.user) = {u}
        /\ u.account = s.account
        /\ u.stamped

\* The table, as a directory of accounts.
Enrolled == {[account |-> u.account, user |-> u.id] : u \in users}
Visited == {u.id : u \in {v \in users : v.stamped}}

\* A login that finds, creates, stamps and signs in steps of its own, any of
\* which may be the last, behaves as a directory in which an account has one
\* user for good: rows are written again, with other e-mails, but never given to
\* another account, doubled or dropped.
Listed == INSTANCE Directory WITH enrolled <- Enrolled, visited <- Visited
ImplementsDirectory == Listed!Spec
=============================================================================
