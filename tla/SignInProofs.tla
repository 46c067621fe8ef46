----------------------------- MODULE SignInProofs -----------------------------
(***************************************************************************)
(* Proofs about signing in: Accounts, OAuthLogin and WsTokens.             *)
(***************************************************************************)
EXTENDS Accounts, OAuthLogin, WsTokens, TLAPS

-----------------------------------------------------------------------------
(* Accounts *)

\* Rows of one table differ in their ids and in their accounts.
RowsDiffer ==
    \A u, v \in users : u.id = v.id \/ u.account = v.account => u = v

\* The table has the row of this id, for this account.
HasRow(id, account) == \E u \in users : u.id = id /\ u.account = account

HasStampedRow(id, account) ==
    \E u \in users : u.id = id /\ u.account = account /\ u.stamped

\* A login that has found or created a row knows its id, and one about to sign
\* has stamped it.
KnowsRow(r) ==
    /\ login[r].at = "writing" => HasRow(login[r].id, login[r].account)
    /\ login[r].at = "signing" => HasStampedRow(login[r].id, login[r].account)

LoginsKnowRows == \A r \in Logins : KnowsRow(r)

SessionsHaveRows == \A s \in sessions : HasStampedRow(s.user, s.account)

AccountsInv == AccountsTypeOK /\ RowsDiffer /\ LoginsKnowRows /\ SessionsHaveRows

\* No row disappears, moves to another account, or loses its stamp.
TableGrows ==
    \A u \in users : \E v \in users' :
        v.id = u.id /\ v.account = u.account /\ (u.stamped => v.stamped)

\* What is known of the rows remains true of a table that grows.
LEMMA GrowingKeepsRows ==
    ASSUME TableGrows, LoginsKnowRows, SessionsHaveRows
    PROVE  /\ \A r \in Logins : login'[r] = login[r] => KnowsRow(r)'
           /\ \A s \in sessions : HasStampedRow(s.user, s.account)'
<1>1. ASSUME NEW id, NEW account
      PROVE  /\ HasRow(id, account) => HasRow(id, account)'
             /\ HasStampedRow(id, account) => HasStampedRow(id, account)'
  BY DEF TableGrows, HasRow, HasStampedRow
<1>2. ASSUME NEW r \in Logins, login'[r] = login[r]
      PROVE  KnowsRow(r)'
  <2>1. PICK l : l = login[r] /\ l = login'[r]
    BY <1>2
  <2>2. /\ l.at = "writing" => HasRow(l.id, l.account)'
        /\ l.at = "signing" => HasStampedRow(l.id, l.account)'
    BY <1>1, <2>1 DEF LoginsKnowRows, KnowsRow
  <2> QED BY <2>1, <2>2 DEF KnowsRow, HasRow, HasStampedRow
<1>3. ASSUME NEW s \in sessions
      PROVE  HasStampedRow(s.user, s.account)'
  <2>1. HasStampedRow(s.user, s.account)
    BY DEF SessionsHaveRows
  <2>2. PICK id, account : id = s.user /\ account = s.account
    OBVIOUS
  <2> QED BY <1>1, <2>1, <2>2
<1> QED BY <1>2, <1>3

\* A table that stays as it is grows.
LEMMA SameTableGrows ==
    ASSUME users' = users
    PROVE  TableGrows
BY DEF TableGrows

\* A row that conflicts with none of the others leaves them different.
LEMMA AddingKeepsDifferent ==
    ASSUME RowsDiffer, NEW others \in SUBSET users, NEW row,
           ~Conflicts(row, others), users' = others \cup {row}
    PROVE  RowsDiffer'
BY DEF RowsDiffer, Conflicts

\* A new user gets an id nobody has.
LEMMA NewIdIsFresh ==
    ASSUME FreshIds # {}
    PROVE  NewId \in Ids /\ RowOfId(NewId) = {}
BY DEF FreshIds, NewId

\* The stages' members are records of these fields.
LEMMA StageFields ==
    ASSUME NEW l \in Stage \cup {Idle}
    PROVE  /\ l.at \in {"idle", "finding", "inserting", "writing", "signing"}
           /\ l.at # "idle" => l.account \in Account /\ l.email \in Email
           /\ l.at \in {"writing", "signing"} => l.id \in Ids
           /\ l.at \in {"finding", "inserting"} =>
                 l = [at |-> l.at, account |-> l.account, email |-> l.email]
           /\ l.at \in {"writing", "signing"} =>
                 l = [at |-> l.at, account |-> l.account, email |-> l.email, id |-> l.id]
BY DEF Stage, Idle

LEMMA AccountsInvInit == AccountsInit => AccountsInv
BY DEF AccountsInit, AccountsInv, AccountsTypeOK, RowsDiffer, LoginsKnowRows, KnowsRow,
       SessionsHaveRows, Idle

\* The next stage of one login, in a table that stays or grows.
LEMMA StageChange ==
    ASSUME AccountsInv, TableGrows, RowsDiffer', users' \subseteq Row,
           NEW r \in Logins, NEW stage \in Stage \cup {Idle}, Comes(r, stage),
           stage.at = "writing" => HasRow(stage.id, stage.account)',
           stage.at = "signing" => HasStampedRow(stage.id, stage.account)'
    PROVE  /\ RowsDiffer' /\ LoginsKnowRows'
           /\ sessions' = sessions => AccountsInv'
<1> USE DEF AccountsInv
<1>1. login' \in [Logins -> Stage \cup {Idle}] /\ login'[r] = stage
  BY DEF Comes, AccountsTypeOK
<1>2. KnowsRow(r)'
  BY <1>1 DEF KnowsRow, HasRow, HasStampedRow
<1>3. ASSUME NEW q \in Logins, q # r
      PROVE  KnowsRow(q)'
  <2>1. login'[q] = login[q]
    BY <1>3 DEF Comes, AccountsTypeOK
  <2> QED BY <2>1, GrowingKeepsRows
<1>4. LoginsKnowRows'
  BY <1>2, <1>3 DEF LoginsKnowRows
<1>5. ASSUME sessions' = sessions
      PROVE  SessionsHaveRows' /\ AccountsTypeOK'
  <2>1. \A s \in sessions : HasStampedRow(s.user, s.account)'
    BY GrowingKeepsRows
  <2> QED BY <1>1, <1>5, <2>1 DEF SessionsHaveRows, AccountsTypeOK
<1> QED BY <1>4, <1>5

\* Every step of a login keeps the invariant.
LEMMA AccountsInvNext ==
    ASSUME AccountsInv, [AccountsNext]_accountsVars
    PROVE  AccountsInv'
<1> USE DEF AccountsInv
<1>0. users \subseteq Row /\ RowsDiffer
  BY DEF AccountsTypeOK
<1>1. ASSUME NEW r \in Logins, NEW account \in GoogleAccounts, NEW email \in Email,
             CompleteOAuth(r, account, email)
      PROVE  AccountsInv'
  <2>1. [at |-> "finding", account |-> account, email |-> email] \in Stage
    BY DEF Stage, Account
  <2>2. UNCHANGED <<users, sessions>> /\ RowsDiffer'
    BY <1>1 DEF CompleteOAuth, RowsDiffer
  <2> QED BY <1>0, <1>1, <2>1, <2>2, SameTableGrows, StageChange DEF CompleteOAuth
<1>2. ASSUME NEW r \in Logins, NEW guest \in Guests, SignInAnonymous(r, guest)
      PROVE  AccountsInv'
  <2>1. [at |-> "finding", account |-> guest, email |-> NoEmail] \in Stage
    BY DEF Stage, Account, Email
  <2>2. UNCHANGED <<users, sessions>> /\ RowsDiffer'
    BY <1>2 DEF SignInAnonymous, RowsDiffer
  <2> QED BY <1>0, <1>2, <2>1, <2>2, SameTableGrows, StageChange DEF SignInAnonymous
<1>3. ASSUME NEW r \in Logins, Find(r)
      PROVE  AccountsInv'
  <2>1. login[r] \in Stage \cup {Idle} /\ login[r].at = "finding"
    BY <1>3 DEF Find, AccountsTypeOK
  <2>2. login[r].account \in Account /\ login[r].email \in Email
    BY <2>1, StageFields
  <2>3. UNCHANGED <<users, sessions>> /\ RowsDiffer'
    BY <1>3 DEF Find, RowsDiffer
  <2>4. CASE Comes(r, [login[r] EXCEPT !.at = "inserting"])
    <3>1. login[r] = [at |-> login[r].at, account |-> login[r].account, email |-> login[r].email]
      BY <2>1, StageFields
    <3>2. [login[r] EXCEPT !.at = "inserting"]
             = [at |-> "inserting", account |-> login[r].account, email |-> login[r].email]
      BY <3>1
    <3>3. PICK stage : stage = [at |-> "inserting", account |-> login[r].account,
                                email |-> login[r].email]
      OBVIOUS
    <3>4. stage \in Stage /\ stage.at = "inserting" /\ Comes(r, stage)
      BY <2>2, <2>4, <3>2, <3>3 DEF Stage
    <3> QED BY <1>0, <2>3, <3>4, SameTableGrows, StageChange
  <2>5. ASSUME NEW u \in RowsOf(login[r].account),
               Comes(r, [at |-> "writing", account |-> login[r].account,
                         email |-> login[r].email, id |-> u.id])
        PROVE  AccountsInv'
    <3>1. u \in users /\ u.account = login[r].account /\ u.id \in Ids
      BY DEF RowsOf, AccountsTypeOK, Row
    <3>2. PICK stage : stage = [at |-> "writing", account |-> login[r].account,
                                email |-> login[r].email, id |-> u.id]
      OBVIOUS
    <3>3. /\ stage \in Stage /\ stage.at = "writing" /\ Comes(r, stage)
          /\ stage.id = u.id /\ stage.account = u.account
      BY <2>2, <2>5, <3>1, <3>2 DEF Stage
    <3>4. HasRow(stage.id, stage.account)'
      BY <2>3, <3>1, <3>3 DEF HasRow
    <3> QED BY <1>0, <2>3, <3>3, <3>4, SameTableGrows, StageChange
  <2> QED BY <1>3, <2>4, <2>5 DEF Find
<1>4. ASSUME NEW r \in Logins, Insert(r)
      PROVE  AccountsInv'
  <2>1. PICK l, row, id, stage :
           /\ l = login[r] /\ row = NewRow(l) /\ id = NewId
           /\ stage = [at |-> "writing", account |-> l.account, email |-> l.email, id |-> id]
    OBVIOUS
  <2>2. /\ l \in Stage \cup {Idle} /\ l.at = "inserting"
        /\ id \in Ids
    BY <1>4, <2>1, NewIdIsFresh DEF Insert, InsertIs, AccountsTypeOK
  <2>3. l.account \in Account /\ l.email \in Email
    BY <2>2, StageFields
  <2>4. row \in Row /\ row.id = id /\ row.account = l.account
    BY <2>1, <2>2, <2>3 DEF NewRow, Row
  <2>5. stage \in Stage /\ stage.at = "writing" /\ stage.id = id /\ stage.account = l.account
    BY <2>1, <2>2, <2>3 DEF Stage
  <2>6. /\ ~Conflicts(row, users)
        /\ users' = users \cup {row}
        /\ Comes(r, stage)
        /\ sessions' = sessions
    BY <1>4, <2>1 DEF Insert, InsertIs
  <2>7. TableGrows /\ users' \subseteq Row
    BY <1>0, <2>4, <2>6 DEF TableGrows
  <2>8. RowsDiffer'
    BY <1>0, <2>6, AddingKeepsDifferent
  <2>9. HasRow(stage.id, stage.account)'
    BY <2>4, <2>5, <2>6 DEF HasRow
  <2> QED BY <2>5, <2>6, <2>7, <2>8, <2>9, StageChange
<1>5. ASSUME NEW r \in Logins, Save(r)
      PROVE  AccountsInv'
  <2>1. PICK l, row, others, stage :
           /\ l = login[r]
           /\ row = [id |-> l.id, account |-> l.account, email |-> l.email, stamped |-> TRUE]
           /\ others = users \ RowOfId(l.id)
           /\ stage = [at |-> "signing", account |-> l.account, email |-> l.email, id |-> l.id]
    OBVIOUS
  <2>2. l \in Stage \cup {Idle} /\ l.at = "writing"
    BY <1>5, <2>1 DEF Save, AccountsTypeOK
  <2>3. /\ l.account \in Account /\ l.email \in Email /\ l.id \in Ids
        /\ l = [at |-> l.at, account |-> l.account, email |-> l.email, id |-> l.id]
    BY <2>2, StageFields
  <2>4. /\ row \in Row /\ row.id = l.id /\ row.account = l.account /\ row.stamped
        /\ stage \in Stage /\ stage.at = "signing"
        /\ stage.id = l.id /\ stage.account = l.account
    BY <2>1, <2>3 DEF Row, Stage
  <2>5. [l EXCEPT !.at = "signing"] = stage
    BY <2>1, <2>3
  <2>6. /\ ~Conflicts(row, others)
        /\ users' = others \cup {row}
        /\ Comes(r, stage)
        /\ sessions' = sessions
    BY <1>5, <2>1, <2>5 DEF Save
  <2>7. HasRow(l.id, l.account)
    BY <2>1, <2>2 DEF LoginsKnowRows, KnowsRow
  <2>8. TableGrows
    <3> SUFFICES ASSUME NEW u \in users
                 PROVE  \E v \in users' :
                           /\ v.id = u.id /\ v.account = u.account
                           /\ u.stamped => v.stamped
      BY DEF TableGrows
    <3>1. CASE u.id = l.id
      <4>1. u.account = l.account
        BY <2>7, <3>1 DEF HasRow, RowsDiffer
      <4> QED BY <2>4, <2>6, <3>1, <4>1
    <3>2. CASE u.id # l.id
      BY <2>1, <2>6, <3>2 DEF RowOfId
    <3> QED BY <3>1, <3>2
  <2>9. RowsDiffer' /\ users' \subseteq Row
    <3>1. others \in SUBSET users
      BY <2>1
    <3> QED BY <1>0, <2>4, <2>6, <3>1, AddingKeepsDifferent
  <2>10. HasStampedRow(stage.id, stage.account)'
    BY <2>4, <2>6 DEF HasStampedRow
  <2> QED BY <2>4, <2>6, <2>8, <2>9, <2>10, StageChange
<1>6. ASSUME NEW r \in Logins, Sign(r)
      PROVE  AccountsInv'
  <2>1. PICK l, session :
           l = login[r] /\ session = [account |-> l.account, user |-> l.id]
    OBVIOUS
  <2>2. /\ l \in Stage \cup {Idle} /\ l.at = "signing"
        /\ users' = users
        /\ sessions' = sessions \cup {session}
        /\ Comes(r, Idle)
    BY <1>6, <2>1 DEF Sign, AccountsTypeOK
  <2>3. session \in [account : Account, user : Ids]
    <3>1. l.account \in Account /\ l.id \in Ids
      BY <2>2, StageFields DEF Stage, Idle
    <3> QED BY <2>1, <3>1
  <2>4. RowsDiffer' /\ TableGrows /\ Idle.at = "idle"
    BY <2>2, SameTableGrows DEF RowsDiffer, Idle
  <2>5. LoginsKnowRows'
    BY <1>0, <2>2, <2>4, StageChange
  <2>6. AccountsTypeOK'
    BY <2>2, <2>3 DEF Comes, AccountsTypeOK
  <2>7. HasStampedRow(session.user, session.account)
    BY <2>1, <2>2 DEF LoginsKnowRows, KnowsRow
  <2>8. SessionsHaveRows'
    BY <2>2, <2>7 DEF SessionsHaveRows, HasStampedRow
  <2> QED BY <2>4, <2>5, <2>6, <2>8
<1>7. ASSUME NEW r \in Logins, Fail(r)
      PROVE  AccountsInv'
  <2>1. UNCHANGED <<users, sessions>> /\ Comes(r, Idle)
    BY <1>7 DEF Fail
  <2>2. RowsDiffer' /\ TableGrows /\ Idle.at = "idle"
    BY <2>1, SameTableGrows DEF RowsDiffer, Idle
  <2> QED BY <1>0, <2>1, <2>2, StageChange
<1>8. CASE UNCHANGED accountsVars
  BY <1>8 DEF accountsVars, AccountsTypeOK, RowsDiffer, LoginsKnowRows, KnowsRow,
              SessionsHaveRows, HasRow, HasStampedRow
<1> QED BY <1>1, <1>2, <1>3, <1>4, <1>5, <1>6, <1>7, <1>8 DEF AccountsNext

LEMMA AccountsInvHolds == AccountsSpec => []AccountsInv
<1>1. AccountsInv /\ [AccountsNext]_accountsVars => AccountsInv'
  BY AccountsInvNext
<1> QED BY <1>1, AccountsInvInit, PTL DEF AccountsSpec

\* The shape of the state of AuthService's logins and of the table users.
THEOREM AccountsTypeCorrect == AccountsSpec => []AccountsTypeOK
<1>1. AccountsInv => AccountsTypeOK
  BY DEF AccountsInv
<1> QED BY <1>1, AccountsInvHolds, PTL

\* However first logins race and fail (upsertByProvider), an account always
\* signs in the same user, and no other account does.
THEOREM OneUserPerAccount == AccountsSpec => []SameUserEachTime
<1>1. AccountsInv => SameUserEachTime
  BY DEF AccountsInv, RowsDiffer, SessionsHaveRows, HasStampedRow, SameUserEachTime
<1> QED BY <1>1, AccountsInvHolds, PTL

\* Whoever holds a session token finds its own profile (getProfile), with the
\* time of a login, although a user is created without one.
THEOREM SessionsLeadToLogins == AccountsSpec => []SessionsAreStamped
<1>1. AccountsInv => SessionsAreStamped
  <2> SUFFICES ASSUME AccountsInv, NEW s \in sessions
               PROVE  \E u \in users :
                         RowOfId(s.user) = {u} /\ u.account = s.account /\ u.stamped
    BY DEF SessionsAreStamped
  <2>1. PICK u \in users : u.id = s.user /\ u.account = s.account /\ u.stamped
    BY DEF AccountsInv, SessionsHaveRows, HasStampedRow
  <2>2. RowOfId(s.user) = {u}
    BY <2>1 DEF AccountsInv, RowsDiffer, RowOfId
  <2> QED BY <2>1, <2>2
<1> QED BY <1>1, AccountsInvHolds, PTL

-----------------------------------------------------------------------------
(* Accounts implements Directory *)

\* The entry a row stands for.
EntryOf(u) == [account |-> u.account, user |-> u.id]

LEMMA EntriesAndVisits ==
    /\ Enrolled = {EntryOf(u) : u \in users}
    /\ Visited = {u.id : u \in {v \in users : v.stamped}}
BY DEF Enrolled, Visited, EntryOf

LEMMA EntriesAndVisitsNext ==
    /\ Enrolled' = {EntryOf(u) : u \in users'}
    /\ Visited' = {u.id : u \in {v \in users' : v.stamped}}
BY DEF Enrolled, Visited, EntryOf

\* A step of the directory, told of tables.
LEMMA TableStep ==
    ASSUME NEW entry \in [account : Account, user : Ids],
           \/ /\ \A e \in Enrolled : e.account # entry.account /\ e.user # entry.user
              /\ Enrolled' = Enrolled \cup {entry}
              /\ Visited' = Visited /\ sessions' = sessions
           \/ /\ entry \in Enrolled
              /\ Visited' = Visited \cup {entry.user}
              /\ Enrolled' = Enrolled /\ sessions' = sessions
           \/ /\ entry \in Enrolled /\ entry.user \in Visited
              /\ sessions' = sessions \cup {entry}
              /\ Enrolled' = Enrolled /\ Visited' = Visited
    PROVE  Listed!Next
<1>1. Listed!Enroll(entry) \/ Listed!RecordLogin(entry) \/ Listed!SignIn(entry)
  BY DEF Listed!Enroll, Listed!RecordLogin, Listed!SignIn
<1> QED BY <1>1 DEF Listed!Next, Listed!Entry

\* A row created, with an id and for an account no row has, is enrolled.
LEMMA InsertEnrolls ==
    ASSUME AccountsInv, NEW r \in Logins, Insert(r)
    PROVE  Listed!Next
<1>1. PICK l, row, id, entry :
         /\ l = login[r] /\ row = NewRow(l) /\ id = NewId
         /\ entry = [account |-> l.account, user |-> id]
  OBVIOUS
<1>2. l \in Stage \cup {Idle} /\ l.at = "inserting" /\ id \in Ids
  BY <1>1, NewIdIsFresh DEF Insert, InsertIs, AccountsInv, AccountsTypeOK
<1>3. l.account \in Account /\ entry \in [account : Account, user : Ids]
  BY <1>1, <1>2, StageFields
<1>4. /\ row.id = id /\ row.account = l.account /\ row.stamped = FALSE
      /\ EntryOf(row) = entry
  BY <1>1 DEF NewRow, EntryOf
<1>5. ~Conflicts(row, users) /\ users' = users \cup {row} /\ sessions' = sessions
  BY <1>1 DEF Insert, InsertIs
<1>6. Enrolled' = Enrolled \cup {entry}
  BY <1>4, <1>5, EntriesAndVisits, EntriesAndVisitsNext
<1>7. Visited' = Visited
  BY <1>4, <1>5, EntriesAndVisits, EntriesAndVisitsNext
<1>8. ASSUME NEW e \in Enrolled
      PROVE  e.account # entry.account /\ e.user # entry.user
  <2>1. PICK u \in users : e = EntryOf(u)
    BY EntriesAndVisits
  <2>2. u.account # row.account /\ u.id # row.id
    BY <1>5 DEF Conflicts
  <2> QED BY <1>1, <1>4, <2>1, <2>2 DEF EntryOf
<1> QED BY <1>3, <1>5, <1>6, <1>7, <1>8, TableStep

\* A row written again keeps its entry and gets a time of login.
LEMMA SaveRecordsLogin ==
    ASSUME AccountsInv, NEW r \in Logins, Save(r)
    PROVE  Listed!Next
<1>1. PICK l, row, others, entry :
         /\ l = login[r]
         /\ row = [id |-> l.id, account |-> l.account, email |-> l.email, stamped |-> TRUE]
         /\ others = users \ RowOfId(l.id)
         /\ entry = [account |-> l.account, user |-> l.id]
  OBVIOUS
<1>2. l \in Stage \cup {Idle} /\ l.at = "writing"
  BY <1>1 DEF Save, AccountsInv, AccountsTypeOK
<1>3. entry \in [account : Account, user : Ids]
  BY <1>1, <1>2, StageFields
<1>4. row.id = l.id /\ row.stamped /\ EntryOf(row) = entry /\ entry.user = l.id
  BY <1>1 DEF EntryOf
<1>5. users' = others \cup {row} /\ sessions' = sessions
  BY <1>1 DEF Save
<1>6. PICK old \in users : old.id = l.id /\ old.account = l.account
  BY <1>1, <1>2 DEF AccountsInv, LoginsKnowRows, KnowsRow, HasRow
<1>7. users = others \cup {old} /\ EntryOf(old) = entry
  <2>1. \A u \in users : u.id = l.id => u = old
    BY <1>6 DEF AccountsInv, RowsDiffer
  <2> QED BY <1>1, <1>6, <2>1 DEF RowOfId, EntryOf
<1>8. entry \in Enrolled /\ Enrolled' = Enrolled
  BY <1>4, <1>5, <1>7, EntriesAndVisits, EntriesAndVisitsNext
<1>9. Visited' = Visited \cup {entry.user}
  BY <1>4, <1>5, <1>6, <1>7, EntriesAndVisits, EntriesAndVisitsNext
<1> QED BY <1>3, <1>5, <1>8, <1>9, TableStep

\* A session is signed for a row that has its time of login.
LEMMA SignSignsIn ==
    ASSUME AccountsInv, NEW r \in Logins, Sign(r)
    PROVE  Listed!Next
<1>1. PICK l, entry : l = login[r] /\ entry = [account |-> l.account, user |-> l.id]
  OBVIOUS
<1>2. l \in Stage \cup {Idle} /\ l.at = "signing"
  BY <1>1 DEF Sign, AccountsInv, AccountsTypeOK
<1>3. entry \in [account : Account, user : Ids]
  BY <1>1, <1>2, StageFields
<1>4. users' = users /\ sessions' = sessions \cup {entry}
  BY <1>1 DEF Sign
<1>5. PICK u \in users : u.id = l.id /\ u.account = l.account /\ u.stamped
  BY <1>1, <1>2 DEF AccountsInv, LoginsKnowRows, KnowsRow, HasStampedRow
<1>6. entry \in Enrolled /\ entry.user \in Visited
  BY <1>1, <1>5, EntriesAndVisits DEF EntryOf
<1>7. Enrolled' = Enrolled /\ Visited' = Visited
  BY <1>4, EntriesAndVisits, EntriesAndVisitsNext
<1> QED BY <1>3, <1>4, <1>6, <1>7, TableStep

\* Logins (AuthService.upsertByProvider) that interleave, race and stop half way
\* behave as a directory in which an account has one user for good, and a session
\* is opened only for a user whose login is on record.
THEOREM DirectoryImplemented == AccountsSpec => ImplementsDirectory
<1>1. AccountsInit => Listed!Init
  BY DEF AccountsInit, Listed!Init, Enrolled, Visited
<1>2. AccountsInv /\ [AccountsNext]_accountsVars => [Listed!Next]_(Listed!directoryVars)
  <2> SUFFICES ASSUME AccountsInv, [AccountsNext]_accountsVars
               PROVE  [Listed!Next]_(Listed!directoryVars)
    OBVIOUS
  <2>1. CASE UNCHANGED <<users, sessions>>
    <3>1. Enrolled' = Enrolled /\ Visited' = Visited
      BY <2>1, EntriesAndVisits, EntriesAndVisitsNext
    <3> QED BY <2>1, <3>1 DEF Listed!directoryVars
  <2>2. ASSUME NEW r \in Logins, Insert(r) \/ Save(r) \/ Sign(r)
        PROVE  Listed!Next
    BY <2>2, InsertEnrolls, SaveRecordsLogin, SignSignsIn
  <2>3. \/ UNCHANGED <<users, sessions>>
        \/ \E r \in Logins : Insert(r) \/ Save(r) \/ Sign(r)
    BY DEF AccountsNext, accountsVars, CompleteOAuth, SignInAnonymous, Find, Fail
  <2> QED BY <2>1, <2>2, <2>3
<1> QED BY <1>1, <1>2, AccountsInvHolds, PTL
    DEF AccountsSpec, ImplementsDirectory, Listed!Spec

-----------------------------------------------------------------------------
(* OAuthLogin *)

Cookies ==
    [state : Nat, returnTo : Target, session : [popup : Nat, returnTo : Target]]
Answering ==
    [at : {"exchanging", "upserting", "signed", "refused", "mismatched"}, browser : Browsers,
     popup : Nat, returnTo : Target]

OAuthTypes ==
    /\ begun \in Seq([browser : Browsers, target : Target])
    /\ jar \in [Browsers -> Cookies]
    /\ callback \in [Callbacks -> Answering \cup {Done}]

\* Popup p was started in browser b, and returning to r is what it asked for,
\* or nowhere.
OwnPopup(b, p, r) ==
    /\ p \in DOMAIN begun
    /\ begun[p].browser = b
    /\ AskedIn(p, r)

\* A state cookie and a session come from a popup of the browser, and so does a
\* callback whose state was the browser's; all return where the popup asked.
\* Wherever else a cookie or a page leads, a popup of the browser asked for it.
CookiesOwn(b, cookies) ==
    /\ AskedBy(b, cookies.returnTo)
    /\ AskedBy(b, cookies.session.returnTo)
    /\ cookies.state # 0 => OwnPopup(b, cookies.state, cookies.returnTo)
    /\ cookies.session # NoSession =>
          OwnPopup(b, cookies.session.popup, cookies.session.returnTo)
AnswerOwn(c) ==
    c # Done => /\ AskedBy(c.browser, c.returnTo)
                /\ c.at # "mismatched" => OwnPopup(c.browser, c.popup, c.returnTo)

OAuthInv ==
    /\ OAuthTypes
    /\ \A b \in Browsers : CookiesOwn(b, jar[b])
    /\ \A q \in Callbacks : AnswerOwn(callback[q])

LEMMA OAuthInvInit == OAuthInit => OAuthInv
BY DEF OAuthInit, OAuthInv, OAuthTypes, NoCookies, NoSession, Session, Cookies, Target,
       CookiesOwn, AskedBy, AnswerOwn, Done

\* A start leaves the earlier popups as they were.
LEMMA StartKeepsPopups ==
    ASSUME OAuthTypes, NEW b \in Browsers, NEW target \in Target, GoogleStart(b, target)
    PROVE  /\ begun' \in Seq([browser : Browsers, target : Target])
           /\ Len(begun) \in Nat /\ Len(begun) + 1 \in DOMAIN begun'
           /\ begun'[Len(begun) + 1] = [browser |-> b, target |-> target]
           /\ \A p \in DOMAIN begun : p \in DOMAIN begun' /\ begun'[p] = begun[p]
BY DEF OAuthTypes, GoogleStart

\* What a popup vouches for it vouches for as long as it is remembered.
LEMMA KeptPopups ==
    ASSUME \A p \in DOMAIN begun : p \in DOMAIN begun' /\ begun'[p] = begun[p],
           NEW b, NEW v
    PROVE  /\ CookiesOwn(b, v) => CookiesOwn(b, v)'
           /\ AnswerOwn(v) => AnswerOwn(v)'
BY DEF CookiesOwn, AnswerOwn, OwnPopup, AskedBy, AskedIn

\* One browser's cookies change, while the popups stay.
LEMMA JarChange ==
    ASSUME OAuthInv, begun' = begun, NEW b \in Browsers, NEW cookies \in Cookies,
           CookiesOwn(b, cookies), jar' = [jar EXCEPT ![b] = cookies]
    PROVE  /\ jar' \in [Browsers -> Cookies]
           /\ \A x \in Browsers : CookiesOwn(x, jar[x])'
<1>1. jar' \in [Browsers -> Cookies]
  BY DEF OAuthInv, OAuthTypes
<1>2. ASSUME NEW x \in Browsers
      PROVE  CookiesOwn(x, jar[x])'
  <2>1. CookiesOwn(x, jar'[x])
    BY DEF OAuthInv, OAuthTypes
  <2> QED BY <2>1 DEF CookiesOwn, OwnPopup, AskedBy, AskedIn
<1> QED BY <1>1, <1>2

\* One callback changes, while the popups stay.
LEMMA CallbackChange ==
    ASSUME OAuthInv, begun' = begun, NEW q \in Callbacks, NEW c \in Answering \cup {Done},
           AnswerOwn(c), callback' = [callback EXCEPT ![q] = c]
    PROVE  /\ callback' \in [Callbacks -> Answering \cup {Done}]
           /\ \A x \in Callbacks : AnswerOwn(callback[x])'
<1>1. callback' \in [Callbacks -> Answering \cup {Done}]
  BY DEF OAuthInv, OAuthTypes
<1>2. ASSUME NEW x \in Callbacks
      PROVE  AnswerOwn(callback[x])'
  <2>1. AnswerOwn(callback'[x])
    BY DEF OAuthInv, OAuthTypes
  <2> QED BY <2>1 DEF AnswerOwn, OwnPopup, AskedBy, AskedIn
<1> QED BY <1>1, <1>2

\* The rest of the invariant stays with the variables it is about.
LEMMA SamePopups ==
    ASSUME OAuthInv, begun' = begun
    PROVE  /\ begun' \in Seq([browser : Browsers, target : Target])
           /\ jar' = jar => /\ jar' \in [Browsers -> Cookies]
                            /\ \A x \in Browsers : CookiesOwn(x, jar[x])'
           /\ callback' = callback => /\ callback' \in [Callbacks -> Answering \cup {Done}]
                                      /\ \A x \in Callbacks : AnswerOwn(callback[x])'
<1>1. ASSUME jar' = jar, NEW x \in Browsers
      PROVE  CookiesOwn(x, jar[x])'
  BY <1>1 DEF OAuthInv, CookiesOwn, OwnPopup, AskedBy, AskedIn
<1>2. ASSUME callback' = callback, NEW x \in Callbacks
      PROVE  AnswerOwn(callback[x])'
  BY <1>2 DEF OAuthInv, AnswerOwn, OwnPopup, AskedBy, AskedIn
<1>3. /\ begun' \in Seq([browser : Browsers, target : Target])
      /\ jar' = jar => jar' \in [Browsers -> Cookies]
      /\ callback' = callback => callback' \in [Callbacks -> Answering \cup {Done}]
  BY DEF OAuthInv, OAuthTypes
<1> QED BY <1>1, <1>2, <1>3

\* A callback goes to its next stage without looking at its popup again.
LEMMA NextStage ==
    ASSUME OAuthInv, NEW q \in Callbacks,
           NEW at \in {"upserting", "signed", "refused"},
           callback[q].at \in {"exchanging", "upserting"},
           Reaches(q, at), UNCHANGED <<begun, jar>>
    PROVE  OAuthInv'
<1>1. callback[q] \in Answering
  BY DEF OAuthInv, OAuthTypes, Done
<1>2. PICK c \in Answering :
         /\ c.at = at /\ c.browser = callback[q].browser
         /\ c.popup = callback[q].popup /\ c.returnTo = callback[q].returnTo
         /\ callback' = [callback EXCEPT ![q] = c]
  BY <1>1 DEF Reaches, Answering
<1>3. AnswerOwn(callback[q])
  BY DEF OAuthInv
<1>4. AnswerOwn(c)
  BY <1>2, <1>3 DEF AnswerOwn, Done
<1> QED BY <1>2, <1>4, CallbackChange, SamePopups DEF OAuthInv, OAuthTypes

\* Every step keeps the invariant.
LEMMA OAuthInvNext ==
    ASSUME OAuthInv, [OAuthNext]_oauthVars
    PROVE  OAuthInv'
<1>1. ASSUME NEW b \in Browsers, NEW target \in Target, GoogleStart(b, target)
      PROVE  OAuthInv'
  <2>1. PICK p, cookies :
           /\ p = Len(begun) + 1
           /\ cookies = SetOauthCookies(jar[b], p, target)
    OBVIOUS
  <2>2. /\ jar' = [jar EXCEPT ![b] = cookies]
        /\ callback' = callback
    BY <1>1, <2>1 DEF GoogleStart
  <2>3. /\ begun' \in Seq([browser : Browsers, target : Target])
        /\ p \in Nat \ {0} /\ p \in DOMAIN begun'
        /\ begun'[p] = [browser |-> b, target |-> target]
        /\ \A o \in DOMAIN begun : o \in DOMAIN begun' /\ begun'[o] = begun[o]
    <3>1. OAuthTypes
      BY DEF OAuthInv
    <3>2. /\ begun' \in Seq([browser : Browsers, target : Target])
          /\ Len(begun) \in Nat /\ Len(begun) + 1 \in DOMAIN begun'
          /\ begun'[Len(begun) + 1] = [browser |-> b, target |-> target]
          /\ \A o \in DOMAIN begun : o \in DOMAIN begun' /\ begun'[o] = begun[o]
      BY <1>1, <3>1, StartKeepsPopups
    <3> QED BY <2>1, <3>2
  <2>4. /\ cookies \in Cookies
        /\ cookies.state = p
        /\ cookies.session = jar[b].session
        /\ cookies.returnTo = IF target = NoTarget THEN jar[b].returnTo ELSE target
    BY <2>1, <2>3 DEF SetOauthCookies, OAuthInv, OAuthTypes, Cookies
  <2>5. OAuthTypes'
    BY <2>2, <2>3, <2>4 DEF OAuthInv, OAuthTypes
  <2>6. ASSUME NEW x \in Browsers
        PROVE  CookiesOwn(x, jar[x])'
    <3>1. PICK old, new : old = jar[x] /\ new = jar'[x]
      OBVIOUS
    <3>2. CookiesOwn(x, old)'
      BY <2>3, <3>1, KeptPopups DEF OAuthInv
    <3>3. CookiesOwn(x, new)'
      <4>1. CASE x # b
        <5>1. new = old
          BY <2>2, <3>1, <4>1 DEF OAuthInv, OAuthTypes
        <5> QED BY <3>2, <5>1
      <4>2. CASE x = b
        <5>1. new = cookies
          BY <2>2, <3>1, <4>2 DEF OAuthInv, OAuthTypes
        <5>2. OwnPopup(x, p, new.returnTo)'
          BY <2>3, <2>4, <4>2, <5>1 DEF OwnPopup, AskedIn
        <5>3. AskedBy(x, new.returnTo)'
          <6>1. new.returnTo = old.returnTo \/ (target # NoTarget /\ new.returnTo = target)
            BY <2>4, <3>1, <4>2, <5>1
          <6>2. AskedBy(x, old.returnTo)'
            BY <3>2 DEF CookiesOwn
          <6>3. AskedBy(x, target)'
            BY <2>3, <4>2 DEF AskedBy
          <6> QED BY <6>1, <6>2, <6>3
        <5> QED BY <2>4, <3>1, <3>2, <4>2, <5>1, <5>2, <5>3 DEF CookiesOwn
      <4> QED BY <4>1, <4>2
    <3> QED BY <3>1, <3>3 DEF CookiesOwn, OwnPopup, AskedBy, AskedIn
  <2>7. ASSUME NEW q \in Callbacks
        PROVE  AnswerOwn(callback[q])'
    <3>1. PICK c : c = callback[q]
      OBVIOUS
    <3>2. AnswerOwn(c)'
      BY <2>3, <3>1, KeptPopups DEF OAuthInv
    <3> QED BY <2>2, <3>1, <3>2 DEF AnswerOwn, OwnPopup, AskedBy, AskedIn
  <2> QED BY <2>5, <2>6, <2>7 DEF OAuthInv
<1>2. ASSUME NEW b \in Browsers, ForgetCookie(b) \/ Logout(b)
      PROVE  OAuthInv'
  <2>1. begun' = begun /\ callback' = callback
    BY <1>2 DEF ForgetCookie, Logout
  <2>2. jar[b] \in Cookies /\ CookiesOwn(b, jar[b])
    BY DEF OAuthInv, OAuthTypes
  <2>3. PICK cookies \in Cookies :
           CookiesOwn(b, cookies) /\ jar' = [jar EXCEPT ![b] = cookies]
    <3>1. CASE jar' = [jar EXCEPT ![b].state = 0]
      <4>1. PICK k : k = [jar[b] EXCEPT !.state = 0]
        OBVIOUS
      <4>2. /\ k \in Cookies /\ k.state = 0 /\ k.session = jar[b].session
            /\ jar' = [jar EXCEPT ![b] = k]
        BY <2>2, <3>1, <4>1 DEF Cookies
      <4>3. k.returnTo = jar[b].returnTo
        BY <2>2, <4>1 DEF Cookies
      <4> QED BY <2>2, <4>2, <4>3 DEF CookiesOwn
    <3>2. CASE jar' = [jar EXCEPT ![b].returnTo = NoTarget]
      <4>1. PICK k : k = [jar[b] EXCEPT !.returnTo = NoTarget]
        OBVIOUS
      <4>2. /\ k \in Cookies /\ k.state = jar[b].state /\ k.returnTo = NoTarget
            /\ k.session = jar[b].session
            /\ jar' = [jar EXCEPT ![b] = k]
        BY <2>2, <3>2, <4>1 DEF Cookies, Target
      <4> QED BY <2>2, <4>2 DEF CookiesOwn, OwnPopup, AskedBy, AskedIn
    <3>3. CASE jar' = [jar EXCEPT ![b] = SetSessionCookie(@, NoSession)]
      <4>1. PICK k : k = SetSessionCookie(jar[b], NoSession)
        OBVIOUS
      <4>2. /\ k \in Cookies /\ k.state = jar[b].state /\ k.returnTo = jar[b].returnTo
            /\ k.session = NoSession
            /\ jar' = [jar EXCEPT ![b] = k]
        BY <2>2, <3>3, <4>1 DEF SetSessionCookie, NoSession, Session, Cookies, Target
      <4>3. k.session.returnTo = NoTarget
        BY <4>2 DEF NoSession, Session
      <4> QED BY <2>2, <4>2, <4>3 DEF CookiesOwn, AskedBy
    <3> QED BY <1>2, <3>1, <3>2, <3>3 DEF ForgetCookie, Logout
  <2> QED BY <2>1, <2>3, JarChange, SamePopups DEF OAuthInv, OAuthTypes
<1>3. ASSUME NEW q \in Callbacks, NEW b \in Browsers, NEW p \in DOMAIN begun,
             NEW withCode \in BOOLEAN, GoogleCallback(q, b, p, withCode)
      PROVE  OAuthInv'
  <2>1. PICK c :
           c = [at |-> IF ~StateMatches(jar[b], p) THEN "mismatched"
                       ELSE IF withCode THEN "exchanging" ELSE "refused",
                browser |-> b, popup |-> p, returnTo |-> jar[b].returnTo]
    OBVIOUS
  <2>2. /\ c \in Answering
        /\ c.browser = b /\ c.popup = p /\ c.returnTo = jar[b].returnTo
        /\ c.at = "mismatched" \/ jar[b].state = p
    BY <2>1 DEF Answering, StateMatches, OAuthInv, OAuthTypes, Cookies
  <2>3. p # 0
    BY DEF OAuthInv, OAuthTypes
  <2>4. AnswerOwn(c)
    BY <2>2, <2>3 DEF AnswerOwn, OAuthInv, CookiesOwn
  <2>5. begun' = begun /\ jar' = jar /\ callback' = [callback EXCEPT ![q] = c]
    BY <1>3, <2>1 DEF GoogleCallback
  <2> QED BY <2>2, <2>4, <2>5, CallbackChange, SamePopups DEF OAuthInv, OAuthTypes
<1>4. ASSUME NEW q \in Callbacks, ExchangeAndVerify(q) \/ SignIn(q) \/ RefuseLogin(q)
      PROVE  OAuthInv'
  BY <1>4, NextStage DEF ExchangeAndVerify, SignIn, RefuseLogin
<1>5. ASSUME NEW q \in Callbacks, Respond(q)
      PROVE  OAuthInv'
  <2>1. PICK c : c = callback[q]
    OBVIOUS
  <2>2. c \in Answering /\ c # Done /\ AnswerOwn(c)
    BY <1>5, <2>1 DEF Respond, OAuthInv, OAuthTypes, Done
  <2>3. PICK b \in Browsers : b = c.browser
    BY <2>2 DEF Answering
  <2>4. jar[b] \in Cookies /\ CookiesOwn(b, jar[b])
    BY DEF OAuthInv, OAuthTypes
  <2>5. PICK cleared : cleared = ClearOauthCookies(jar[b])
    OBVIOUS
  <2>6. /\ cleared \in Cookies /\ cleared.state = 0 /\ cleared.session = jar[b].session
        /\ CookiesOwn(b, cleared)
    <3>1. cleared \in Cookies /\ cleared.state = 0 /\ cleared.session = jar[b].session
      BY <2>4, <2>5 DEF ClearOauthCookies, Cookies, Target
    <3>2. cleared.returnTo = NoTarget
      BY <2>4, <2>5 DEF ClearOauthCookies, Cookies
    <3> QED BY <2>4, <3>1, <3>2 DEF CookiesOwn, AskedBy
  <2>7. PICK signed : signed = SetSessionCookie(cleared, Session(c.popup, c.returnTo))
    OBVIOUS
  <2>8. c.at = "signed" => signed \in Cookies /\ CookiesOwn(b, signed)
    <3>1. /\ signed \in Cookies /\ signed.state = 0
          /\ signed.returnTo = cleared.returnTo
          /\ signed.session = Session(c.popup, c.returnTo)
          /\ signed.session.popup = c.popup /\ signed.session.returnTo = c.returnTo
      BY <2>2, <2>6, <2>7 DEF SetSessionCookie, Session, Cookies, Answering
    <3> QED BY <2>2, <2>3, <2>6, <3>1 DEF CookiesOwn, AnswerOwn
  <2>9. PICK cookies \in Cookies :
           CookiesOwn(b, cookies) /\ jar' = [jar EXCEPT ![b] = cookies]
    <3>1. CASE c.at # "signed"
      <4>1. jar' = [jar EXCEPT ![b] = cleared]
        BY <1>5, <2>1, <2>3, <2>5, <3>1 DEF Respond
      <4> QED BY <2>6, <4>1
    <3>2. CASE c.at = "signed"
      <4>1. jar' = [jar EXCEPT ![b] = signed]
        BY <1>5, <2>1, <2>3, <2>5, <2>7, <3>2 DEF Respond
      <4> QED BY <2>8, <3>2, <4>1
    <3> QED BY <2>2, <3>1, <3>2
  <2>10. begun' = begun /\ callback' = [callback EXCEPT ![q] = Done] /\ AnswerOwn(Done)
    BY <1>5 DEF Respond, AnswerOwn, Done
  <2> QED BY <2>9, <2>10, JarChange, CallbackChange, SamePopups DEF OAuthInv, OAuthTypes
<1>6. ASSUME NEW q \in Callbacks, LoseResponse(q)
      PROVE  OAuthInv'
  <2>1. /\ begun' = begun /\ jar' = jar
        /\ callback' = [callback EXCEPT ![q] = Done] /\ AnswerOwn(Done)
    BY <1>6 DEF LoseResponse, AnswerOwn, Done
  <2> QED BY <2>1, CallbackChange, SamePopups DEF OAuthInv, OAuthTypes
<1>7. CASE UNCHANGED oauthVars
  BY <1>7, SamePopups DEF oauthVars, OAuthInv, OAuthTypes
<1> QED BY <1>1, <1>2, <1>3, <1>4, <1>5, <1>6, <1>7 DEF OAuthNext

LEMMA OAuthInvHolds == OAuthSpec => []OAuthInv
<1>1. OAuthInv /\ [OAuthNext]_oauthVars => OAuthInv'
  BY OAuthInvNext
<1> QED BY <1>1, OAuthInvInit, PTL DEF OAuthSpec

\* A browser is only signed in by a popup it started itself (googleCallback
\* compares the state with the browser's cookie), whatever links it opens.
THEOREM OnlyOwnLogins == OAuthSpec => []SignedInByOwnLogin
<1>1. OAuthInv => SignedInByOwnLogin
  BY DEF OAuthInv, CookiesOwn, OwnPopup, SignedInByOwnLogin, SignedIn
<1> QED BY <1>1, OAuthInvHolds, PTL

\* A login that asked to return somewhere never returns elsewhere, successful or
\* refused, although setOauthCookies may leave an earlier login's cookie in place;
\* and no page of googleCallback leads where this browser never asked to go.
THEOREM ReturnsAsAsked == OAuthSpec => []ReturnsWhereAsked
<1>1. OAuthInv => ReturnsWhereAsked
  BY DEF OAuthInv, CookiesOwn, AnswerOwn, OwnPopup, ReturnsWhereAsked, SignedIn
<1> QED BY <1>1, OAuthInvHolds, PTL

-----------------------------------------------------------------------------
(* WsTokens *)

\* A name is given to one token, and names are only kept of tokens given out.
NamesDiffer ==
    /\ \A s, t \in held : s.jti = t.jti => s = t
    /\ \A e \in pending : \E t \in held : t.jti = e.jti

\* No token was issued in a life to come.
BornBefore == \A t \in held : t.life <= lives

\* Tokens and their entries end no sooner than announced, however much later
\* the second reading of the clock was and however often it was set back.
GoodAsAnnounced ==
    /\ \A t \in held : t.ws => t.issued + WsTtl <= t.exp + backs
    /\ \A t \in held, e \in pending :
          t.ws /\ e.jti = t.jti => t.issued + WsTtl <= e.exp + backs

\* An entry is there until the token is consumed or at its end ...
EntryKept ==
    \A t \in held \ consumed :
       t.ws /\ t.life = lives /\ Age < t.issued + WsTtl => EntriesOf(t) # {}

\* ... and not after it was consumed.
EntryTaken == \A t \in consumed : EntriesOf(t) = {}

\* By the clock, no token lasts longer than the login and the kinds of token
\* between them allow.
EndsByLogin ==
    \A t \in held :
        t.exp <= t.login + SessionTtl + (IF t.ws THEN WsTtl ELSE 0)

TokensInv ==
    /\ TokensTypeOK
    /\ NamesDiffer /\ BornBefore /\ GoodAsAnnounced
    /\ EntryKept /\ EntryTaken /\ EndsByLogin

LEMMA TokensInvInit == ClockInit /\ TokensInit => TokensInv
BY DEF ClockInit, TokensInit, TokensInv, TokensTypeOK, ClockTypeOK, NamesDiffer, BornBefore,
       GoodAsAnnounced, EntryKept, EntryTaken, EndsByLogin

\* A new token gets a name no other has, and so there is no entry under it.
LEMMA NewJtiIsFresh ==
    ASSUME TokensInv, FreshJti # {}
    PROVE  /\ NewJti \in Jtis
           /\ \A t \in held : t.jti # NewJti
           /\ \A e \in pending : e.jti # NewJti
<1>1. NewJti \in FreshJti
  BY DEF NewJti
<1> QED BY <1>1 DEF FreshJti, TokensInv, NamesDiffer

\* The types of what is held and kept.
LEMMA TokenTypes ==
    ASSUME TokensInv
    PROVE  /\ now \in Nat /\ backs \in Nat /\ lives \in Nat /\ Age \in Nat
           /\ \A t \in held : /\ t.exp \in Nat /\ t.issued \in Nat /\ t.life \in Nat
                              /\ t.login \in Nat /\ t.ws \in BOOLEAN
           /\ \A e \in pending : e.exp \in Nat
BY DEF TokensInv, TokensTypeOK, ClockTypeOK, Token, Age

\* Every step keeps the invariant.
LEMMA TokensInvNext ==
    ASSUME TokensInv, [TokensNext]_<<clockVars, tokensVars>>
    PROVE  TokensInv'
<1> USE TokensAssumption
<1>1. CASE LogIn
  <2>1. PICK t : t = [jti |-> NewJti, ws |-> FALSE, exp |-> now + SessionTtl,
                      issued |-> Age, life |-> lives, login |-> Age]
    OBVIOUS
  <2>2. /\ held' = held \cup {t}
        /\ UNCHANGED <<now, backs, pending, consumed, lives>>
        /\ NewJti \in Jtis
        /\ \A x \in held : x.jti # NewJti
        /\ \A e \in pending : e.jti # NewJti
    BY <1>1, <2>1, NewJtiIsFresh DEF LogIn, clockVars
  <2>3. /\ t \in Token /\ t.jti = NewJti /\ ~t.ws /\ t.life = lives
        /\ t.exp = now + SessionTtl /\ t.login = now + backs
    BY <2>1, <2>2, TokenTypes DEF Token, Age
  <2>4. TokensTypeOK'
    BY <2>2, <2>3 DEF TokensInv, TokensTypeOK, ClockTypeOK
  <2>5. NamesDiffer' /\ BornBefore'
    BY <2>2, <2>3, TokenTypes DEF TokensInv, NamesDiffer, BornBefore
  <2>6. GoodAsAnnounced'
    BY <2>2, <2>3 DEF TokensInv, GoodAsAnnounced
  <2>7. EntryKept' /\ EntryTaken'
    BY <2>2, <2>3 DEF TokensInv, EntryKept, EntryTaken, EntriesOf, Age
  <2>8. EndsByLogin'
    BY <2>2, <2>3, TokenTypes DEF TokensInv, EndsByLogin
  <2> QED BY <2>4, <2>5, <2>6, <2>7, <2>8 DEF TokensInv
<1>2. ASSUME NEW s \in held, NEW later \in {0, 1}, Issue(s, later)
      PROVE  TokensInv'
  <2>1. PICK t, kept :
           /\ t = [jti |-> NewJti, ws |-> TRUE, exp |-> now + later + WsTtl,
                   issued |-> Age, life |-> lives, login |-> s.login]
           /\ kept = [jti |-> NewJti, exp |-> now + WsTtl]
    OBVIOUS
  <2>2. /\ held' = held \cup {t} /\ pending' = pending \cup {kept}
        /\ now' = now + later /\ UNCHANGED <<backs, consumed, lives>>
        /\ NewJti \in Jtis
        /\ \A x \in held : x.jti # NewJti
        /\ \A e \in pending : e.jti # NewJti
    BY <1>2, <2>1, NewJtiIsFresh DEF Issue
  <2>3. /\ t \in Token /\ t.jti = NewJti /\ t.ws /\ t.life = lives
        /\ t.exp = now + later + WsTtl /\ t.issued = now + backs /\ t.login = s.login
        /\ kept \in [jti : Jtis, exp : Nat] /\ kept.jti = NewJti /\ kept.exp = now + WsTtl
    BY <2>1, <2>2, TokenTypes DEF Token, Age
  <2>4. TokensTypeOK'
    BY <2>2, <2>3, TokenTypes DEF TokensInv, TokensTypeOK, ClockTypeOK
  <2>5. NamesDiffer' /\ BornBefore'
    BY <2>2, <2>3, TokenTypes DEF TokensInv, NamesDiffer, BornBefore
  <2>6. GoodAsAnnounced'
    BY <2>2, <2>3, TokenTypes DEF TokensInv, GoodAsAnnounced
  <2>7. EntryKept'
    <3> SUFFICES ASSUME NEW x \in held', x \notin consumed', x.ws, x.life = lives',
                        Age' < x.issued + WsTtl
                 PROVE  \E e \in pending' : e.jti = x.jti
      BY DEF EntryKept, EntriesOf
    <3>1. CASE x = t
      BY <2>2, <2>3, <3>1
    <3>2. CASE x \in held
      <4>1. Age < x.issued + WsTtl
        BY <2>2, <3>2, TokenTypes DEF Age
      <4> QED BY <2>2, <3>2, <4>1 DEF TokensInv, EntryKept, EntriesOf
    <3> QED BY <2>2, <3>1, <3>2
  <2>8. EntryTaken'
    BY <2>2, <2>3 DEF TokensInv, TokensTypeOK, EntryTaken, EntriesOf
  <2>9. EndsByLogin'
    <3>1. ~s.ws /\ now < s.exp
      BY <1>2 DEF Issue, EntersHttp, Verifies
    <3>2. s.exp <= s.login + SessionTtl
      BY <3>1, TokenTypes DEF TokensInv, EndsByLogin
    <3>3. t.exp <= t.login + SessionTtl + WsTtl
      BY <2>3, <3>1, <3>2, TokenTypes
    <3> QED BY <2>2, <2>3, <3>3 DEF TokensInv, EndsByLogin
  <2> QED BY <2>4, <2>5, <2>6, <2>7, <2>8, <2>9 DEF TokensInv
<1>3. ASSUME NEW s \in held, ConsumeToken(s)
      PROVE  TokensInv'
  <2>1. /\ pending' = {e \in pending : e.jti # s.jti}
        /\ consumed' = consumed \cup {s}
        /\ UNCHANGED <<now, backs, held, lives>>
    BY <1>3 DEF ConsumeToken, EntriesOf, clockVars
  <2>2. TokensTypeOK' /\ NamesDiffer' /\ BornBefore' /\ GoodAsAnnounced' /\ EndsByLogin'
    BY <2>1 DEF TokensInv, TokensTypeOK, ClockTypeOK, NamesDiffer, BornBefore,
                GoodAsAnnounced, EndsByLogin
  <2>3. EntryKept'
    BY <2>1 DEF TokensInv, NamesDiffer, EntryKept, EntriesOf, Age
  <2>4. EntryTaken'
    BY <2>1 DEF TokensInv, EntryTaken, EntriesOf
  <2> QED BY <2>2, <2>3, <2>4 DEF TokensInv
<1>4. CASE SweepTokens
  <2>1. /\ pending' = {e \in pending : now < e.exp}
        /\ UNCHANGED <<now, backs, held, consumed, lives>>
    BY <1>4 DEF SweepTokens, clockVars
  <2>2. TokensTypeOK' /\ NamesDiffer' /\ BornBefore' /\ GoodAsAnnounced' /\ EndsByLogin'
    BY <2>1 DEF TokensInv, TokensTypeOK, ClockTypeOK, NamesDiffer, BornBefore,
                GoodAsAnnounced, EndsByLogin
  <2>3. EntryKept'
    <3> SUFFICES ASSUME NEW t \in held \ consumed, t.ws, t.life = lives,
                        Age < t.issued + WsTtl
                 PROVE  \E e \in pending' : e.jti = t.jti
      BY <2>1 DEF EntryKept, EntriesOf, Age
    <3>1. PICK e \in pending : e.jti = t.jti
      BY DEF TokensInv, EntryKept, EntriesOf
    <3>2. t.issued + WsTtl <= e.exp + backs
      BY <3>1 DEF TokensInv, GoodAsAnnounced
    <3>3. now < e.exp
      BY <3>2, TokenTypes DEF Age
    <3> QED BY <2>1, <3>1, <3>3
  <2>4. EntryTaken'
    BY <2>1 DEF TokensInv, EntryTaken, EntriesOf
  <2> QED BY <2>2, <2>3, <2>4 DEF TokensInv
<1>5. CASE RestartTokens
  <2>1. /\ pending' = {} /\ lives' = lives + 1
        /\ UNCHANGED <<now, backs, held, consumed>>
    BY <1>5 DEF RestartTokens, clockVars
  <2>2. \A t \in held : t.life # lives' /\ t.life <= lives'
    BY <2>1, TokenTypes DEF TokensInv, BornBefore
  <2> QED BY <2>1, <2>2, TokenTypes
          DEF TokensInv, TokensTypeOK, ClockTypeOK, NamesDiffer, BornBefore,
              GoodAsAnnounced, EntryKept, EntryTaken, EntriesOf, EndsByLogin
<1>6. CASE (Tick \/ SetBack) /\ UNCHANGED tokensVars
  <2>1. /\ now' \in Nat /\ backs' \in Nat /\ backs <= backs'
        /\ Age' \in Nat /\ Age <= Age'
        /\ UNCHANGED <<held, pending, consumed, lives>>
    BY <1>6, TokenTypes DEF Tick, SetBack, Age, tokensVars
  <2>2. /\ TokensTypeOK' /\ NamesDiffer' /\ BornBefore' /\ EntryTaken' /\ EndsByLogin'
    BY <2>1 DEF TokensInv, TokensTypeOK, ClockTypeOK, NamesDiffer, BornBefore,
                EntryTaken, EntriesOf, EndsByLogin
  <2>3. GoodAsAnnounced'
    BY <2>1, TokenTypes DEF TokensInv, GoodAsAnnounced
  <2>4. EntryKept'
    BY <2>1, TokenTypes DEF TokensInv, EntryKept, EntriesOf
  <2> QED BY <2>2, <2>3, <2>4 DEF TokensInv
<1>7. CASE UNCHANGED <<clockVars, tokensVars>>
  BY <1>7 DEF clockVars, tokensVars, TokensInv, TokensTypeOK, ClockTypeOK, NamesDiffer,
              BornBefore, GoodAsAnnounced, EntryKept, EntryTaken, EntriesOf, EndsByLogin, Age
<1> QED BY <1>1, <1>2, <1>3, <1>4, <1>5, <1>6, <1>7 DEF TokensNext, TokensStep

LEMMA TokensInvHolds == TokensSpec => []TokensInv
<1>1. TokensInv /\ [TokensNext]_<<clockVars, tokensVars>> => TokensInv'
  BY TokensInvNext
<1> QED BY <1>1, TokensInvInit, PTL DEF TokensSpec

\* WsTokenService lets a token be consumed once, and neither the sweep nor other
\* tokens nor a clock set back keep it from that while it is announced to be good.
THEOREM ConsumedJustOnce == TokensSpec => []ConsumableOnce
<1>1. TokensInv => ConsumableOnce
  <2> SUFFICES ASSUME TokensInv
               PROVE  ConsumableOnce
    OBVIOUS
  <2>1. \A t \in consumed : ~Consumable(t)
    BY DEF TokensInv, EntryTaken, Consumable
  <2>2. ASSUME NEW t \in held \ consumed, t.ws, t.life = lives, Age < t.issued + WsTtl
        PROVE  Consumable(t)
    <3>1. EntriesOf(t) # {}
      BY <2>2 DEF TokensInv, EntryKept
    <3>2. t.issued + WsTtl <= t.exp + backs
      BY <2>2 DEF TokensInv, GoodAsAnnounced
    <3>3. now < t.exp
      BY <2>2, <3>2, TokenTypes, TokensAssumption DEF Age
    <3> QED BY <2>2, <3>1, <3>3 DEF Consumable, Verifies
  <2> QED BY <2>1, <2>2 DEF ConsumableOnce
<1> QED BY <1>1, TokensInvHolds, PTL

\* No chain of session and WebSocket tokens lets anybody in, by a route or by
\* the handshake, longer after a login than both lifetimes and what the clock
\* was set back.
THEOREM EntryEndsWithLogin == TokensSpec => []EntersByLogin
<1>1. TokensInv => EntersByLogin
  <2> SUFFICES ASSUME TokensInv, NEW t \in held, now < t.exp
               PROVE  /\ ~t.ws => Age < t.login + SessionTtl + backs
                      /\ Age < t.login + SessionTtl + WsTtl + backs
    BY DEF EntersByLogin, EntersHttp, EntersSocket, Verifies
  <2>1. t.exp <= t.login + SessionTtl + (IF t.ws THEN WsTtl ELSE 0)
    BY DEF TokensInv, EndsByLogin
  <2> QED BY <2>1, TokenTypes, TokensAssumption DEF Age
<1> QED BY <1>1, TokensInvHolds, PTL
=============================================================================
