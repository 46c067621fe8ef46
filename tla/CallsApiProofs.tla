---------------------------- MODULE CallsApiProofs ----------------------------
(***************************************************************************)
(* Proofs about CallsApi, for any sets of calls, codes and users, any      *)
(* number of repeated requests and restarts, and any bound.                *)
(***************************************************************************)
EXTENDS CallsApi, CallsServiceProofs

-----------------------------------------------------------------------------
(* What a request does to the service *)

\* Requests act on the service as its own steps do.
LEMMA PerformIsStep ==
    ASSUME NEW r \in Request, NEW c \in CallIds, Perform(r, c)
    PROVE  /\ r.user \in Users /\ r.other \in Users
           /\ [Next]_vars
           /\ \/ MovesParticipant(c, r.user)
              \/ End(c, r.user)
<1>1. r.user \in Users /\ r.other \in Users
  BY DEF Request
<1> QED BY <1>1 DEF Perform, Next, MovesParticipant

\* Whatever a step records is recorded of one call, with ids from the next on.
RecordsOf(c) ==
    /\ events \subseteq events' /\ nextId <= nextId'
    /\ \A e \in events' : e \in events \/ (e.callId = c /\ e.id >= nextId)

LEMMA CreateRecords ==
    ASSUME TypeOK, NEW c \in CallIds, NEW u \in Users, NEW visibility \in CallVisibility,
           NEW invitees \in InviteeLists, NEW code \in Codes,
           CreateCall(c, u, visibility, invitees, code)
    PROVE  RecordsOf(c)
<1> DEFINE fresh == Fresh(u, invitees)
           rank(i) == Cardinality({j \in fresh : j <= i})
<1>1. nextId \in Nat
  BY DEF TypeOK
<1>2. /\ events' = events \cup {Event(nextId, c, "created", u)}
                          \cup InviteEvents(c, u, invitees)
      /\ nextId' = nextId + 1 + Cardinality(fresh)
  BY DEF CreateCall
<1>3. Cardinality(fresh) \in Nat /\ \A i \in fresh : rank(i) \in Nat
  BY FreshFinite
<1>4. \A e \in InviteEvents(c, u, invitees) :
         \E i \in fresh : e.callId = c /\ e.id = nextId + rank(i)
  BY DEF InviteEvents, Event
<1> HIDE DEF fresh, rank
<1>5. \A e \in InviteEvents(c, u, invitees) : e.callId = c /\ e.id >= nextId
  BY <1>1, <1>3, <1>4
<1> QED BY <1>1, <1>2, <1>3, <1>5 DEF RecordsOf, Event

LEMMA PerformRecords ==
    ASSUME TypeOK, NEW r \in Request, NEW c \in CallIds, Perform(r, c)
    PROVE  RecordsOf(c)
<1>1. nextId \in Nat
  BY DEF TypeOK
<1>2. CASE UNCHANGED vars
  BY <1>1, <1>2 DEF vars, RecordsOf
<1>3. ASSUME NEW type, NEW u, Record(c, type, u)
      PROVE  RecordsOf(c)
  BY <1>1, <1>3 DEF Record, Event, RecordsOf
<1>4. ASSUME NEW u, events' = events \cup AcceptEvents(c, u), nextId' = nextId + 2
      PROVE  RecordsOf(c)
  BY <1>1, <1>4 DEF AcceptEvents, Event, RecordsOf
<1> QED BY <1>2, <1>3, <1>4 DEF Perform, Invite, Accept, Join, End

\* A request opens no call, changes no code, reopens no call and touches no
\* other call than its own.
Endures(d) ==
    /\ Exists(d)' <=> Exists(d)
    /\ Exists(d) => /\ calls'[d].roomId = calls[d].roomId
                    /\ Ended(d) => Ended(d)'

LEMMA PerformEndures ==
    ASSUME TypeOK, NEW r \in Request, NEW c \in CallIds, Perform(r, c), NEW d \in CallIds
    PROVE  Endures(d) /\ (d # c => calls'[d] = calls[d])
<1>1. CASE UNCHANGED vars
  BY <1>1 DEF vars, Endures, Exists, Ended
<1>2. CASE End(c, r.user) /\ ~UNCHANGED vars
  <2>1. ~Ended(c)
    BY <1>2 DEF End
  <2>2. /\ Exists(c) /\ Exists(c)' /\ Ended(c)' /\ calls'[c].roomId = calls[c].roomId
        /\ \A i \in CallIds \ {c} : calls'[i] = calls[i]
    BY <1>2, <2>1, Closed, PerformIsStep
  <2> QED BY <2>2 DEF Endures, Exists, Ended
<1>3. CASE MovesParticipant(c, r.user) /\ ~UNCHANGED vars
  <2>1. Kept(d)
    BY <1>3, MoveKeeps, PerformIsStep
  <2>2. Endures(d)
    BY <2>1 DEF Kept, KeptFields, Endures
  <2>3. d # c => calls'[d] = calls[d]
    BY <1>3, PerformIsStep DEF MovesParticipant, Invite, Accept, Join, Leave, Enter, TypeOK
  <2> QED BY <2>2, <2>3
<1> QED BY <1>1, <1>2, <1>3, PerformIsStep

-----------------------------------------------------------------------------
(* The invariant *)

\* Ids are never drawn twice, whatever a restart forgets.
DrawnOnce == \A c \in CallIds : Exists(c) => c \in drawn

\* A request that may be repeated means a call that was there, and which the
\* address led to: the call itself, or one that carries the code.
Meaningful(r) ==
    /\ r \in Request /\ r.meant \in drawn
    /\ r.address \in CallIds => r.meant = r.address
    /\ r.address \in Codes /\ Exists(r.meant) => calls[r.meant].roomId = r.address

Strayed(r) ==
    /\ Meaningful(r) /\ r.address \in Codes
    /\ Exists(r.meant) => Ended(r.meant)

TokenEntitled(t) ==
    t.life = lives =>
        /\ \E e \in EventsOf(t.call) : e.userId = t.user /\ e.id < t.asked
        /\ \A e \in EventsOf(t.call) : e.type = "ended" => t.asked <= e.id

TokenFits(t) ==
    /\ t.asked \in Nat /\ t.life \in Nat /\ t.call \in CallIds
    /\ t.life <= lives
    /\ t.life = lives => t.asked <= nextId
    /\ TokenEntitled(t)

\* Nobody leaves over HTTP.
Inside(e) ==
    /\ e.type # "left"
    /\ e.type \in {"accepted", "joined"} => calls[e.callId].participants[e.userId] = "joined"

OnceInv == RecordedOnce /\ \A e \in events : Inside(e)

ApiInv ==
    /\ JournalInv /\ CodeIndexExact /\ OnceInv
    /\ lives \in Nat /\ drawn \subseteq CallIds
    /\ DrawnOnce
    /\ \A r \in unsure : Meaningful(r)
    /\ \A r \in strayed : Strayed(r)
    /\ \A t \in issued \cup waiting : TokenFits(t)

-----------------------------------------------------------------------------
(* What endures *)

LEMMA ServiceKept ==
    ASSUME JournalInv, CodeIndexExact, [Next]_vars
    PROVE  JournalInv' /\ CodeIndexExact'
<1>1. TypeOK /\ TypeOK'
  BY TypeStep DEF JournalInv
<1> QED BY <1>1, JournalStep, CodeIndexStep

LEMMA MeaningEndures ==
    ASSUME NEW r, Meaningful(r), drawn \subseteq drawn', Endures(r.meant)
    PROVE  Meaningful(r)'
  BY DEF Meaningful, Endures

LEMMA StrayedEndures ==
    ASSUME NEW r, Strayed(r), drawn \subseteq drawn', Endures(r.meant)
    PROVE  Strayed(r)'
<1>1. Meaningful(r)'
  BY MeaningEndures DEF Strayed
<1> QED BY <1>1 DEF Strayed, Endures

LEMMA TokensEndure ==
    ASSUME JournalInv, NEW t, TokenFits(t), lives' = lives, NEW c \in CallIds, RecordsOf(c),
           TypeOK'
    PROVE  TokenFits(t)'
<1>1. nextId \in Nat /\ nextId' \in Nat /\ nextId <= nextId'
  BY DEF JournalInv, TypeOK, RecordsOf
<1>2. \A e \in EventsOf(t.call)' : e \in EventsOf(t.call) \/ e.id >= nextId
  BY DEF EventsOf, RecordsOf
<1>3. \A e \in EventsOf(t.call) : e \in EventsOf(t.call)'
  BY DEF EventsOf, RecordsOf
<1>4. \A e \in EventsOf(t.call)' : e.id \in Nat
  BY DEF TypeOK, EventsOf, CallEvent
<1>5. t.asked \in Nat /\ t.life \in Nat /\ t.call \in CallIds /\ t.life <= lives
  BY DEF TokenFits
<1>6. ASSUME t.life = lives
      PROVE  /\ t.asked <= nextId
             /\ \E e \in EventsOf(t.call) : e.userId = t.user /\ e.id < t.asked
             /\ \A e \in EventsOf(t.call) : e.type = "ended" => t.asked <= e.id
  BY <1>6 DEF TokenFits, TokenEntitled
<1>7. ASSUME t.life = lives
      PROVE  /\ t.asked <= nextId'
             /\ \E e \in EventsOf(t.call)' : e.userId = t.user /\ e.id < t.asked
             /\ \A e \in EventsOf(t.call)' : e.type = "ended" => t.asked <= e.id
  <2>1. t.asked <= nextId'
    BY <1>1, <1>5, <1>6, <1>7
  <2>2. \A e \in EventsOf(t.call)' : e.type = "ended" => t.asked <= e.id
    BY <1>1, <1>2, <1>4, <1>5, <1>6, <1>7
  <2> QED BY <1>3, <1>6, <1>7, <2>1, <2>2
<1> QED BY <1>5, <1>7 DEF TokenFits, TokenEntitled

-----------------------------------------------------------------------------
(* Nothing is recorded twice *)

SameDeed(e, f) == e.callId = f.callId /\ e.userId = f.userId /\ e.type = f.type

LEMMA NewDeeds ==
    ASSUME RecordedOnce, NEW new, events' = events \cup new,
           \A e \in events, f \in new : ~SameDeed(e, f),
           \A e, f \in new : SameDeed(e, f) => e = f
    PROVE  RecordedOnce'
  BY DEF RecordedOnce, SameDeed

\* What is recorded of one user, when nothing of the kind was before.
LEMMA OneDeed ==
    ASSUME RecordedOnce, NEW c \in CallIds, NEW u \in Users, NEW type,
           Record(c, type, u),
           \A e \in EventsOf(c) : ~(e.userId = u /\ e.type = type)
    PROVE  RecordedOnce'
<1> DEFINE m == Event(nextId, c, type, u)
<1>1. events' = events \cup {m} /\ m.callId = c /\ m.userId = u /\ m.type = type
  BY DEF Record, Event
<1> HIDE DEF m
<1>2. \A e \in events : ~SameDeed(e, m)
  BY <1>1 DEF SameDeed, EventsOf
<1> DEFINE new == {m}
<1>3. /\ events' = events \cup new
      /\ \A e \in events, f \in new : ~SameDeed(e, f)
      /\ \A e, f \in new : e = f
  BY <1>1, <1>2
<1> HIDE DEF new
<1> QED BY <1>3, NewDeeds

LEMMA StrangerHasNoDeed ==
    ASSUME JournalInv, NEW c \in CallIds, NEW u \in Users, ~IsParticipant(c, u)
    PROVE  \A e \in EventsOf(c) : e.userId # u
  BY DEF JournalInv, StoryOf, StrangersSilent

\* Entering keeps everybody who was recorded as entering inside.
LEMMA EnterKeepsInside ==
    ASSUME TypeOK, OnceInv, NEW c \in CallIds, NEW u \in Users, Exists(c), Enter(c, u),
           \A e \in events' : e \in events \/ (e.callId = c /\ e.userId = u /\ e.type # "left")
    PROVE  \A e \in events' : Inside(e)'
<1>1. /\ calls'[c].participants = [calls[c].participants EXCEPT ![u] = "joined"]
      /\ calls[c] \in Call
      /\ \A d \in CallIds \ {c} : calls'[d] = calls[d]
  BY Entered
<1>2. /\ calls'[c].participants[u] = "joined"
      /\ \A v \in Users \ {u} : calls'[c].participants[v] = calls[c].participants[v]
  BY <1>1 DEF Call
<1>3. \A e \in events : e.callId \in CallIds /\ e.userId \in Users
  BY DEF TypeOK, CallEvent
<1> SUFFICES ASSUME NEW e \in events'
             PROVE  Inside(e)'
  OBVIOUS
<1>4. CASE e \in events
  <2>1. e.type # "left" /\ e.callId \in CallIds /\ e.userId \in Users
    BY <1>3, <1>4 DEF OnceInv, Inside
  <2>2. ASSUME e.type \in {"accepted", "joined"}
        PROVE  calls'[e.callId].participants[e.userId] = "joined"
    <3>1. calls[e.callId].participants[e.userId] = "joined"
      BY <1>4, <2>2 DEF OnceInv, Inside
    <3>2. CASE e.callId # c
      BY <1>1, <2>1, <3>1, <3>2
    <3>3. CASE e.callId = c
      BY <1>2, <2>1, <3>1, <3>3
    <3> QED BY <3>2, <3>3
  <2> QED BY <2>1, <2>2 DEF Inside
<1>5. CASE e \notin events
  BY <1>2, <1>5 DEF Inside
<1> QED BY <1>4, <1>5

LEMMA CreateOnce ==
    ASSUME JournalInv, OnceInv, NEW c \in CallIds, NEW u \in Users,
           NEW visibility \in CallVisibility, NEW invitees \in InviteeLists,
           NEW code \in Codes, CreateCall(c, u, visibility, invitees, code)
    PROVE  OnceInv'
<1> DEFINE fresh == Fresh(u, invitees)
           rank(i) == Cardinality({j \in fresh : j <= i})
           first == Event(nextId, c, "created", u)
           invited == InviteEvents(c, u, invitees)
<1>1. /\ TypeOK /\ ~Exists(c) /\ events' = events \cup ({first} \cup invited)
      /\ \A d \in CallIds \ {c} : calls'[d] = calls[d]
  BY Created DEF JournalInv, CreateCall
<1>2. \A i, k \in fresh : invitees[i] = invitees[k] => i = k
  BY FreshDiffer
<1>3. \A e \in invited : \E i \in fresh : e = Event(nextId + rank(i), c, "invited", invitees[i])
  BY DEF InviteEvents
<1>4. first.callId = c /\ first.type = "created"
  BY DEF Event
<1> HIDE DEF fresh, rank, first, invited
<1>5. \A e \in invited : e.callId = c /\ e.type = "invited"
  BY <1>3 DEF Event
<1>6. \A e, f \in invited : e.userId = f.userId => e = f
  <2> SUFFICES ASSUME NEW e \in invited, NEW f \in invited, e.userId = f.userId
               PROVE  e = f
    OBVIOUS
  <2>1. PICK i \in fresh : e = Event(nextId + rank(i), c, "invited", invitees[i])
    BY <1>3
  <2>2. PICK k \in fresh : f = Event(nextId + rank(k), c, "invited", invitees[k])
    BY <1>3
  <2>3. invitees[i] = invitees[k]
    BY <2>1, <2>2 DEF Event
  <2> QED BY <1>2, <2>1, <2>2, <2>3
<1>7. \A e \in events : e.callId # c
  BY <1>1 DEF JournalInv, StoryOf, NothingBefore, EventsOf
<1>8. RecordedOnce'
  <2> DEFINE new == {first} \cup invited
  <2>1. \A e \in events, f \in new : ~SameDeed(e, f)
    BY <1>4, <1>5, <1>7 DEF SameDeed
  <2>2. \A e, f \in new : SameDeed(e, f) => e = f
    BY <1>4, <1>5, <1>6 DEF SameDeed
  <2> HIDE DEF new
  <2>3. events' = events \cup new
    BY <1>1 DEF new
  <2> QED BY <2>1, <2>2, <2>3, NewDeeds DEF OnceInv
<1>9. \A e \in events' : Inside(e)'
  <2>1. \A e \in events : e.callId \in CallIds \ {c}
    BY <1>1, <1>7 DEF TypeOK, CallEvent
  <2> QED BY <1>1, <1>4, <1>5, <2>1 DEF OnceInv, Inside
<1> QED BY <1>8, <1>9 DEF OnceInv

LEMMA PerformOnce ==
    ASSUME JournalInv, OnceInv, NEW r \in Request, NEW c \in CallIds, Perform(r, c)
    PROVE  OnceInv'
<1>1. TypeOK /\ r.user \in Users /\ r.other \in Users
  BY PerformIsStep DEF JournalInv
<1>2. \A e \in events : e.callId \in CallIds /\ e.userId \in Users
  BY <1>1 DEF TypeOK, CallEvent
<1>3. CASE UNCHANGED vars
  BY <1>3 DEF vars, OnceInv, RecordedOnce, Inside
<1>4. CASE Invite(c, r.user, r.other) /\ ~UNCHANGED vars
  <2>1. /\ Exists(c) /\ ~IsParticipant(c, r.other) /\ Record(c, "invited", r.other)
        /\ calls' = [calls EXCEPT ![c].participants[r.other] = "invited"]
    BY <1>4 DEF Invite, Open
  <2>2. \A e \in EventsOf(c) : e.userId # r.other
    BY <1>1, <2>1, StrangerHasNoDeed
  <2>3. RecordedOnce'
    BY <1>1, <2>1, <2>2, OneDeed DEF OnceInv
  <2>4. /\ calls'[c].participants = [calls[c].participants EXCEPT ![r.other] = "invited"]
        /\ calls[c] \in Call
        /\ \A d \in CallIds \ {c} : calls'[d] = calls[d]
    <3>1. "invited" \in ParticipantStatus
      BY DEF ParticipantStatus
    <3> QED BY <1>1, <2>1, <3>1, Moved
  <2>5. \A v \in Users \ {r.other} : calls'[c].participants[v] = calls[c].participants[v]
    BY <2>4 DEF Call
  <2>6. \A e \in events : Inside(e)'
    <3> SUFFICES ASSUME NEW e \in events
                 PROVE  Inside(e)'
      OBVIOUS
    <3>1. calls'[e.callId].participants[e.userId] = calls[e.callId].participants[e.userId]
      <4>1. CASE e.callId # c
        BY <1>2, <2>4, <4>1
      <4>2. CASE e.callId = c
        BY <1>2, <2>2, <2>5, <4>2 DEF EventsOf
      <4> QED BY <4>1, <4>2
    <3> QED BY <3>1 DEF OnceInv, Inside
  <2>7. \A e \in events' : e \in events \/ e.type = "invited"
    BY <2>1 DEF Record, Event
  <2> QED BY <2>3, <2>6, <2>7 DEF OnceInv, Inside
<1>5. CASE Accept(c, r.user) /\ ~UNCHANGED vars
  <2> DEFINE a == Event(nextId, c, "accepted", r.user)
             j == Event(nextId + 1, c, "joined", r.user)
             new == {a, j}
  <2>1. /\ Exists(c) /\ Enter(c, r.user) /\ calls[c].participants[r.user] # "joined"
        /\ events' = events \cup new
    BY <1>5 DEF Accept, Open, AcceptEvents
  <2>2. /\ a.callId = c /\ a.userId = r.user /\ a.type = "accepted"
        /\ j.callId = c /\ j.userId = r.user /\ j.type = "joined"
    BY DEF Event
  <2> HIDE DEF a, j
  <2>3. \A e \in events, f \in new : ~SameDeed(e, f)
    BY <2>1, <2>2 DEF OnceInv, Inside, SameDeed
  <2>4. \A e, f \in new : SameDeed(e, f) => e = f
    BY <2>2 DEF SameDeed
  <2>5. \A e \in events' : e \in events \/ (e.callId = c /\ e.userId = r.user /\ e.type # "left")
    BY <2>1, <2>2
  <2> HIDE DEF new
  <2>6. RecordedOnce'
    BY <2>1, <2>3, <2>4, NewDeeds DEF OnceInv
  <2> QED BY <1>1, <2>1, <2>5, <2>6, EnterKeepsInside DEF OnceInv
<1>6. CASE Join(c, r.user) /\ ~UNCHANGED vars
  <2>1. /\ Exists(c) /\ ~IsParticipant(c, r.user) /\ Enter(c, r.user)
        /\ Record(c, "joined", r.user)
    BY <1>6 DEF Join, Open
  <2>2. \A e \in EventsOf(c) : e.userId # r.user
    BY <1>1, <2>1, StrangerHasNoDeed
  <2>3. RecordedOnce'
    BY <1>1, <2>1, <2>2, OneDeed DEF OnceInv
  <2>4. \A e \in events' : e \in events \/ (e.callId = c /\ e.userId = r.user /\ e.type # "left")
    BY <2>1 DEF Record, Event
  <2> QED BY <1>1, <2>1, <2>3, <2>4, EnterKeepsInside DEF OnceInv
<1>7. CASE End(c, r.user) /\ ~UNCHANGED vars
  <2>1. ~Ended(c) /\ Record(c, "ended", r.user)
    BY <1>7 DEF End
  <2>2. \A e \in EventsOf(c) : e.type # "ended"
    BY <2>1, EndIsRecorded
  <2>3. RecordedOnce'
    BY <1>1, <2>1, <2>2, OneDeed DEF OnceInv
  <2>4. \A d \in CallIds : calls'[d].participants = calls[d].participants
    <3>1. /\ calls'[c].participants = calls[c].participants
          /\ \A d \in CallIds \ {c} : calls'[d] = calls[d]
      BY <1>1, <1>7, <2>1, Closed
    <3> QED BY <3>1
  <2>5. \A e \in events' : e \in events \/ e.type = "ended"
    BY <2>1 DEF Record, Event
  <2> QED BY <1>2, <2>3, <2>4, <2>5 DEF OnceInv, Inside
<1> QED BY <1>3, <1>4, <1>5, <1>6, <1>7 DEF Perform

-----------------------------------------------------------------------------
(* The steps of the API *)

LEMMA AddressesDiffer == CallIds \cap Codes = {} /\ None \notin CallIds
  BY AddressAssumption, NoneAssumption

\* What an address leads to.
LEMMA ResolveFinds ==
    ASSUME TypeOK, CodeIndexExact, NEW address \in Address, NEW c \in CallIds,
           Resolve(address) = c
    PROVE  /\ Exists(c)
           /\ address \in CallIds => c = address
           /\ address \in Codes => /\ codeIndex[address] = c
                                   /\ ~Ended(c) /\ calls[c].roomId = address
<1>1. CASE address \in CallIds
  BY <1>1, AddressesDiffer DEF Resolve
<1>2. CASE address \in Codes
  <2>1. codeIndex[address] = c /\ address \notin CallIds
    BY <1>2, AddressesDiffer DEF Resolve
  <2> QED BY <1>2, <2>1 DEF CodeIndexExact
<1> QED BY <1>1, <1>2 DEF Address

\* A request, handled or lost, leaves the service as the invariant wants it.
LEMMA RequestKeeps ==
    ASSUME ApiInv, NEW r \in Request, NEW c \in CallIds, Perform(r, c) \/ UNCHANGED vars
    PROVE  /\ JournalInv' /\ CodeIndexExact' /\ OnceInv'
           /\ RecordsOf(c)
           /\ \A d \in CallIds : Endures(d) /\ (d # c => calls'[d] = calls[d])
<1>1. JournalInv /\ CodeIndexExact /\ OnceInv /\ TypeOK /\ nextId \in Nat
  BY DEF ApiInv, JournalInv, TypeOK
<1>2. CASE Perform(r, c)
  <2>1. [Next]_vars
    BY <1>2, PerformIsStep
  <2> QED BY <1>1, <1>2, <2>1, ServiceKept, PerformOnce, PerformRecords, PerformEndures
<1>3. CASE UNCHANGED vars
  <2>1. JournalInv' /\ CodeIndexExact'
    BY <1>1, <1>3, ServiceKept
  <2>2. OnceInv'
    BY <1>1, <1>3 DEF vars, OnceInv, RecordedOnce, Inside
  <2>3. RecordsOf(c)
    BY <1>1, <1>3 DEF vars, RecordsOf
  <2>4. \A d \in CallIds : Endures(d) /\ calls'[d] = calls[d]
    BY <1>3 DEF vars, Endures, Exists, Ended
  <2> QED BY <2>1, <2>2, <2>3, <2>4
<1> QED BY <1>2, <1>3

\* The tokens after a step that only the service and the clients' requests
\* change.
LEMMA TokensKept ==
    ASSUME ApiInv, JournalInv', NEW c \in CallIds, RecordsOf(c),
           UNCHANGED <<waiting, issued, lives>>
    PROVE  \A t \in (issued \cup waiting)' : TokenFits(t)'
<1>1. JournalInv /\ TypeOK'
  BY DEF ApiInv, JournalInv
<1>2. \A t \in issued \cup waiting : TokenFits(t)
  BY DEF ApiInv
<1> QED BY <1>1, <1>2, TokensEndure

LEMMA CreateKeeps ==
    ASSUME ApiInv, NEW c \in CallIds, NEW u \in Users, NEW visibility \in CallVisibility,
           NEW invitees \in InviteeLists, NEW code \in Codes,
           Create(c, u, visibility, invitees, code)
    PROVE  ApiInv'
<1>1. /\ JournalInv /\ CodeIndexExact /\ OnceInv /\ TypeOK
      /\ CreateCall(c, u, visibility, invitees, code) /\ c \notin drawn
      /\ drawn' = drawn \cup {c}
      /\ UNCHANGED <<waiting, issued, unsure, strayed, lives>>
  BY DEF ApiInv, JournalInv, Create
<1>2. JournalInv' /\ CodeIndexExact'
  <2>1. [Next]_vars
    BY <1>1 DEF Next
  <2> QED BY <1>1, <2>1, ServiceKept
<1>3. OnceInv'
  BY <1>1, CreateOnce
<1>4. RecordsOf(c)
  BY <1>1, CreateRecords
<1>5. \A t \in (issued \cup waiting)' : TokenFits(t)'
  BY <1>1, <1>2, <1>4, TokensKept
<1>6. \A d \in CallIds \ {c} : calls'[d] = calls[d]
  BY <1>1, Created
<1>7. \A d \in CallIds \ {c} : Endures(d) /\ (Exists(d)' <=> Exists(d))
  BY <1>6 DEF Endures, Exists, Ended
<1>8. DrawnOnce' /\ drawn' \subseteq CallIds /\ lives' \in Nat
  BY <1>1, <1>7 DEF ApiInv, DrawnOnce
<1>9. \A r : Meaningful(r) => r.meant \in CallIds \ {c}
  BY <1>1 DEF ApiInv, Meaningful
<1>10. \A r \in unsure' : Meaningful(r)'
  BY <1>1, <1>7, <1>9, MeaningEndures DEF ApiInv
<1>11. \A r \in strayed' : Strayed(r)'
  BY <1>1, <1>7, <1>9, StrayedEndures DEF ApiInv, Strayed
<1> QED BY <1>2, <1>3, <1>5, <1>8, <1>10, <1>11 DEF ApiInv

\* A step of a request, whatever it does to the requests that are remembered.
LEMMA RequestStep ==
    ASSUME ApiInv, NEW r \in Request, NEW c \in CallIds, Perform(r, c) \/ UNCHANGED vars,
           UNCHANGED <<waiting, issued, drawn, lives>>,
           \A q \in unsure' : Meaningful(q),
           \A q \in strayed' : q \in strayed \/ (q = r /\ Strayed(r) /\ r.meant # c)
    PROVE  ApiInv'
<1>1. /\ JournalInv' /\ CodeIndexExact' /\ OnceInv' /\ RecordsOf(c)
      /\ \A d \in CallIds : Endures(d) /\ (d # c => calls'[d] = calls[d])
  BY RequestKeeps
<1>2. \A t \in (issued \cup waiting)' : TokenFits(t)'
  BY <1>1, TokensKept
<1>3. DrawnOnce' /\ drawn' \subseteq CallIds /\ lives' \in Nat
  BY <1>1 DEF ApiInv, DrawnOnce, Endures
<1>4. \A q : Meaningful(q) => q.meant \in CallIds
  BY DEF ApiInv, Meaningful
<1>5. \A q \in unsure' : Meaningful(q)'
  BY <1>1, <1>4, MeaningEndures
<1>6. \A q \in strayed' : Strayed(q)
  BY DEF ApiInv
<1>7. \A q \in strayed' : Strayed(q)'
  BY <1>1, <1>4, <1>6, StrayedEndures DEF Strayed
<1> QED BY <1>1, <1>2, <1>3, <1>5, <1>7 DEF ApiInv

LEMMA SendKeeps ==
    ASSUME ApiInv, NEW r \in Request, SendRequest(r)
    PROVE  ApiInv'
<1>1. /\ TypeOK /\ CodeIndexExact /\ DrawnOnce
      /\ \A q \in unsure : Meaningful(q)
  BY DEF ApiInv, JournalInv
<1>2. r.meant \in CallIds /\ r.address \in Address /\ Resolve(r.address) = r.meant
  BY DEF SendRequest, Request
<1>3. Meaningful(r)
  BY <1>1, <1>2, ResolveFinds DEF Meaningful, DrawnOnce
<1>4. /\ Perform(r, r.meant) \/ UNCHANGED vars
      /\ unsure' \subseteq unsure \cup {r}
      /\ UNCHANGED <<waiting, issued, strayed, drawn, lives>>
  BY DEF SendRequest
<1> QED BY <1>1, <1>2, <1>3, <1>4, RequestStep

LEMMA RepeatKeeps ==
    ASSUME ApiInv, NEW r \in unsure, Repeat(r)
    PROVE  ApiInv'
<1>1. /\ TypeOK /\ CodeIndexExact /\ Meaningful(r)
      /\ \A q \in unsure : Meaningful(q)
  BY DEF ApiInv, JournalInv
<1>2. r \in Request /\ r.address \in Address /\ r.meant \in CallIds
  BY <1>1 DEF Meaningful, Request
<1>3. PICK c : /\ c = Resolve(r.address) /\ c # None /\ Perform(r, c)
               /\ strayed' = IF c # r.meant THEN strayed \cup {r} ELSE strayed
  BY DEF Repeat
<1>4. c \in CallIds
  BY <1>1, <1>2, <1>3 DEF Resolve, Address, TypeOK
<1>5. c # r.meant => Strayed(r)
  <2> SUFFICES ASSUME c # r.meant PROVE Strayed(r)
    OBVIOUS
  <2>1. /\ r.address \in CallIds => c = r.address
        /\ r.address \in Codes => codeIndex[r.address] = c
    BY <1>1, <1>2, <1>3, <1>4, ResolveFinds
  <2>2. r.address \in Codes
    BY <1>1, <1>2, <2>1 DEF Meaningful, Address
  <2>3. Exists(r.meant) => Ended(r.meant)
    BY <1>1, <1>2, <2>1, <2>2 DEF Meaningful, CodeIndexExact
  <2> QED BY <1>1, <2>2, <2>3 DEF Strayed
<1>6. unsure' \subseteq unsure /\ UNCHANGED <<waiting, issued, drawn, lives>>
  BY DEF Repeat
<1>7. \A q \in strayed' : q \in strayed \/ (q = r /\ Strayed(r) /\ r.meant # c)
  BY <1>3, <1>5
<1> QED BY <1>1, <1>2, <1>3, <1>4, <1>6, <1>7, RequestStep

\* The checks for a token leave it fit: they read what the journal tells.
LEMMA FreshTokenFits ==
    ASSUME ApiInv, NEW c \in CallIds, NEW u \in Users, Entitled(c, u)
    PROVE  TokenFits(TokenFor(u, c))
<1> DEFINE t == TokenFor(u, c)
<1>1. JournalInv /\ TypeOK /\ nextId \in Nat /\ lives \in Nat
  BY DEF ApiInv, JournalInv, TypeOK
<1>2. t.user = u /\ t.call = c /\ t.asked = nextId /\ t.life = lives
  BY DEF TokenFor
<1> HIDE DEF t
<1>3. IsParticipant(c, u) /\ ~Ended(c) /\ Exists(c)
  BY DEF Entitled, IsParticipant
<1>4. PICK e \in Moves(c, u) : TRUE
  BY <1>1, <1>3 DEF JournalInv, StoryOf, EntriesReplay
<1>5. e \in EventsOf(c) /\ e.userId = u /\ e.id < nextId
  BY <1>1, <1>4 DEF Moves, EventsOf, JournalInv, IdsGrow
<1>6. \A f \in EventsOf(c) : f.type # "ended"
  BY <1>1, <1>3, EndIsRecorded
<1>7. TokenEntitled(t)
  BY <1>2, <1>5, <1>6 DEF TokenEntitled
<1> QED BY <1>1, <1>2, <1>7 DEF TokenFits, t

\* Asking for a token, giving it out and giving up leave the service alone.
LEMMA QuietStep ==
    ASSUME ApiInv, UNCHANGED vars, UNCHANGED <<strayed, drawn, lives>>,
           unsure' \subseteq unsure,
           \A t \in (issued \cup waiting)' : TokenFits(t)
    PROVE  ApiInv'
<1>1. /\ JournalInv /\ CodeIndexExact /\ OnceInv /\ [Next]_vars
      /\ UNCHANGED <<calls, codeIndex, events, nextId>>
  BY DEF ApiInv, vars
<1>2. JournalInv' /\ CodeIndexExact'
  BY <1>1, ServiceKept
<1>3. OnceInv'
  BY <1>1 DEF OnceInv, RecordedOnce, Inside
<1>4. \A t : TokenFits(t) => TokenFits(t)'
  BY <1>1 DEF TokenFits, TokenEntitled, EventsOf
<1>5. \A r : Meaningful(r) => Meaningful(r)'
  BY <1>1 DEF Meaningful, Exists
<1>6. \A r : Strayed(r) => Strayed(r)'
  BY <1>1, <1>5 DEF Strayed, Exists, Ended
<1>7. DrawnOnce' /\ drawn' \subseteq CallIds /\ lives' \in Nat
  BY <1>1 DEF ApiInv, DrawnOnce, Exists
<1> QED BY <1>2, <1>3, <1>4, <1>5, <1>6, <1>7 DEF ApiInv

LEMMA RestartKeeps ==
    ASSUME ApiInv, Restart
    PROVE  ApiInv'
<1>1. Init'
  BY DEF Restart, Init
<1>2. /\ lives \in Nat /\ lives' = lives + 1
      /\ waiting' = {} /\ UNCHANGED <<issued, unsure, strayed, drawn>>
  BY DEF Restart, ApiInv
<1>3. \A c \in CallIds : ~Exists(c)'
  BY <1>1 DEF Init, Exists
<1>4. JournalInv' /\ CodeIndexExact' /\ OnceInv'
  <2>1. JournalInv'
    BY <1>1 DEF Init, JournalInv, TypeOK, IdsGrow, OnlyLeavingAfterEnd, StoryOf,
       NothingBefore, EntriesReplay, StatusReplays, EntersInvited, StrangersSilent,
       EventsOf, Exists, IsParticipant
  <2>2. CodeIndexExact'
    BY <1>1, <1>3, NoneAssumption DEF Init, CodeIndexExact
  <2>3. OnceInv'
    BY <1>1 DEF Init, OnceInv, RecordedOnce
  <2> QED BY <2>1, <2>2, <2>3
<1>5. DrawnOnce' /\ drawn' \subseteq CallIds /\ lives' \in Nat
  BY <1>2, <1>3 DEF ApiInv, DrawnOnce
<1>6. \A r : Meaningful(r) => Meaningful(r)'
  BY <1>2, <1>3 DEF Meaningful, ApiInv
<1>7. \A r : Strayed(r) => Strayed(r)'
  BY <1>2, <1>3, <1>6 DEF Strayed, Meaningful, ApiInv
<1>8. \A t : TokenFits(t) => TokenFits(t)'
  BY <1>2 DEF TokenFits, TokenEntitled
<1> QED BY <1>2, <1>4, <1>5, <1>6, <1>7, <1>8 DEF ApiInv

LEMMA ApiStep == ApiInv /\ [ApiNext]_<<vars, apiVars>> => ApiInv'
<1> SUFFICES ASSUME ApiInv, [ApiNext]_<<vars, apiVars>> PROVE ApiInv'
  OBVIOUS
<1>1. \A t \in issued \cup waiting : TokenFits(t)
  BY DEF ApiInv
<1>2. CASE UNCHANGED <<vars, apiVars>>
  BY <1>1, <1>2, QuietStep DEF apiVars
<1>3. ASSUME NEW r \in unsure, GiveUp(r)
      PROVE  ApiInv'
  BY <1>1, <1>3, QuietStep DEF GiveUp
<1>4. ASSUME NEW u \in Users, NEW address \in Address, AskToken(u, address)
      PROVE  ApiInv'
  <2>1. PICK c : /\ c = Resolve(address) /\ c # None /\ Entitled(c, u)
                 /\ waiting' = waiting \cup {TokenFor(u, c)}
                 /\ UNCHANGED <<vars, issued, unsure, strayed, drawn, lives>>
    BY <1>4 DEF AskToken
  <2>2. c \in CallIds
    BY <2>1 DEF Resolve, Address, ApiInv, JournalInv, TypeOK
  <2>3. TokenFits(TokenFor(u, c))
    BY <2>1, <2>2, FreshTokenFits
  <2> QED BY <1>1, <2>1, <2>3, QuietStep
<1>5. ASSUME NEW t \in waiting, IssueToken(t)
      PROVE  ApiInv'
  <2>1. /\ (issued \cup waiting)' \subseteq issued \cup waiting
        /\ UNCHANGED <<vars, unsure, strayed, drawn, lives>>
    BY <1>5 DEF IssueToken
  <2> QED BY <1>1, <2>1, QuietStep
<1>6. CASE Restart
  BY <1>6, RestartKeeps
<1>7. ASSUME NEW c \in CallIds, NEW u \in Users, NEW visibility \in CallVisibility,
             NEW invitees \in InviteeLists, NEW code \in Codes,
             Create(c, u, visibility, invitees, code)
      PROVE  ApiInv'
  BY <1>7, CreateKeeps
<1>8. ASSUME NEW r \in Request, SendRequest(r)
      PROVE  ApiInv'
  BY <1>8, SendKeeps
<1>9. ASSUME NEW r \in unsure, Repeat(r)
      PROVE  ApiInv'
  BY <1>9, RepeatKeeps
<1> QED
  BY <1>2, <1>3, <1>4, <1>5, <1>6, <1>7, <1>8, <1>9 DEF ApiNext

LEMMA ApiAlways == ApiSpec => []ApiInv
<1>1. ApiInit => ApiInv
  <2> SUFFICES ASSUME ApiInit PROVE ApiInv
    OBVIOUS
  <2>1. Init /\ \A c \in CallIds : ~Exists(c)
    BY DEF ApiInit, Init, Exists
  <2>2. JournalInv
    BY <2>1 DEF Init, JournalInv, TypeOK, IdsGrow, OnlyLeavingAfterEnd, StoryOf,
       NothingBefore, EntriesReplay, StatusReplays, EntersInvited, StrangersSilent,
       EventsOf, Exists, IsParticipant
  <2>3. CodeIndexExact
    BY <2>1, NoneAssumption DEF Init, CodeIndexExact
  <2>4. OnceInv
    BY <2>1 DEF Init, OnceInv, RecordedOnce
  <2> QED BY <2>1, <2>2, <2>3, <2>4 DEF ApiInit, ApiInv, DrawnOnce
<1> QED
  BY <1>1, ApiStep, PTL DEF ApiSpec

-----------------------------------------------------------------------------

\* However often and whenever clients repeat their requests, and however often
\* the process restarts, what a user does to a call is recorded once.
THEOREM NothingRecordedTwice == ApiSpec => []RecordedOnce
<1>1. ApiInv => RecordedOnce
  BY DEF ApiInv, OnceInv
<1> QED
  BY <1>1, ApiAlways, PTL

\* A repeated request reaches another call than the one it meant only by a code
\* whose call has ended or been forgotten.
THEOREM StraysOnlyByCode == ApiSpec => []StrayOnlyByFreedCode
<1>1. ApiInv => StrayOnlyByFreedCode
  BY DEF ApiInv, Strayed, StrayOnlyByFreedCode
<1> QED
  BY <1>1, ApiAlways, PTL

\* Tokens go to users who were in the call, before its end, when they asked,
\* although the signature is awaited after the checks.
THEOREM TokensEarned == ApiSpec => []TokensWereEntitled
<1>1. ApiInv => TokensWereEntitled
  BY DEF ApiInv, TokenFits, TokenEntitled, TokensWereEntitled
<1> QED
  BY <1>1, ApiAlways, PTL

\* What is proved of the service survives the API and the crashes: the index of
\* codes stays exact, the journal tells the state, nothing but leaving follows an
\* end, and private calls are entered by invitation, whatever is repeated,
\* misdirected or forgotten.
THEOREM ServiceSurvives ==
    ApiSpec => [](/\ TypeOK /\ CodeIndexExact /\ JournalReplaysState
                  /\ OnlyLeavingAfterEnd /\ PrivateByInvitation)
<1>1. ApiInv => TypeOK /\ CodeIndexExact /\ OnlyLeavingAfterEnd
  BY DEF ApiInv, JournalInv
<1>2. ApiInv => JournalReplaysState
  BY DEF ApiInv, JournalInv, JournalReplaysState, StoryOf, NothingBefore, EntriesReplay,
     StatusReplays
<1>3. ApiInv => PrivateByInvitation
  BY DEF ApiInv, JournalInv, PrivateByInvitation, StoryOf, EntersInvited, StartsInvited
<1> QED
  BY <1>1, <1>2, <1>3, ApiAlways, PTL

-----------------------------------------------------------------------------
(* The life cycle over HTTP *)

\* The steps of the API, but for a restart, are steps of the service.
LEMMA ApiIsStep ==
    ASSUME ApiInv, [ApiNext]_<<vars, apiVars>>
    PROVE  [Next]_vars \/ Restart
<1>1. ASSUME NEW c \in CallIds, NEW u \in Users, NEW visibility \in CallVisibility,
             NEW invitees \in InviteeLists, NEW code \in Codes,
             Create(c, u, visibility, invitees, code)
      PROVE  [Next]_vars
  BY <1>1 DEF Create, Next
<1>2. ASSUME NEW r \in Request, SendRequest(r)
      PROVE  [Next]_vars
  <2>1. r.meant \in CallIds
    BY DEF Request
  <2>2. Perform(r, r.meant) \/ UNCHANGED vars
    BY <1>2 DEF SendRequest
  <2> QED BY <2>1, <2>2, PerformIsStep
<1>3. ASSUME NEW r \in unsure, Repeat(r)
      PROVE  [Next]_vars
  <2>1. PICK c : c = Resolve(r.address) /\ c # None /\ Perform(r, c)
    BY <1>3 DEF Repeat
  <2>2. c \in CallIds /\ r \in Request
    BY <2>1 DEF ApiInv, JournalInv, TypeOK, Meaningful, Resolve
  <2> QED BY <2>1, <2>2, PerformIsStep
<1>4. ASSUME NEW r, GiveUp(r)
      PROVE  UNCHANGED vars
  BY <1>4 DEF GiveUp
<1>5. ASSUME NEW u, NEW address, AskToken(u, address)
      PROVE  UNCHANGED vars
  BY <1>5 DEF AskToken
<1>6. ASSUME NEW t, IssueToken(t)
      PROVE  UNCHANGED vars
  BY <1>6 DEF IssueToken
<1> QED BY <1>1, <1>2, <1>3, <1>4, <1>5, <1>6 DEF ApiNext

\* A restart takes the life cycle back to its beginning, and nothing else does.
LifecycleBetweenRestarts ==
    /\ Lifecycle!Init
    /\ [][Lifecycle!Next \/ (Restart /\ Lifecycle!Init')]_(Lifecycle!vars)

LEMMA RestartBegins == Restart => Lifecycle!Init'
  BY DEF Restart, Lifecycle!Init, PhaseOf, RosterOf, PresentIn, IsParticipant, Exists

LEMMA ApiLifecycleStep ==
    ApiInv /\ [ApiNext]_<<vars, apiVars>>
        => [Lifecycle!Next \/ (Restart /\ Lifecycle!Init')]_(Lifecycle!vars)
<1> SUFFICES ASSUME ApiInv, [ApiNext]_<<vars, apiVars>>
             PROVE  [Lifecycle!Next \/ (Restart /\ Lifecycle!Init')]_(Lifecycle!vars)
  OBVIOUS
<1>1. CASE [Next]_vars
  <2>1. TypeOK /\ CodeIndexExact
    BY DEF ApiInv, JournalInv
  <2> QED BY <1>1, <2>1, LifecycleStep
<1>2. CASE Restart
  BY <1>2, RestartBegins
<1> QED BY <1>1, <1>2, ApiIsStep

\* Between two restarts, requests that are lost, repeated and misdirected take
\* the calls through the life cycle the service promises, and through nothing
\* else: no repetition reopens, re-creates or forgets a call.
THEOREM ApiKeepsLifecycle == ApiSpec => LifecycleBetweenRestarts
<1>1. ApiInit => Lifecycle!Init
  BY DEF ApiInit, Init, Lifecycle!Init, PhaseOf, RosterOf, PresentIn, IsParticipant, Exists
<1> QED
  BY <1>1, ApiLifecycleStep, ApiAlways, PTL DEF ApiSpec, LifecycleBetweenRestarts
=============================================================================
