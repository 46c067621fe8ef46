------------------------- MODULE CallsServiceProofs -------------------------
(***************************************************************************)
(* Proofs about CallsService, for any sets of calls, codes and users and   *)
(* any bound on the journal.                                               *)
(***************************************************************************)
EXTENDS CallsService, FiniteSetTheorems, TLAPS

-----------------------------------------------------------------------------
(* Facts about the helpers *)

\* The positions createCall acts on are finitely many, so the number of
\* invitations it records, and the rank of each, are natural numbers.
LEMMA FreshFinite ==
    ASSUME NEW invitees \in InviteeLists, NEW creator
    PROVE  /\ IsFiniteSet(Fresh(creator, invitees))
           /\ Cardinality(Fresh(creator, invitees)) \in Nat
           /\ \A i \in Fresh(creator, invitees) : invitees[i] \in Users
           /\ \A i : /\ IsFiniteSet({j \in Fresh(creator, invitees) : j <= i})
                     /\ Cardinality({j \in Fresh(creator, invitees) : j <= i}) \in Nat
<1> DEFINE fresh == Fresh(creator, invitees)
<1>1. invitees \in Seq(Users)
  BY InviteesAssumption
<1>2. fresh \subseteq 1 .. Len(invitees) /\ Len(invitees) \in Nat
  BY <1>1 DEF Fresh
<1>3. IsFiniteSet(fresh)
  <2>1. IsFiniteSet(1 .. Len(invitees))
    BY <1>2, FS_Interval
  <2> QED BY <1>2, <2>1, FS_Subset
<1>4. \A i : IsFiniteSet({j \in fresh : j <= i})
  BY <1>3, FS_Subset
<1>5. Cardinality(fresh) \in Nat
  BY <1>3, FS_CardinalityType
<1>6. \A i : Cardinality({j \in fresh : j <= i}) \in Nat
  BY <1>4, FS_CardinalityType
<1>7. \A i \in fresh : invitees[i] \in Users
  BY <1>1, <1>2
<1> QED
  BY <1>3, <1>4, <1>5, <1>6, <1>7

\* createCall invites nobody twice, and not the creator.
LEMMA FreshDiffer ==
    ASSUME NEW invitees \in InviteeLists, NEW creator
    PROVE  /\ \A i \in Fresh(creator, invitees) : invitees[i] # creator
           /\ \A i, k \in Fresh(creator, invitees) : invitees[i] = invitees[k] => i = k
<1> DEFINE fresh == Fresh(creator, invitees)
<1>1. invitees \in Seq(Users)
  BY InviteesAssumption
<1>2. fresh \subseteq Int
  BY <1>1 DEF Fresh
<1>3. \A i \in fresh : i \in DOMAIN invitees /\ invitees[i] # creator
  BY DEF Fresh
<1>4. ASSUME NEW i \in fresh, NEW k \in fresh, i < k
      PROVE  invitees[i] # invitees[k]
  <2>1. i \in 1 .. k - 1
    BY <1>1, <1>3, <1>4
  <2> QED BY <2>1 DEF Fresh
<1> HIDE DEF fresh
<1>5. ASSUME NEW i \in fresh, NEW k \in fresh, invitees[i] = invitees[k]
      PROVE  i = k
  <2>1. ~(i < k) /\ ~(k < i)
    BY <1>4, <1>5
  <2> QED BY <1>2, <2>1
<1> QED BY <1>3, <1>5 DEF fresh

\* Under the type invariant the calls that exist are those holding a call.
LEMMA ExistsIsCall ==
    ASSUME TypeOK, NEW c \in CallIds
    PROVE  Exists(c) <=> calls[c] \in Call
  BY NoneAssumption DEF TypeOK, Exists

-----------------------------------------------------------------------------
(* Types *)

\* Every step keeps the shape of the maps and of the journal.
LEMMA TypeStep == TypeOK /\ [Next]_vars => TypeOK'
<1> SUFFICES ASSUME TypeOK, [Next]_vars PROVE TypeOK'
  OBVIOUS
<1> USE DEF TypeOK
<1>1. ASSUME NEW c \in CallIds, NEW u \in Users, NEW visibility \in CallVisibility,
             NEW invitees \in InviteeLists, NEW code \in Codes,
             CreateCall(c, u, visibility, invitees, code)
      PROVE  TypeOK'
  <2> DEFINE fresh == Fresh(u, invitees)
             invited == {invitees[i] : i \in fresh}
  <2>1. /\ Cardinality(fresh) \in Nat
        /\ \A i \in fresh : invitees[i] \in Users
        /\ \A i : Cardinality({j \in fresh : j <= i}) \in Nat
    BY FreshFinite
  <2>2. calls' \in [CallIds -> Call \cup {None}]
    BY <1>1 DEF CreateCall, Call, CallStatus, ParticipantStatus
  <2>3. codeIndex' \in [Codes -> CallIds \cup {None}]
    BY <1>1 DEF CreateCall, Reservable
  <2>4. nextId' \in Nat
    BY <1>1, <2>1 DEF CreateCall
  <2>5. Event(nextId, c, "created", u) \in CallEvent
    BY DEF Event, CallEvent, EventType
  <2>6. InviteEvents(c, u, invitees) \subseteq CallEvent
    <3>1. ASSUME NEW i \in fresh
          PROVE  Event(nextId + Cardinality({j \in fresh : j <= i}), c, "invited",
                       invitees[i]) \in CallEvent
      <4>1. nextId + Cardinality({j \in fresh : j <= i}) \in Nat
        BY <2>1
      <4>2. invitees[i] \in Users
        BY <2>1
      <4> HIDE DEF fresh
      <4> QED BY <4>1, <4>2 DEF Event, CallEvent, EventType
    <3> QED BY <3>1 DEF InviteEvents
  <2>7. events' \subseteq CallEvent
    BY <1>1, <2>5, <2>6 DEF CreateCall, Reservable
  <2> QED BY <2>2, <2>3, <2>4, <2>7
<1>2. ASSUME NEW c \in CallIds, NEW u \in Users, NEW type \in EventType, Record(c, type, u)
      PROVE  events' \subseteq CallEvent /\ nextId' \in Nat
  BY <1>2 DEF Record, Event, CallEvent
<1>3. ASSUME NEW c \in CallIds, NEW u \in Users, NEW status \in ParticipantStatus,
             Exists(c), calls' = [calls EXCEPT ![c].participants[u] = status]
      PROVE  calls' \in [CallIds -> Call \cup {None}]
  BY <1>3 DEF Exists, Call
<1>4. ASSUME NEW c \in CallIds, NEW u \in Users, NEW invitee \in Users, Invite(c, u, invitee)
      PROVE  TypeOK'
  BY <1>2, <1>3, <1>4 DEF Invite, Open, vars, EventType, ParticipantStatus
<1>5. ASSUME NEW c \in CallIds, NEW u \in Users, Exists(c), Enter(c, u)
      PROVE  calls' \in [CallIds -> Call \cup {None}]
  <2> DEFINE entered == [calls[c] EXCEPT !.participants[u] = "joined", !.status = "active"]
  <2>1. calls[c] \in Call
    BY <1>5, ExistsIsCall
  <2>2. entered \in Call
    BY <2>1 DEF Call, CallStatus, ParticipantStatus
  <2>3. calls' = [calls EXCEPT ![c] = entered]
    BY <1>5 DEF Enter
  <2> HIDE DEF entered
  <2> QED BY <2>2, <2>3
<1>6. ASSUME NEW c \in CallIds, NEW u \in Users, Accept(c, u)
      PROVE  TypeOK'
  <2>1. CASE UNCHANGED vars
    BY <2>1 DEF vars
  <2>2. CASE ~UNCHANGED vars
    <3>1. AcceptEvents(c, u) \subseteq CallEvent
      BY DEF AcceptEvents, Event, CallEvent, EventType
    <3> QED BY <1>5, <1>6, <2>2, <3>1 DEF Accept, Open
  <2> QED BY <2>1, <2>2
<1>7. ASSUME NEW c \in CallIds, NEW u \in Users, Join(c, u)
      PROVE  TypeOK'
  BY <1>2, <1>5, <1>7 DEF Join, Open, vars, EventType
<1>8. ASSUME NEW c \in CallIds, NEW u \in Users, Leave(c, u)
      PROVE  TypeOK'
  BY <1>2, <1>3, <1>8 DEF Leave, IsParticipant, vars, EventType, ParticipantStatus
<1>9. ASSUME NEW c \in CallIds, NEW u \in Users, End(c, u)
      PROVE  TypeOK'
  <2>1. CASE UNCHANGED vars
    BY <2>1 DEF vars
  <2>2. CASE ~UNCHANGED vars
    <3>1. calls' \in [CallIds -> Call \cup {None}]
      BY <1>9, <2>2 DEF End, IsParticipant, Exists, Call, CallStatus
    <3> QED BY <1>2, <1>9, <2>2, <3>1 DEF End, EventType
  <2> QED BY <2>1, <2>2
<1>10. CASE UNCHANGED vars
  BY <1>10 DEF vars
<1> QED
  BY <1>1, <1>4, <1>6, <1>7, <1>8, <1>9, <1>10 DEF Next

\* The state of the service always has its declared shape.
THEOREM TypeCorrect == Spec => []TypeOK
<1>1. Init => TypeOK
  BY DEF Init, TypeOK
<1> QED
  BY <1>1, TypeStep, PTL DEF Spec

-----------------------------------------------------------------------------
(* What each kind of step leaves in the map of calls *)

\* A step that rewrites the entry of call c leaves the other entries alone.
LEMMA Rewritten ==
    ASSUME TypeOK, NEW c \in CallIds, NEW call \in Call, calls' = [calls EXCEPT ![c] = call]
    PROVE  /\ calls'[c] = call /\ Exists(c)'
           /\ \A d \in CallIds \ {c} : calls'[d] = calls[d]
<1>1. calls'[c] = call /\ \A d \in CallIds \ {c} : calls'[d] = calls[d]
  BY DEF TypeOK
<1> QED BY <1>1, NoneAssumption DEF Exists

\* The fields of a call that nothing after createCall but end writes.
KeptFields(c) ==
    /\ calls'[c].roomId = calls[c].roomId
    /\ calls'[c].visibility = calls[c].visibility
    /\ calls'[c].creatorId = calls[c].creatorId
    /\ calls'[c].endedBy = calls[c].endedBy

\* A change of one participant's status.
LEMMA Moved ==
    ASSUME TypeOK, NEW c \in CallIds, NEW v \in Users, NEW status \in ParticipantStatus,
           Exists(c), calls' = [calls EXCEPT ![c].participants[v] = status]
    PROVE  /\ calls'[c].participants = [calls[c].participants EXCEPT ![v] = status]
           /\ calls'[c].status = calls[c].status
           /\ KeptFields(c)
           /\ calls[c] \in Call /\ calls'[c] \in Call
           /\ Exists(c)'
           /\ \A d \in CallIds \ {c} : calls'[d] = calls[d]
<1> DEFINE call == [calls[c] EXCEPT !.participants[v] = status]
<1>1. calls[c] \in Call
  BY ExistsIsCall
<1>2. /\ call \in Call
      /\ call.participants = [calls[c].participants EXCEPT ![v] = status]
      /\ call.status = calls[c].status
      /\ call.roomId = calls[c].roomId /\ call.visibility = calls[c].visibility
      /\ call.creatorId = calls[c].creatorId /\ call.endedBy = calls[c].endedBy
  BY <1>1 DEF Call
<1>3. calls' = [calls EXCEPT ![c] = call]
  OBVIOUS
<1> HIDE DEF call
<1>4. calls'[c] = call /\ Exists(c)' /\ \A d \in CallIds \ {c} : calls'[d] = calls[d]
  BY <1>2, <1>3, Rewritten
<1> QED BY <1>1, <1>2, <1>4 DEF KeptFields

\* Somebody enters: the status becomes joined and the call active.
LEMMA Entered ==
    ASSUME TypeOK, NEW c \in CallIds, NEW u \in Users, Exists(c), Enter(c, u)
    PROVE  /\ calls'[c].participants = [calls[c].participants EXCEPT ![u] = "joined"]
           /\ calls'[c].status = "active"
           /\ KeptFields(c)
           /\ calls[c] \in Call /\ calls'[c] \in Call
           /\ Exists(c)'
           /\ \A d \in CallIds \ {c} : calls'[d] = calls[d]
<1> DEFINE call == [calls[c] EXCEPT !.participants[u] = "joined", !.status = "active"]
<1>1. calls[c] \in Call
  BY ExistsIsCall
<1>2. /\ call \in Call
      /\ call.participants = [calls[c].participants EXCEPT ![u] = "joined"]
      /\ call.status = "active"
      /\ call.roomId = calls[c].roomId /\ call.visibility = calls[c].visibility
      /\ call.creatorId = calls[c].creatorId /\ call.endedBy = calls[c].endedBy
  BY <1>1 DEF Call, CallStatus, ParticipantStatus
<1>3. calls' = [calls EXCEPT ![c] = call]
  BY DEF Enter
<1> HIDE DEF call
<1>4. calls'[c] = call /\ Exists(c)' /\ \A d \in CallIds \ {c} : calls'[d] = calls[d]
  BY <1>2, <1>3, Rewritten
<1> QED BY <1>1, <1>2, <1>4 DEF KeptFields

\* What a step of createCall leaves in the map of calls.
LEMMA Created ==
    ASSUME TypeOK, NEW c \in CallIds, NEW u \in Users,
           NEW visibility \in CallVisibility, NEW invitees \in InviteeLists,
           NEW code \in Codes, CreateCall(c, u, visibility, invitees, code)
    PROVE  /\ ~Exists(c) /\ Exists(c)' /\ ~Ended(c)'
           /\ calls'[c].status = "pending"
           /\ calls'[c].roomId = code
           /\ calls'[c].creatorId = u
           /\ \A v \in Users :
                 calls'[c].participants[v] =
                    IF v = u THEN "joined"
                    ELSE IF \E i \in Fresh(u, invitees) : invitees[i] = v THEN "invited"
                    ELSE "absent"
           /\ \A d \in CallIds \ {c} : calls'[d] = calls[d]
<1> DEFINE parts ==
        [v \in Users |-> IF v = u THEN "joined"
                         ELSE IF v \in {invitees[i] : i \in Fresh(u, invitees)}
                         THEN "invited" ELSE "absent"]
           call == [roomId |-> code, status |-> "pending", visibility |-> visibility,
                    creatorId |-> u, participants |-> parts, endedBy |-> None]
<1>1. ~Exists(c) /\ calls' = [calls EXCEPT ![c] = call]
  BY DEF CreateCall, Reservable
<1>2. parts \in [Users -> ParticipantStatus]
  BY DEF ParticipantStatus
<1> HIDE DEF parts
<1>3. call \in Call
  BY <1>2 DEF Call, CallStatus
<1>4. calls'[c] = call /\ Exists(c)' /\ \A d \in CallIds \ {c} : calls'[d] = calls[d]
  BY <1>1, <1>3, Rewritten
<1>5. \A v \in Users : parts[v] = IF v = u THEN "joined"
                                ELSE IF \E i \in Fresh(u, invitees) : invitees[i] = v
                                THEN "invited" ELSE "absent"
  BY DEF parts
<1> QED BY <1>1, <1>4, <1>5 DEF Ended

\* What the first end of a call leaves in the maps.
LEMMA Closed ==
    ASSUME TypeOK, NEW c \in CallIds, NEW u \in Users, End(c, u), ~Ended(c)
    PROVE  /\ Exists(c) /\ Exists(c)' /\ Ended(c)'
           /\ calls'[c].roomId = calls[c].roomId
           /\ calls'[c].participants = calls[c].participants
           /\ calls'[c].visibility = calls[c].visibility
           /\ calls'[c].creatorId = calls[c].creatorId
           /\ calls'[c].endedBy = u
           /\ \A d \in CallIds \ {c} : calls'[d] = calls[d]
           /\ codeIndex' = [codeIndex EXCEPT ![calls[c].roomId] = None]
<1> DEFINE call == [calls[c] EXCEPT !.status = "ended", !.endedBy = u]
<1>1. /\ Exists(c) /\ calls' = [calls EXCEPT ![c] = call]
      /\ codeIndex' = [codeIndex EXCEPT ![calls[c].roomId] = None]
  BY DEF End, IsParticipant
<1>2. calls[c] \in Call
  BY <1>1, ExistsIsCall
<1>3. call \in Call /\ call.status = "ended" /\ call.endedBy = u
      /\ call.roomId = calls[c].roomId /\ call.participants = calls[c].participants
      /\ call.visibility = calls[c].visibility /\ call.creatorId = calls[c].creatorId
  BY <1>2 DEF Call, CallStatus
<1> HIDE DEF call
<1>4. calls'[c] = call /\ Exists(c)' /\ \A d \in CallIds \ {c} : calls'[d] = calls[d]
  BY <1>1, <1>3, Rewritten
<1> QED BY <1>1, <1>3, <1>4 DEF Ended

-----------------------------------------------------------------------------
(* The room code index *)

\* What the operations on participants leave alone in call d.
Kept(d) ==
    /\ Exists(d)' <=> Exists(d)
    /\ Exists(d) => KeptFields(d) /\ (Ended(d)' <=> Ended(d))

MovesParticipant(c, u) ==
    (\E invitee \in Users : Invite(c, u, invitee)) \/ Accept(c, u) \/ Join(c, u) \/ Leave(c, u)

\* Inviting, accepting, joining and leaving neither open nor close a call nor
\* touch the code it carries, and leave the index alone.
LEMMA MoveKeeps ==
    ASSUME TypeOK, NEW c \in CallIds, NEW u \in Users, MovesParticipant(c, u)
    PROVE  codeIndex' = codeIndex /\ \A d \in CallIds : Kept(d)
<1>1. CASE UNCHANGED vars
  BY <1>1 DEF vars, Kept, KeptFields, Exists, Ended
<1>2. ASSUME NEW v \in Users, NEW status \in ParticipantStatus, Exists(c),
             calls' = [calls EXCEPT ![c].participants[v] = status]
      PROVE  \A d \in CallIds : Kept(d)
  <2>1. Kept(c)
    BY <1>2, Moved DEF Kept, Ended
  <2>2. \A d \in CallIds \ {c} : calls'[d] = calls[d]
    BY <1>2, Moved
  <2>3. \A d \in CallIds \ {c} : Kept(d)
    BY <2>2 DEF Kept, KeptFields, Ended, Exists
  <2> QED BY <2>1, <2>3
<1>3. ASSUME Open(c), Enter(c, u)
      PROVE  \A d \in CallIds : Kept(d)
  <2>1. Kept(c)
    BY <1>3, Entered DEF Kept, Open, Ended
  <2>2. \A d \in CallIds \ {c} : calls'[d] = calls[d]
    BY <1>3, Entered DEF Open
  <2>3. \A d \in CallIds \ {c} : Kept(d)
    BY <2>2 DEF Kept, KeptFields, Ended, Exists
  <2> QED BY <2>1, <2>3
<1>4. CASE ~UNCHANGED vars
  BY <1>2, <1>3, <1>4 DEF MovesParticipant, Invite, Accept, Join, Leave, Open, IsParticipant,
     ParticipantStatus
<1> QED BY <1>1, <1>4

\* Every step keeps the index exact.  End is where it could break: the entry
\* it deletes by room code is the entry of the call it ends, because the index
\* was exact and the call still open.
LEMMA CodeIndexStep == TypeOK /\ TypeOK' /\ CodeIndexExact /\ [Next]_vars => CodeIndexExact'
<1> SUFFICES ASSUME TypeOK, TypeOK', CodeIndexExact, [Next]_vars
             PROVE  CodeIndexExact'
  OBVIOUS
<1>1. ASSUME NEW c \in CallIds, NEW u \in Users, NEW visibility \in CallVisibility,
             NEW invitees \in InviteeLists, NEW code \in Codes,
             CreateCall(c, u, visibility, invitees, code)
      PROVE  CodeIndexExact'
  <2>1. /\ Exists(c)' /\ ~Ended(c)' /\ calls'[c].roomId = code
        /\ \A d \in CallIds \ {c} : calls'[d] = calls[d]
    BY <1>1, Created
  <2>2. ~Exists(c) /\ codeIndex[code] = None /\ codeIndex' = [codeIndex EXCEPT ![code] = c]
    BY <1>1 DEF CreateCall, Reservable
  <2> QED BY <2>1, <2>2, NoneAssumption DEF CodeIndexExact, TypeOK, Exists, Ended
<1>2. ASSUME NEW c \in CallIds, NEW u \in Users, MovesParticipant(c, u)
      PROVE  CodeIndexExact'
  BY <1>2, MoveKeeps DEF CodeIndexExact, Kept, KeptFields
<1>3. ASSUME NEW c \in CallIds, NEW u \in Users, End(c, u), ~Ended(c)
      PROVE  CodeIndexExact'
  <2>1. Exists(c) /\ calls[c].roomId \in Codes
    BY <1>3 DEF End, IsParticipant, Exists, TypeOK, Call
  <2>2. codeIndex[calls[c].roomId] = c
    BY <1>3, <2>1 DEF CodeIndexExact
  <2>3. /\ Exists(c)' /\ Ended(c)' /\ calls'[c].roomId = calls[c].roomId
        /\ \A d \in CallIds \ {c} : calls'[d] = calls[d]
        /\ codeIndex' = [codeIndex EXCEPT ![calls[c].roomId] = None]
    BY <1>3, Closed
  <2> QED BY <2>1, <2>2, <2>3, NoneAssumption DEF CodeIndexExact, TypeOK, Exists, Ended
<1>4. CASE UNCHANGED vars
  BY <1>4 DEF vars, CodeIndexExact, Exists, Ended
<1> QED
  BY <1>1, <1>2, <1>3, <1>4 DEF Next, MovesParticipant, End

\* A room code leads to a call exactly while the call is open and carries it.
THEOREM CodeIndexCorrect == Spec => []CodeIndexExact
<1>1. Init => CodeIndexExact
  BY NoneAssumption DEF Init, CodeIndexExact, Exists
<1> QED
  BY <1>1, CodeIndexStep, TypeCorrect, PTL DEF Spec

-----------------------------------------------------------------------------
(* The service implements CallLifecycle *)

\* A call whose entry a step does not touch keeps its abstract state.
LEMMA SameAbstractly ==
    ASSUME NEW d, calls'[d] = calls[d]
    PROVE  /\ PhaseOf(d)' = PhaseOf(d)
           /\ RosterOf(d)' = RosterOf(d)
           /\ PresentIn(d)' = PresentIn(d)
  BY DEF PhaseOf, RosterOf, PresentIn, IsParticipant, Exists

\* How the abstract state of one call changes determines how the abstract
\* functions change.
LEMMA AbstractUpdate ==
    ASSUME NEW c \in CallIds, NEW phase, NEW roster, NEW present,
           PhaseOf(c)' = phase, RosterOf(c)' = roster, PresentIn(c)' = present,
           \A d \in CallIds \ {c} : calls'[d] = calls[d]
    PROVE  /\ [d \in CallIds |-> PhaseOf(d)]'
                 = [[d \in CallIds |-> PhaseOf(d)] EXCEPT ![c] = phase]
           /\ [d \in CallIds |-> RosterOf(d)]'
                 = [[d \in CallIds |-> RosterOf(d)] EXCEPT ![c] = roster]
           /\ [d \in CallIds |-> PresentIn(d)]'
                 = [[d \in CallIds |-> PresentIn(d)] EXCEPT ![c] = present]
           /\ phase = PhaseOf(c) =>
                 [d \in CallIds |-> PhaseOf(d)]' = [d \in CallIds |-> PhaseOf(d)]
           /\ roster = RosterOf(c) =>
                 [d \in CallIds |-> RosterOf(d)]' = [d \in CallIds |-> RosterOf(d)]
           /\ present = PresentIn(c) =>
                 [d \in CallIds |-> PresentIn(d)]' = [d \in CallIds |-> PresentIn(d)]
<1>1. \A d \in CallIds \ {c} : /\ PhaseOf(d)' = PhaseOf(d)
                               /\ RosterOf(d)' = RosterOf(d)
                               /\ PresentIn(d)' = PresentIn(d)
  BY SameAbstractly
<1> QED BY <1>1

\* Every step of the service is a step of the life cycle or changes nothing in
\* it.  Closing needs the index to be exact: the code deleted is the only one
\* that leads to the call.
LEMMA LifecycleStep ==
    TypeOK /\ CodeIndexExact /\ [Next]_vars => [Lifecycle!Next]_(Lifecycle!vars)
<1> SUFFICES ASSUME TypeOK, CodeIndexExact, [Next]_vars
             PROVE  [Lifecycle!Next]_(Lifecycle!vars)
  OBVIOUS
<1>1. ASSUME NEW c \in CallIds, NEW u \in Users, NEW visibility \in CallVisibility,
             NEW invitees \in InviteeLists, NEW code \in Codes,
             CreateCall(c, u, visibility, invitees, code)
      PROVE  Lifecycle!Next
  <2> DEFINE invited == {v \in Users : \E i \in Fresh(u, invitees) : invitees[i] = v}
  <2>1. PhaseOf(c) = "none" /\ PhaseOf(c)' = "pending"
    BY <1>1, Created DEF PhaseOf
  <2>2. RosterOf(c)' = invited \cup {u} /\ PresentIn(c)' = {u}
    <3>1. \A v \in Users : v \in invited <=> \E i \in Fresh(u, invitees) : invitees[i] = v
      OBVIOUS
    <3> HIDE DEF invited
    <3>2. /\ Exists(c)'
          /\ \A v \in Users : calls'[c].participants[v] =
                IF v = u THEN "joined" ELSE IF v \in invited THEN "invited" ELSE "absent"
      BY <1>1, <3>1, Created
    <3>3. invited \subseteq Users
      BY DEF invited
    <3> QED BY <3>2, <3>3 DEF RosterOf, PresentIn, IsParticipant
  <2>3. codeIndex[code] = None /\ codeIndex' = [codeIndex EXCEPT ![code] = c]
    BY <1>1 DEF CreateCall, Reservable
  <2>4. \A d \in CallIds \ {c} : calls'[d] = calls[d]
    BY <1>1, Created
  <2> HIDE DEF invited
  <2>5. /\ [d \in CallIds |-> PhaseOf(d)]'
               = [[d \in CallIds |-> PhaseOf(d)] EXCEPT ![c] = "pending"]
        /\ [d \in CallIds |-> RosterOf(d)]'
               = [[d \in CallIds |-> RosterOf(d)] EXCEPT ![c] = invited \cup {u}]
        /\ [d \in CallIds |-> PresentIn(d)]'
               = [[d \in CallIds |-> PresentIn(d)] EXCEPT ![c] = {u}]
    BY <2>1, <2>2, <2>4, AbstractUpdate
  <2>6. Lifecycle!OpenCall(c, u, invited, code)
    BY <2>1, <2>3, <2>5 DEF Lifecycle!OpenCall
  <2>7. invited \in SUBSET Users
    BY DEF invited
  <2> QED BY <2>6, <2>7 DEF Lifecycle!Next
<1>2. ASSUME NEW c \in CallIds, NEW u \in Users, Open(c), Enter(c, u), codeIndex' = codeIndex
      PROVE  Lifecycle!Next
  <2>1. calls[c] \in Call /\ Exists(c) /\ Exists(c)'
    BY <1>2, Entered DEF Open
  <2>2. calls'[c].participants = [calls[c].participants EXCEPT ![u] = "joined"]
    BY <1>2, <2>1, Entered
  <2>3. calls'[c].status = "active"
    BY <1>2, <2>1, Entered
  <2>4. PhaseOf(c) \in {"pending", "active"} /\ PhaseOf(c)' = "active"
    BY <1>2, <2>1, <2>3 DEF PhaseOf, Open, Ended, Call, CallStatus
  <2>5. RosterOf(c)' = RosterOf(c) \cup {u} /\ PresentIn(c)' = PresentIn(c) \cup {u}
    BY <2>1, <2>2 DEF RosterOf, PresentIn, IsParticipant, Call
  <2>6. \A d \in CallIds \ {c} : calls'[d] = calls[d]
    BY <1>2, <2>1, Entered
  <2>7. /\ [d \in CallIds |-> PhaseOf(d)]'
               = [[d \in CallIds |-> PhaseOf(d)] EXCEPT ![c] = "active"]
        /\ [d \in CallIds |-> RosterOf(d)]'
               = [[d \in CallIds |-> RosterOf(d)] EXCEPT ![c] = RosterOf(c) \cup {u}]
        /\ [d \in CallIds |-> PresentIn(d)]'
               = [[d \in CallIds |-> PresentIn(d)] EXCEPT ![c] = PresentIn(c) \cup {u}]
    BY <2>4, <2>5, <2>6, AbstractUpdate
  <2>8. Lifecycle!Enter(c, u)
    BY <1>2, <2>4, <2>7 DEF Lifecycle!Enter, Lifecycle!Open
  <2> QED BY <2>8 DEF Lifecycle!Next
<1>3. ASSUME NEW c \in CallIds, NEW u \in Users, NEW v \in Users, Open(c),
             calls' = [calls EXCEPT ![c].participants[v] = "invited"], ~IsParticipant(c, v),
             codeIndex' = codeIndex
      PROVE  Lifecycle!Next
  <2>1. calls[c] \in Call /\ Exists(c) /\ Exists(c)'
    BY <1>3, Moved DEF Open, ParticipantStatus
  <2>2. /\ calls'[c].participants = [calls[c].participants EXCEPT ![v] = "invited"]
        /\ calls'[c].status = calls[c].status
    BY <1>3, <2>1, Moved DEF ParticipantStatus
  <2>3. PhaseOf(c) \in {"pending", "active"} /\ PhaseOf(c)' = PhaseOf(c)
    BY <1>3, <2>1, <2>2 DEF PhaseOf, Open, Ended, Call, CallStatus
  <2>4. RosterOf(c)' = RosterOf(c) \cup {v} /\ PresentIn(c)' = PresentIn(c)
    BY <1>3, <2>1, <2>2 DEF RosterOf, PresentIn, IsParticipant, Call
  <2>5. \A d \in CallIds \ {c} : calls'[d] = calls[d]
    BY <1>3, <2>1, Moved DEF ParticipantStatus
  <2>6. /\ [d \in CallIds |-> PhaseOf(d)]' = [d \in CallIds |-> PhaseOf(d)]
        /\ [d \in CallIds |-> RosterOf(d)]'
               = [[d \in CallIds |-> RosterOf(d)] EXCEPT ![c] = RosterOf(c) \cup {v}]
        /\ [d \in CallIds |-> PresentIn(d)]' = [d \in CallIds |-> PresentIn(d)]
    BY <2>3, <2>4, <2>5, AbstractUpdate
  <2>7. Lifecycle!Admit(c, v)
    BY <1>3, <2>3, <2>6 DEF Lifecycle!Admit, Lifecycle!Open
  <2> QED BY <2>7 DEF Lifecycle!Next
<1>4. ASSUME NEW c \in CallIds, NEW u \in Users, IsParticipant(c, u),
             calls' = [calls EXCEPT ![c].participants[u] = "left"], codeIndex' = codeIndex
      PROVE  [Lifecycle!Next]_(Lifecycle!vars)
  <2>1. calls[c] \in Call /\ Exists(c) /\ Exists(c)'
    BY <1>4, Moved DEF IsParticipant, ParticipantStatus
  <2>2. /\ calls'[c].participants = [calls[c].participants EXCEPT ![u] = "left"]
        /\ calls'[c].status = calls[c].status
    BY <1>4, <2>1, Moved DEF ParticipantStatus
  <2>3. PhaseOf(c)' = PhaseOf(c) /\ RosterOf(c)' = RosterOf(c)
    BY <1>4, <2>1, <2>2 DEF PhaseOf, RosterOf, IsParticipant, Call
  <2>4. PresentIn(c)' = PresentIn(c) \ {u}
    BY <2>1, <2>2 DEF PresentIn, Call
  <2>5. \A d \in CallIds \ {c} : calls'[d] = calls[d]
    BY <1>4, <2>1, Moved DEF ParticipantStatus
  <2>6. CASE u \in PresentIn(c)
    <3>1. /\ [d \in CallIds |-> PhaseOf(d)]' = [d \in CallIds |-> PhaseOf(d)]
          /\ [d \in CallIds |-> RosterOf(d)]' = [d \in CallIds |-> RosterOf(d)]
          /\ [d \in CallIds |-> PresentIn(d)]'
                 = [[d \in CallIds |-> PresentIn(d)] EXCEPT ![c] = PresentIn(c) \ {u}]
      BY <2>3, <2>4, <2>5, AbstractUpdate
    <3>2. Lifecycle!Depart(c, u)
      BY <1>4, <2>6, <3>1 DEF Lifecycle!Depart
    <3> QED BY <3>2 DEF Lifecycle!Next
  <2>7. CASE u \notin PresentIn(c)
    <3>1. PresentIn(c)' = PresentIn(c)
      BY <2>4, <2>7
    <3> QED BY <1>4, <2>3, <2>5, <3>1, AbstractUpdate DEF Lifecycle!vars
  <2> QED BY <2>6, <2>7
<1>5. ASSUME NEW c \in CallIds, NEW u \in Users, End(c, u), ~Ended(c)
      PROVE  Lifecycle!Next
  <2>1. calls[c] \in Call /\ Exists(c) /\ IsParticipant(c, u)
    BY <1>5, ExistsIsCall DEF End, IsParticipant
  <2>2. PhaseOf(c) \in {"pending", "active"} /\ PhaseOf(c)' = "ended"
    BY <1>5, <2>1, Closed DEF PhaseOf, Ended, Call, CallStatus
  <2>3. u \in RosterOf(c) /\ RosterOf(c)' = RosterOf(c) /\ PresentIn(c)' = PresentIn(c)
    BY <1>5, <2>1, Closed DEF RosterOf, PresentIn, IsParticipant
  <2>4. \A d \in CallIds \ {c} : calls'[d] = calls[d]
    BY <1>5, Closed
  <2>5. codeIndex' = [codeIndex EXCEPT ![calls[c].roomId] = None]
    BY <1>5, Closed
  <2>6. \A code \in Codes : codeIndex[code] = c <=> code = calls[c].roomId
    BY <1>5, <2>1 DEF CodeIndexExact
  <2>7. codeIndex' = [code \in Codes |-> IF codeIndex[code] = c THEN None ELSE codeIndex[code]]
    BY <2>1, <2>5, <2>6 DEF TypeOK
  <2>8. /\ [d \in CallIds |-> PhaseOf(d)]'
               = [[d \in CallIds |-> PhaseOf(d)] EXCEPT ![c] = "ended"]
        /\ [d \in CallIds |-> RosterOf(d)]' = [d \in CallIds |-> RosterOf(d)]
        /\ [d \in CallIds |-> PresentIn(d)]' = [d \in CallIds |-> PresentIn(d)]
    BY <2>2, <2>3, <2>4, AbstractUpdate
  <2>9. Lifecycle!Close(c, u)
    BY <2>2, <2>3, <2>7, <2>8 DEF Lifecycle!Close, Lifecycle!Open
  <2> QED BY <2>9 DEF Lifecycle!Next
<1>6. CASE UNCHANGED vars
  BY <1>6 DEF vars, Lifecycle!vars, PhaseOf, RosterOf, PresentIn, IsParticipant, Exists
<1>7. ASSUME NEW c \in CallIds, NEW u \in Users, NEW v \in Users, Invite(c, u, v)
      PROVE  [Lifecycle!Next]_(Lifecycle!vars)
  BY <1>3, <1>6, <1>7 DEF Invite
<1>8. ASSUME NEW c \in CallIds, NEW u \in Users, Accept(c, u) \/ Join(c, u)
      PROVE  [Lifecycle!Next]_(Lifecycle!vars)
  BY <1>2, <1>6, <1>8 DEF Accept, Join
<1>9. ASSUME NEW c \in CallIds, NEW u \in Users, Leave(c, u)
      PROVE  [Lifecycle!Next]_(Lifecycle!vars)
  BY <1>4, <1>6, <1>9 DEF Leave
<1>10. ASSUME NEW c \in CallIds, NEW u \in Users, End(c, u)
       PROVE  [Lifecycle!Next]_(Lifecycle!vars)
  BY <1>5, <1>6, <1>10 DEF End
<1> QED
  BY <1>1, <1>6, <1>7, <1>8, <1>9, <1>10 DEF Next

\* The call service implements the life cycle it promises.
THEOREM LifecycleImplemented == Spec => ImplementsLifecycle
<1>1. Init => Lifecycle!Init
  BY DEF Init, Lifecycle!Init, PhaseOf, RosterOf, PresentIn, IsParticipant, Exists
<1> QED
  BY <1>1, LifecycleStep, TypeCorrect, CodeIndexCorrect, PTL
  DEF Spec, ImplementsLifecycle, Lifecycle!Spec

-----------------------------------------------------------------------------
(* The journal *)

\* The parts of JournalReplaysState for one call: before it exists nothing is
\* recorded of it, the journal tells each entry, and it tells the status.
NothingBefore(c) == ~Exists(c) => EventsOf(c) = {}

EntriesReplay(c) ==
    Exists(c) =>
       \A u \in Users :
          /\ IsParticipant(c, u) <=> Moves(c, u) # {}
          /\ \A e \in Moves(c, u) :
                (\A f \in Moves(c, u) : f.id <= e.id)
                    => calls[c].participants[u] = StatusAfter(e.type)

StatusReplays(c) ==
    Exists(c) =>
       /\ calls[c].status = IF Recorded(c, "ended") THEN "ended"
                            ELSE IF Recorded(c, "joined") THEN "active"
                            ELSE "pending"
       /\ \A e \in EventsOf(c) : e.type = "ended" => calls[c].endedBy = e.userId

\* The part of PrivateByInvitation for one call.
StartsInvited(c, u) ==
    \E e \in EventsOf(c) :
       /\ e.userId = u /\ e.type = "invited"
       /\ \A f \in EventsOf(c) : f.userId = u => e.id <= f.id

EntersInvited(c) ==
    \A u \in Users :
       IsParticipant(c, u) /\ calls[c].visibility = "private" /\ u # calls[c].creatorId
           => StartsInvited(c, u)

\* Only participants' doings are recorded.
StrangersSilent(c) == \A e \in EventsOf(c) : IsParticipant(c, e.userId)

StoryOf(c) ==
    /\ NothingBefore(c) /\ EntriesReplay(c) /\ StatusReplays(c)
    /\ EntersInvited(c) /\ StrangersSilent(c)

\* Events are recorded in the order of their ids.
IdsGrow == \A e \in events : e.id < nextId

JournalInv ==
    /\ TypeOK /\ IdsGrow /\ OnlyLeavingAfterEnd
    /\ \A c \in CallIds : StoryOf(c)

\* Nobody is recorded as ending a call that is open or does not exist.
LEMMA EndIsRecorded ==
    ASSUME JournalInv, NEW c \in CallIds, NEW e \in EventsOf(c), e.type = "ended"
    PROVE  Exists(c) /\ Ended(c)
<1>1. Exists(c)
  BY DEF JournalInv, StoryOf, NothingBefore
<1>2. Recorded(c, "ended")
  BY DEF Recorded
<1> QED BY <1>1, <1>2 DEF JournalInv, StoryOf, StatusReplays, Ended

\* A call that a step neither touches nor records anything of keeps its story.
LEMMA SameStory ==
    ASSUME NEW c, StoryOf(c), calls'[c] = calls[c], EventsOf(c)' = EventsOf(c)
    PROVE  StoryOf(c)'
<1>1. /\ Exists(c)' = Exists(c)
      /\ \A u : IsParticipant(c, u)' = IsParticipant(c, u)
      /\ \A u : Moves(c, u)' = Moves(c, u)
      /\ \A type : Recorded(c, type)' = Recorded(c, type)
  BY DEF Exists, IsParticipant, Moves, Recorded
<1>2. NothingBefore(c)' /\ EntriesReplay(c)' /\ StatusReplays(c)'
  BY <1>1 DEF StoryOf, NothingBefore, EntriesReplay, StatusReplays
<1>3. EntersInvited(c)' /\ StrangersSilent(c)'
  BY <1>1 DEF StoryOf, EntersInvited, StartsInvited, StrangersSilent
<1> QED BY <1>2, <1>3 DEF StoryOf

\* What is recorded of call c, from the next id on, is no news of other calls.
LEMMA OtherStories ==
    ASSUME JournalInv, NEW c \in CallIds, NEW new \in SUBSET CallEvent,
           events' = events \cup new, \A e \in new : e.callId = c,
           \A d \in CallIds \ {c} : calls'[d] = calls[d]
    PROVE  /\ \A d \in CallIds \ {c} : StoryOf(d)'
           /\ EventsOf(c)' = EventsOf(c) \cup new
<1>1. \A d \in CallIds \ {c} : EventsOf(d)' = EventsOf(d)
  BY DEF EventsOf
<1>2. EventsOf(c)' = EventsOf(c) \cup new
  BY DEF EventsOf
<1> QED BY <1>1, <1>2, SameStory DEF JournalInv

\* After the end only leaving is recorded.
LEMMA EndStaysLast ==
    ASSUME JournalInv, NEW c \in CallIds, NEW new \in SUBSET CallEvent,
           events' = events \cup new,
           \A e \in new : e.callId = c /\ e.id >= nextId,
           \/ ~Exists(c) \/ ~Ended(c)
           \/ \A e \in new : e.type = "left",
           \A e \in new : e.type = "ended" => new = {e}
    PROVE  OnlyLeavingAfterEnd'
<1> SUFFICES ASSUME NEW e \in events', NEW f \in events',
                    e.type = "ended", f.callId = e.callId, e.id < f.id
             PROVE  f.type = "left"
  BY DEF OnlyLeavingAfterEnd
<1>1. e.id \in Nat /\ f.id \in Nat /\ nextId \in Nat
  BY DEF JournalInv, TypeOK, CallEvent
<1>2. CASE e \in events /\ f \in events
  BY <1>2 DEF JournalInv, OnlyLeavingAfterEnd
<1>3. CASE e \in events /\ f \in new
  <2>1. e \in EventsOf(c)
    BY <1>3 DEF EventsOf
  <2> QED BY <1>3, <2>1, EndIsRecorded
<1>4. CASE e \in new /\ f \in events
  BY <1>1, <1>4 DEF JournalInv, IdsGrow
<1>5. CASE e \in new /\ f \in new
  BY <1>1, <1>5
<1> QED BY <1>2, <1>3, <1>4, <1>5

\* A participant's entry moves and the move m is recorded, perhaps with an
\* acceptance: the call keeps its story.
LEMMA MoveRecorded ==
    ASSUME JournalInv, NEW c \in CallIds, NEW v \in Users, Exists(c), Exists(c)',
           NEW new \in SUBSET CallEvent, NEW m \in new,
           EventsOf(c)' = EventsOf(c) \cup new,
           \A e \in new : /\ e.callId = c /\ e.userId = v /\ e.id >= nextId
                          /\ e = m \/ e.type = "accepted",
           m.type \in {"invited", "joined", "left"},
           calls[c] \in Call, KeptFields(c),
           calls'[c].participants = [calls[c].participants EXCEPT ![v] = m.type],
           calls'[c].status = IF m.type = "joined" THEN "active" ELSE calls[c].status,
           m.type = "joined" => ~Ended(c),
           ~IsParticipant(c, v) /\ calls[c].visibility = "private" =>
              m.type = "invited" /\ new = {m}
    PROVE  StoryOf(c)'
<1>1. NothingBefore(c)'
  BY DEF NothingBefore
<1>2. /\ calls'[c].participants[v] = m.type
      /\ \A u \in Users \ {v} : calls'[c].participants[u] = calls[c].participants[u]
      /\ IsParticipant(c, v)'
      /\ \A u \in Users : IsParticipant(c, u) => IsParticipant(c, u)'
      /\ \A u \in Users \ {v} : IsParticipant(c, u)' => IsParticipant(c, u)
  BY DEF Call, IsParticipant
<1>3. /\ Moves(c, v)' = Moves(c, v) \cup {m}
      /\ \A u \in Users \ {v} : Moves(c, u)' = Moves(c, u)
  BY DEF Moves
<1>4. \A e \in EventsOf(c) : e.id \in Nat /\ e.id < nextId /\ e.userId \in Users
  BY DEF JournalInv, TypeOK, IdsGrow, EventsOf, CallEvent
<1>5. \A e \in new : e.id \in Nat
  BY DEF CallEvent
<1>6. EntriesReplay(c)'
  <2> SUFFICES ASSUME NEW u \in Users
               PROVE  (/\ IsParticipant(c, u) <=> Moves(c, u) # {}
                       /\ \A e \in Moves(c, u) :
                             (\A f \in Moves(c, u) : f.id <= e.id)
                                 => calls[c].participants[u] = StatusAfter(e.type))'
    BY DEF EntriesReplay
  <2>1. CASE u # v
    BY <1>2, <1>3, <2>1 DEF JournalInv, StoryOf, EntriesReplay
  <2>2. CASE u = v
    <3>1. m \in Moves(c, v)'
      BY <1>3
    <3>2. ASSUME NEW e \in Moves(c, v)', \A f \in Moves(c, v)' : f.id <= e.id
          PROVE  e = m
      <4>1. m.id <= e.id
        BY <3>1, <3>2
      <4>2. e \in Moves(c, v) => e.id < m.id
        BY <1>4, <1>5 DEF Moves, JournalInv, TypeOK
      <4> QED BY <1>3, <1>4, <1>5, <4>1, <4>2 DEF Moves
    <3>3. calls'[c].participants[v] = StatusAfter(m.type)
      BY <1>2 DEF StatusAfter
    <3> QED BY <1>2, <2>2, <3>1, <3>2, <3>3
  <2> QED BY <2>1, <2>2
<1>7. StatusReplays(c)'
  <2>1. Recorded(c, "ended")' <=> Recorded(c, "ended")
    BY DEF Recorded
  <2>2. Recorded(c, "joined")' <=> Recorded(c, "joined") \/ m.type = "joined"
    BY DEF Recorded
  <2>3. StatusReplays(c)
    BY DEF JournalInv, StoryOf
  <2>4. calls'[c].status = IF Recorded(c, "ended")' THEN "ended"
                           ELSE IF Recorded(c, "joined")' THEN "active"
                           ELSE "pending"
    BY <2>1, <2>2, <2>3 DEF StatusReplays, Ended
  <2>5. \A e \in EventsOf(c)' : e.type = "ended" => calls'[c].endedBy = e.userId
    BY <2>3 DEF StatusReplays, KeptFields
  <2> QED BY <2>4, <2>5 DEF StatusReplays
<1>8. StrangersSilent(c)'
  <2> SUFFICES ASSUME NEW e \in EventsOf(c) \cup new
               PROVE  IsParticipant(c, e.userId)'
    BY DEF StrangersSilent
  <2>1. CASE e \in EventsOf(c)
    BY <1>2, <1>4, <2>1 DEF JournalInv, StoryOf, StrangersSilent
  <2>2. CASE e \in new
    BY <1>2, <2>2
  <2> QED BY <2>1, <2>2
<1>9. EntersInvited(c)'
  <2> SUFFICES ASSUME NEW u \in Users, IsParticipant(c, u)',
                      calls'[c].visibility = "private", u # calls'[c].creatorId
               PROVE  StartsInvited(c, u)'
    BY DEF EntersInvited
  <2>1. calls[c].visibility = "private" /\ u # calls[c].creatorId
    BY DEF KeptFields
  <2>2. CASE IsParticipant(c, u)
    <3>1. PICK e \in EventsOf(c) :
             /\ e.userId = u /\ e.type = "invited"
             /\ \A f \in EventsOf(c) : f.userId = u => e.id <= f.id
      BY <2>1, <2>2 DEF JournalInv, StoryOf, EntersInvited, StartsInvited
    <3>2. e.id < nextId /\ e.id \in Nat /\ nextId \in Nat
      BY <1>4 DEF JournalInv, TypeOK
    <3>3. \A f \in new : e.id <= f.id
      BY <1>5, <3>2
    <3> QED BY <3>1, <3>3 DEF StartsInvited
  <2>3. CASE ~IsParticipant(c, u)
    <3>1. u = v /\ m.type = "invited" /\ new = {m}
      BY <1>2, <2>1, <2>3
    <3>2. \A f \in EventsOf(c) : f.userId # u
      BY <2>3 DEF JournalInv, StoryOf, StrangersSilent
    <3>3. m.id <= m.id
      BY <1>5
    <3> QED BY <3>1, <3>2, <3>3 DEF StartsInvited
  <2> QED BY <2>2, <2>3
<1> QED BY <1>1, <1>6, <1>7, <1>8, <1>9 DEF StoryOf

\* The pieces of a step that records new events of call c.
LEMMA JournalGrows ==
    ASSUME JournalInv, TypeOK', NEW c \in CallIds, NEW new \in SUBSET CallEvent,
           events' = events \cup new, nextId <= nextId',
           \A e \in new : e.callId = c /\ e.id >= nextId /\ e.id < nextId',
           \/ ~Exists(c) \/ ~Ended(c)
           \/ \A e \in new : e.type = "left",
           \A e \in new : e.type = "ended" => new = {e},
           \A d \in CallIds \ {c} : calls'[d] = calls[d],
           StoryOf(c)'
    PROVE  JournalInv'
<1>1. \A d \in CallIds \ {c} : StoryOf(d)'
  BY OtherStories
<1>2. IdsGrow'
  <2>1. nextId \in Nat /\ nextId' \in Nat /\ \A e \in events : e.id \in Nat
    BY DEF JournalInv, TypeOK, CallEvent
  <2> QED BY <2>1 DEF JournalInv, IdsGrow
<1>3. OnlyLeavingAfterEnd'
  BY EndStaysLast
<1> QED BY <1>1, <1>2, <1>3 DEF JournalInv

\* A step that moves an entry of a call and records just that: an invitation
\* of a stranger to an open call, or somebody leaving.
LEMMA EntryMoves ==
    ASSUME JournalInv, TypeOK', NEW c \in CallIds, NEW v \in Users,
           NEW type \in {"invited", "left"}, Exists(c),
           calls' = [calls EXCEPT ![c].participants[v] = type],
           Record(c, type, v),
           type = "invited" => ~Ended(c),
           ~IsParticipant(c, v) => type = "invited"
    PROVE  JournalInv'
<1>1. /\ nextId \in Nat /\ TypeOK /\ nextId' = nextId + 1
      /\ events' = events \cup {Event(nextId, c, type, v)}
  BY DEF JournalInv, TypeOK, Record
<1> PICK m \in CallEvent : m = Event(nextId, c, type, v)
  BY <1>1 DEF Event, CallEvent, EventType
<1> DEFINE new == {m}
<1>2. m.callId = c /\ m.userId = v /\ m.type = type /\ m.id = nextId
  BY DEF Event
<1>3. /\ calls'[c].participants = [calls[c].participants EXCEPT ![v] = m.type]
      /\ calls'[c].status = calls[c].status
      /\ KeptFields(c) /\ calls[c] \in Call /\ Exists(c)'
      /\ \A d \in CallIds \ {c} : calls'[d] = calls[d]
  <2>1. type \in ParticipantStatus
    BY DEF ParticipantStatus
  <2>2. /\ calls'[c].participants = [calls[c].participants EXCEPT ![v] = type]
        /\ calls'[c].status = calls[c].status
        /\ KeptFields(c) /\ calls[c] \in Call /\ Exists(c)'
        /\ \A d \in CallIds \ {c} : calls'[d] = calls[d]
    BY <1>1, <2>1, Moved
  <2> QED BY <1>2, <2>2
<1>4. new \in SUBSET CallEvent /\ m \in new
  BY <1>2
<1>5. /\ \A e \in new : e.callId = c /\ e.userId = v /\ e.id >= nextId /\ e.id < nextId'
      /\ \A e \in new : e = m
      /\ events' = events \cup new /\ nextId <= nextId'
  BY <1>1, <1>2
<1>6. EventsOf(c)' = EventsOf(c) \cup new
  BY <1>1, <1>2 DEF EventsOf
<1>7. StoryOf(c)'
  <2>1. /\ calls'[c].status = IF m.type = "joined" THEN "active" ELSE calls[c].status
        /\ m.type \in {"invited", "joined", "left"}
        /\ m.type = "joined" => ~Ended(c)
        /\ ~IsParticipant(c, v) /\ calls[c].visibility = "private" =>
              m.type = "invited" /\ new = {m}
    BY <1>2, <1>3
  <2>2. \A e \in new : /\ e.callId = c /\ e.userId = v /\ e.id >= nextId
                       /\ e = m \/ e.type = "accepted"
    BY <1>5
  <2> HIDE DEF new
  <2> QED BY <1>3, <1>4, <1>6, <2>1, <2>2, MoveRecorded
<1>8. ~Ended(c) \/ \A e \in new : e.type = "left"
  BY <1>2
<1> HIDE DEF new
<1>9. \A e \in new : e.type = "ended" => new = {e}
  BY <1>2, <1>5
<1> QED BY <1>1, <1>3, <1>4, <1>5, <1>7, <1>8, <1>9, JournalGrows

\* A step that lets somebody into an open call and records it.
LEMMA SomebodyEnters ==
    ASSUME JournalInv, TypeOK', NEW c \in CallIds, NEW u \in Users,
           Open(c), Enter(c, u), IsParticipant(c, u) \/ OpenToStrangers(c),
           NEW new \in SUBSET CallEvent, NEW m \in new, m.type = "joined",
           events' = events \cup new, nextId <= nextId',
           \A e \in new : /\ e.callId = c /\ e.userId = u
                          /\ e.id >= nextId /\ e.id < nextId'
                          /\ e = m \/ e.type = "accepted"
    PROVE  JournalInv'
<1>1. TypeOK /\ Exists(c) /\ ~Ended(c)
  BY DEF JournalInv, Open
<1>2. /\ calls'[c].participants = [calls[c].participants EXCEPT ![u] = m.type]
      /\ calls'[c].status = "active"
      /\ KeptFields(c) /\ calls[c] \in Call /\ Exists(c)'
      /\ \A d \in CallIds \ {c} : calls'[d] = calls[d]
  BY <1>1, Entered
<1>3. EventsOf(c)' = EventsOf(c) \cup new
  BY DEF EventsOf
<1>4. ~(~IsParticipant(c, u) /\ calls[c].visibility = "private")
  BY DEF OpenToStrangers
<1>5. StoryOf(c)'
  BY <1>1, <1>2, <1>3, <1>4, MoveRecorded
<1>6. \A e \in new : e.type # "ended"
  OBVIOUS
<1> QED BY <1>1, <1>2, <1>5, <1>6, JournalGrows

\* Creating a call starts its story.
LEMMA StoryStarts ==
    ASSUME JournalInv, TypeOK', NEW c \in CallIds, NEW u \in Users,
           NEW visibility \in CallVisibility, NEW invitees \in InviteeLists,
           NEW code \in Codes, CreateCall(c, u, visibility, invitees, code)
    PROVE  JournalInv'
<1> DEFINE fresh == Fresh(u, invitees)
           rank(i) == Cardinality({j \in fresh : j <= i})
           first == Event(nextId, c, "created", u)
           new == {first} \cup InviteEvents(c, u, invitees)
<1>1. TypeOK /\ nextId \in Nat
  BY DEF JournalInv, TypeOK
<1>2. /\ ~Exists(c) /\ Exists(c)' /\ calls'[c].status = "pending"
      /\ calls'[c].creatorId = u
      /\ \A v \in Users :
            calls'[c].participants[v] =
               IF v = u THEN "joined"
               ELSE IF \E i \in fresh : invitees[i] = v THEN "invited"
               ELSE "absent"
      /\ \A d \in CallIds \ {c} : calls'[d] = calls[d]
  BY <1>1, Created
<1>3. /\ Cardinality(fresh) \in Nat
      /\ \A i \in fresh : invitees[i] \in Users
      /\ \A i \in fresh : rank(i) \in Nat
      /\ \A i \in fresh : rank(i) <= Cardinality(fresh)
  <2>1. IsFiniteSet(fresh) /\ Cardinality(fresh) \in Nat
    BY FreshFinite
  <2>2. \A i \in fresh : rank(i) <= Cardinality(fresh)
    BY <2>1, FS_Subset
  <2> QED BY <2>1, <2>2, FreshFinite
<1>4. /\ \A i \in fresh : invitees[i] # u
      /\ \A i, k \in fresh : invitees[i] = invitees[k] => i = k
  BY FreshDiffer
<1>5. events' = events \cup new /\ nextId' = nextId + 1 + Cardinality(fresh)
  BY DEF CreateCall
<1>6. first.id = nextId /\ first.callId = c /\ first.userId = u /\ first.type = "created"
  BY DEF Event
<1>7. \A e \in InviteEvents(c, u, invitees) :
         \E i \in fresh : /\ e.id = nextId + rank(i) /\ e.callId = c
                          /\ e.userId = invitees[i] /\ e.type = "invited"
  BY DEF InviteEvents, Event
<1>8. \A i \in fresh : \E e \in InviteEvents(c, u, invitees) :
         /\ e.id = nextId + rank(i) /\ e.userId = invitees[i] /\ e.type = "invited"
  <2>1. ASSUME NEW i \in fresh
        PROVE  Event(nextId + rank(i), c, "invited", invitees[i])
                  \in InviteEvents(c, u, invitees)
    BY DEF InviteEvents
  <2> HIDE DEF fresh, rank
  <2> QED BY <2>1 DEF Event
<1> HIDE DEF fresh, rank, first
<1>9. new \in SUBSET CallEvent
  BY <1>5 DEF TypeOK
<1>10. /\ \A e \in new : e.callId = c /\ e.id >= nextId /\ e.id < nextId'
       /\ \A e \in new : e.type \in {"created", "invited"}
       /\ nextId <= nextId'
  BY <1>1, <1>3, <1>5, <1>6, <1>7
<1>11. EventsOf(c) = {} /\ EventsOf(c)' = new
  <2>1. EventsOf(c) = {}
    BY <1>2 DEF JournalInv, StoryOf, NothingBefore
  <2> QED BY <1>5, <1>10, <2>1 DEF EventsOf
<1>12. \A v \in Users : IsParticipant(c, v)' <=> v = u \/ \E i \in fresh : invitees[i] = v
  BY <1>2 DEF IsParticipant
<1>13. \A e \in new : \/ e = first
                      \/ e.type = "invited" /\ \E i \in fresh : e.userId = invitees[i]
  BY <1>7
<1>14. NothingBefore(c)'
  BY <1>2 DEF NothingBefore
<1>15. EntriesReplay(c)'
  <2> SUFFICES ASSUME NEW v \in Users
               PROVE  (/\ IsParticipant(c, v) <=> Moves(c, v) # {}
                       /\ \A e \in Moves(c, v) :
                             (\A f \in Moves(c, v) : f.id <= e.id)
                                 => calls[c].participants[v] = StatusAfter(e.type))'
    BY DEF EntriesReplay
  <2>1. Moves(c, v)' = {e \in new : e.userId = v}
    BY <1>10, <1>11 DEF Moves
  <2>2. IsParticipant(c, v)' <=> Moves(c, v)' # {}
    BY <1>6, <1>8, <1>12, <1>13, <2>1
  <2>3. \A e \in Moves(c, v)' : calls'[c].participants[v] = StatusAfter(e.type)
    BY <1>2, <1>4, <1>6, <1>13, <2>1 DEF StatusAfter
  <2> QED BY <2>2, <2>3
<1>16. StatusReplays(c)'
  <2>1. ~Recorded(c, "ended")' /\ ~Recorded(c, "joined")'
    BY <1>10, <1>11 DEF Recorded
  <2> QED BY <1>2, <1>10, <1>11, <2>1 DEF StatusReplays
<1>17. StrangersSilent(c)'
  <2>1. \A e \in new : e.userId \in Users
    BY <1>9 DEF CallEvent
  <2>2. \A e \in new : IsParticipant(c, e.userId)'
    BY <1>6, <1>12, <1>13, <2>1
  <2> QED BY <1>11, <2>2 DEF StrangersSilent
<1>18. EntersInvited(c)'
  <2> SUFFICES ASSUME NEW v \in Users, IsParticipant(c, v)', v # u
               PROVE  StartsInvited(c, v)'
    BY <1>2 DEF EntersInvited
  <2>1. PICK i \in fresh : invitees[i] = v
    BY <1>12
  <2>2. PICK e \in new : e.id = nextId + rank(i) /\ e.userId = v /\ e.type = "invited"
    BY <1>8, <2>1
  <2>3. \A f \in new : f.userId = v => f.id = nextId + rank(i)
    BY <1>4, <1>6, <1>7, <2>1
  <2>4. nextId + rank(i) <= nextId + rank(i)
    BY <1>1, <1>3
  <2> QED BY <1>11, <2>2, <2>3, <2>4 DEF StartsInvited
<1>19. StoryOf(c)'
  BY <1>14, <1>15, <1>16, <1>17, <1>18 DEF StoryOf
<1> HIDE DEF new
<1> QED BY <1>2, <1>5, <1>9, <1>10, <1>19, JournalGrows

\* The first end of a call ends its story.
LEMMA StoryEnds ==
    ASSUME JournalInv, TypeOK', NEW c \in CallIds, NEW u \in Users, End(c, u), ~Ended(c)
    PROVE  JournalInv'
<1> DEFINE e0 == Event(nextId, c, "ended", u)
<1>1. TypeOK /\ nextId \in Nat /\ nextId' = nextId + 1 /\ events' = events \cup {e0}
  BY DEF JournalInv, TypeOK, End, Record
<1>2. e0.id = nextId /\ e0.callId = c /\ e0.userId = u /\ e0.type = "ended" /\ e0 \in CallEvent
  BY <1>1 DEF Event, CallEvent, EventType
<1>3. /\ Exists(c) /\ Exists(c)' /\ Ended(c)'
      /\ calls'[c].participants = calls[c].participants
      /\ calls'[c].visibility = calls[c].visibility
      /\ calls'[c].creatorId = calls[c].creatorId
      /\ calls'[c].endedBy = u
      /\ \A d \in CallIds \ {c} : calls'[d] = calls[d]
  BY <1>1, Closed
<1>4. IsParticipant(c, u)
  BY DEF End
<1> HIDE DEF e0
<1>5. EventsOf(c)' = EventsOf(c) \cup {e0}
  BY <1>1, <1>2 DEF EventsOf
<1>6. /\ \A v : IsParticipant(c, v)' <=> IsParticipant(c, v)
      /\ \A v : Moves(c, v)' = Moves(c, v)
  BY <1>2, <1>3, <1>5 DEF IsParticipant, Moves
<1>7. StoryOf(c)
  BY DEF JournalInv
<1>8. NothingBefore(c)' /\ EntriesReplay(c)'
  BY <1>3, <1>6, <1>7 DEF StoryOf, NothingBefore, EntriesReplay
<1>9. StatusReplays(c)'
  <2>1. Recorded(c, "ended")'
    BY <1>2, <1>5 DEF Recorded
  <2>2. \A e \in EventsOf(c) : e.type # "ended"
    BY EndIsRecorded
  <2> QED BY <1>2, <1>3, <1>5, <2>1, <2>2 DEF StatusReplays, Ended
<1>10. StrangersSilent(c)'
  BY <1>2, <1>4, <1>5, <1>6, <1>7 DEF StoryOf, StrangersSilent
<1>11. EntersInvited(c)'
  <2> SUFFICES ASSUME NEW v \in Users, IsParticipant(c, v), calls[c].visibility = "private",
                      v # calls[c].creatorId
               PROVE  StartsInvited(c, v)'
    BY <1>3, <1>6 DEF EntersInvited
  <2>1. PICK e \in EventsOf(c) :
           /\ e.userId = v /\ e.type = "invited"
           /\ \A f \in EventsOf(c) : f.userId = v => e.id <= f.id
    BY <1>7 DEF StoryOf, EntersInvited, StartsInvited
  <2>2. e.id \in Nat /\ e.id < nextId
    BY DEF JournalInv, IdsGrow, TypeOK, EventsOf, CallEvent
  <2>3. e.id <= e0.id
    BY <1>1, <1>2, <2>2
  <2> QED BY <1>5, <2>1, <2>3 DEF StartsInvited
<1>12. StoryOf(c)'
  BY <1>8, <1>9, <1>10, <1>11 DEF StoryOf
<1> DEFINE new == {e0}
<1>13. /\ new \in SUBSET CallEvent /\ events' = events \cup new /\ nextId <= nextId'
       /\ \A e \in new : e.callId = c /\ e.id >= nextId /\ e.id < nextId'
       /\ \A e \in new : e.type = "ended" => new = {e}
  BY <1>1, <1>2
<1> HIDE DEF new
<1> QED BY <1>3, <1>12, <1>13, JournalGrows

\* Every step keeps what the journal tells.
LEMMA JournalStep == JournalInv /\ [Next]_vars => JournalInv'
<1> SUFFICES ASSUME JournalInv, [Next]_vars PROVE JournalInv'
  OBVIOUS
<1>1. TypeOK /\ TypeOK'
  BY TypeStep DEF JournalInv
<1>2. CASE UNCHANGED vars
  <2>1. calls' = calls /\ events' = events /\ nextId' = nextId
    BY <1>2 DEF vars
  <2>2. \A c \in CallIds : EventsOf(c)' = EventsOf(c)
    BY <2>1 DEF EventsOf
  <2>3. \A c \in CallIds : StoryOf(c)'
    BY <2>1, <2>2, SameStory DEF JournalInv
  <2> QED BY <1>1, <2>1, <2>3 DEF JournalInv, IdsGrow, OnlyLeavingAfterEnd
<1>3. ASSUME NEW c \in CallIds, NEW u \in Users, NEW visibility \in CallVisibility,
             NEW invitees \in InviteeLists, NEW code \in Codes,
             CreateCall(c, u, visibility, invitees, code)
      PROVE  JournalInv'
  BY <1>1, <1>3, StoryStarts
<1>4. ASSUME NEW c \in CallIds, NEW u \in Users, NEW invitee \in Users,
             Invite(c, u, invitee), ~UNCHANGED vars
      PROVE  JournalInv'
  <2>1. /\ Exists(c) /\ ~Ended(c) /\ Record(c, "invited", invitee)
        /\ calls' = [calls EXCEPT ![c].participants[invitee] = "invited"]
    BY <1>4 DEF Invite, Open
  <2> QED BY <1>1, <2>1, EntryMoves
<1>5. ASSUME NEW c \in CallIds, NEW u \in Users, Accept(c, u), ~UNCHANGED vars
      PROVE  JournalInv'
  <2> DEFINE m == Event(nextId + 1, c, "joined", u)
  <2>1. /\ Open(c) /\ IsParticipant(c, u) /\ Enter(c, u)
        /\ events' = events \cup AcceptEvents(c, u) /\ nextId' = nextId + 2
    BY <1>5 DEF Accept
  <2>2. nextId \in Nat
    BY <1>1 DEF TypeOK
  <2>3. /\ AcceptEvents(c, u) \in SUBSET CallEvent
        /\ m \in AcceptEvents(c, u) /\ m.type = "joined"
        /\ \A e \in AcceptEvents(c, u) :
              /\ e.callId = c /\ e.userId = u
              /\ e.id >= nextId /\ e.id < nextId + 2
              /\ e = m \/ e.type = "accepted"
    BY <2>2 DEF AcceptEvents, Event, CallEvent, EventType
  <2>4. nextId <= nextId'
    BY <2>1, <2>2
  <2> HIDE DEF m
  <2> QED BY <1>1, <2>1, <2>3, <2>4, SomebodyEnters
<1>6. ASSUME NEW c \in CallIds, NEW u \in Users, Join(c, u), ~UNCHANGED vars
      PROVE  JournalInv'
  <2> DEFINE m == Event(nextId, c, "joined", u)
             new == {m}
  <2>1. /\ Open(c) /\ OpenToStrangers(c) /\ Enter(c, u)
        /\ events' = events \cup new /\ nextId' = nextId + 1
    BY <1>6 DEF Join, Record
  <2>2. nextId \in Nat
    BY <1>1 DEF TypeOK
  <2>3. /\ new \in SUBSET CallEvent /\ m \in new /\ m.type = "joined"
        /\ \A e \in new : /\ e.callId = c /\ e.userId = u
                          /\ e.id >= nextId /\ e.id < nextId + 1
                          /\ e = m \/ e.type = "accepted"
    BY <2>2 DEF Event, CallEvent, EventType
  <2>4. nextId <= nextId'
    BY <2>1, <2>2
  <2> HIDE DEF m, new
  <2> QED BY <1>1, <2>1, <2>3, <2>4, SomebodyEnters
<1>7. ASSUME NEW c \in CallIds, NEW u \in Users, Leave(c, u), ~UNCHANGED vars
      PROVE  JournalInv'
  <2>1. /\ IsParticipant(c, u) /\ Exists(c) /\ Record(c, "left", u)
        /\ calls' = [calls EXCEPT ![c].participants[u] = "left"]
    BY <1>7 DEF Leave, IsParticipant
  <2> QED BY <1>1, <2>1, EntryMoves
<1>8. ASSUME NEW c \in CallIds, NEW u \in Users, End(c, u), ~UNCHANGED vars
      PROVE  JournalInv'
  <2>1. ~Ended(c)
    BY <1>8 DEF End
  <2> QED BY <1>1, <1>8, <2>1, StoryEnds
<1> QED
  BY <1>2, <1>3, <1>4, <1>5, <1>6, <1>7, <1>8 DEF Next

\* The journal invariant holds throughout.
LEMMA JournalAlways == Spec => []JournalInv
<1>1. Init => JournalInv
  BY DEF Init, JournalInv, TypeOK, IdsGrow, OnlyLeavingAfterEnd, StoryOf, NothingBefore,
     EntriesReplay, StatusReplays, EntersInvited, StrangersSilent, EventsOf, Exists,
     IsParticipant
<1> QED
  BY <1>1, JournalStep, PTL DEF Spec

\* The journal alone determines every participant's status, every call's status
\* and who ended it, for any number of calls, users and repeated requests.
THEOREM JournalReplays == Spec => []JournalReplaysState
<1>1. JournalInv => JournalReplaysState
  BY DEF JournalInv, JournalReplaysState, StoryOf, NothingBefore, EntriesReplay, StatusReplays
<1> QED
  BY <1>1, JournalAlways, PTL

\* After the end of a call nothing but leaving is recorded of it.
THEOREM EndIsFinal == Spec => []OnlyLeavingAfterEnd
<1>1. JournalInv => OnlyLeavingAfterEnd
  BY DEF JournalInv
<1> QED
  BY <1>1, JournalAlways, PTL

\* Whoever is listed in a private call without having created it was invited
\* before anything else was recorded of them there.
THEOREM PrivateEntry == Spec => []PrivateByInvitation
<1>1. JournalInv => PrivateByInvitation
  BY DEF JournalInv, PrivateByInvitation, StoryOf, EntersInvited, StartsInvited
<1> QED
  BY <1>1, JournalAlways, PTL
=============================================================================
