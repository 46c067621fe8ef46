---------------------------- MODULE CallsService ----------------------------
(***************************************************************************)
(* The in-memory call service of src/calls/calls.service.ts: the map of    *)
(* calls, the reverse index from room codes to calls and the event journal *)
(* (CallEventsStore).  Node runs each public method to completion without  *)
(* yielding, so each method is one atomic action.                          *)
(*                                                                         *)
(* A method that throws changes nothing; only the calls that return are    *)
(* actions here, early returns included.  Timestamps, roles and the        *)
(* payload of events are left out.                                         *)
(*                                                                         *)
(* A definition marked "wrong" is a plausible bug: no action uses it, and  *)
(* the properties are tested against it (see PROJECT.json, mutants).       *)
(***************************************************************************)
EXTENDS Naturals, FiniteSets, Sequences

CONSTANTS
    CallIds,       \* UUIDs createCall may draw
    Codes,         \* room codes generateRoomCode may draw
    Users,         \* authenticated user ids
    InviteeLists,  \* bodies of POST /calls: lists of invitees
    None,          \* what Map.get gives for a missing key
    MaxEvents      \* bound on the length of the journal

VARIABLES
    calls,      \* CallsService.calls
    codeIndex,  \* CallsService.codeIndex
    events,     \* CallEventsStore.events, ordered by id
    nextId      \* CallEventsStore.nextId

vars == <<calls, codeIndex, events, nextId>>

CallStatus == {"pending", "active", "ended"}
CallVisibility == {"private", "link"}
EventType == {"created", "invited", "accepted", "joined", "left", "ended"}

\* "absent" stands for a user with no entry in call.participants.
ParticipantStatus == {"absent", "invited", "joined", "left"}

Call == [roomId       : Codes,
         status       : CallStatus,
         visibility   : CallVisibility,
         creatorId    : Users,
         participants : [Users -> ParticipantStatus],
         endedBy      : Users \cup {None}]

CallEvent == [id : Nat, callId : CallIds, type : EventType, userId : Users]

ASSUME NoneAssumption == None \notin CallIds \cup Users \cup Call
ASSUME InviteesAssumption == InviteeLists \subseteq Seq(Users)
ASSUME MaxEventsAssumption == MaxEvents \in Nat

-----------------------------------------------------------------------------
(* Helpers *)

Exists(c) == calls[c] # None

IsParticipant(c, u) == Exists(c) /\ calls[c].participants[u] # "absent"

Ended(c) == calls[c].status = "ended"

\* The early throws of invite, accept and join.
OpenOrEnded(c) == Exists(c)                              \* wrong
Open(c) == Exists(c) /\ ~Ended(c)

\* Whether join takes a user who is not a participant.
AnyVisibility(c) == TRUE                                 \* wrong
OpenToStrangers(c) == calls[c].visibility = "link"

Event(i, c, type, u) == [id |-> i, callId |-> c, type |-> type, userId |-> u]

\* events.record, once.
Record(c, type, u) ==
    /\ nextId <= MaxEvents
    /\ events' = events \cup {Event(nextId, c, type, u)}
    /\ nextId' = nextId + 1

\* The positions of the invitee list that createCall's loop acts on: it skips
\* the creator, and inviteInternal ignores a user who is already listed.
Fresh(creator, invitees) ==
    {i \in DOMAIN invitees :
        /\ invitees[i] # creator
        /\ \A j \in 1 .. i - 1 : invitees[j] # invitees[i]}

\* The events the loop records; ids follow the order of the list.
InviteEvents(c, creator, invitees) ==
    LET fresh == Fresh(creator, invitees)
    IN  {Event(nextId + Cardinality({j \in fresh : j <= i}), c, "invited",
               invitees[i]) : i \in fresh}

\* The two events accept records.
OnlyAccepted(c, u) == {Event(nextId, c, "accepted", u)}  \* wrong
AcceptEvents(c, u) ==
    {Event(nextId, c, "accepted", u), Event(nextId + 1, c, "joined", u)}

\* What accept and joinAsLinkParticipant do to a call.
EnterUnstarted(c, u) ==                                  \* wrong
    calls' = [calls EXCEPT ![c].participants[u] = "joined"]
Enter(c, u) ==
    calls' = [calls EXCEPT ![c].participants[u] = "joined",
                           ![c].status = "active"]

-----------------------------------------------------------------------------
(* Actions *)

Init ==
    /\ calls = [c \in CallIds |-> None]
    /\ codeIndex = [k \in Codes |-> None]
    /\ events = {}
    /\ nextId = 1

\* reserveRoomCode: some code that is not a key of the index.
AnyCode(code) == TRUE                                    \* wrong
Reservable(code) == codeIndex[code] = None

CreateCall(c, creator, visibility, invitees, code) ==
    /\ ~Exists(c)
    /\ Reservable(code)
    /\ LET fresh == Fresh(creator, invitees)
           invited == {invitees[i] : i \in fresh}
       IN  /\ nextId + Cardinality(fresh) <= MaxEvents
           /\ calls' = [calls EXCEPT ![c] =
                 [roomId       |-> code,
                  status       |-> "pending",
                  visibility   |-> visibility,
                  creatorId    |-> creator,
                  participants |-> [u \in Users |->
                                      IF u = creator THEN "joined"
                                      ELSE IF u \in invited THEN "invited"
                                      ELSE "absent"],
                  endedBy      |-> None]]
           /\ events' = events \cup {Event(nextId, c, "created", creator)}
                               \cup InviteEvents(c, creator, invitees)
           /\ nextId' = nextId + 1 + Cardinality(fresh)
    /\ codeIndex' = [codeIndex EXCEPT ![code] = c]

Invite(c, inviter, invitee) ==
    /\ inviter # invitee
    /\ Open(c)
    /\ IsParticipant(c, inviter)
    /\ \/ IsParticipant(c, invitee) /\ UNCHANGED vars
       \/ /\ ~IsParticipant(c, invitee)
          /\ calls' = [calls EXCEPT ![c].participants[invitee] = "invited"]
          /\ Record(c, "invited", invitee)
          /\ UNCHANGED codeIndex

Accept(c, u) ==
    /\ Open(c)
    /\ IsParticipant(c, u)
    /\ \/ calls[c].participants[u] = "joined" /\ UNCHANGED vars
       \/ /\ calls[c].participants[u] # "joined"
          /\ nextId < MaxEvents
          /\ Enter(c, u)
          /\ events' = events \cup AcceptEvents(c, u)
          /\ nextId' = nextId + 2
          /\ UNCHANGED codeIndex

\* An existing participant, even one who is only invited or has left, gets the
\* call back unchanged; a stranger enters only by link.
Join(c, u) ==
    /\ Open(c)
    /\ \/ IsParticipant(c, u) /\ UNCHANGED vars
       \/ /\ ~IsParticipant(c, u)
          /\ OpenToStrangers(c)
          /\ Enter(c, u)
          /\ Record(c, "joined", u)
          /\ UNCHANGED codeIndex

LeaveAsDeclined(c, u) ==                                 \* wrong
    /\ IsParticipant(c, u)
    /\ calls[c].participants[u] # "left"
    /\ calls' = [calls EXCEPT ![c].participants[u] = "declined"]
    /\ Record(c, "left", u)
    /\ UNCHANGED codeIndex

\* leave does not look at the call's status.
Leave(c, u) ==
    /\ IsParticipant(c, u)
    /\ \/ calls[c].participants[u] = "left" /\ UNCHANGED vars
       \/ /\ calls[c].participants[u] # "left"
          /\ calls' = [calls EXCEPT ![c].participants[u] = "left"]
          /\ Record(c, "left", u)
          /\ UNCHANGED codeIndex

EndAgain(c, u) ==                                        \* wrong
    /\ IsParticipant(c, u)
    /\ calls' = [calls EXCEPT ![c].status = "ended", ![c].endedBy = u]
    /\ Record(c, "ended", u)
    /\ codeIndex' = [codeIndex EXCEPT ![calls[c].roomId] = None]

\* Any participant may end the call; codeIndex.delete takes the call's code
\* whatever call the index holds under it.
End(c, u) ==
    /\ IsParticipant(c, u)
    /\ \/ Ended(c) /\ UNCHANGED vars
       \/ /\ ~Ended(c)
          /\ calls' = [calls EXCEPT ![c].status = "ended", ![c].endedBy = u]
          /\ Record(c, "ended", u)
          /\ codeIndex' = [codeIndex EXCEPT ![calls[c].roomId] = None]

Next ==
    \E c \in CallIds, u \in Users :
        \/ \E visibility \in CallVisibility, invitees \in InviteeLists, code \in Codes :
              CreateCall(c, u, visibility, invitees, code)
        \/ \E invitee \in Users : Invite(c, u, invitee)
        \/ Accept(c, u)
        \/ Join(c, u)
        \/ Leave(c, u)
        \/ End(c, u)

Spec == Init /\ [][Next]_vars

-----------------------------------------------------------------------------
(* Properties *)

\* The shape of the service's state.
TypeOK ==
    /\ calls \in [CallIds -> Call \cup {None}]
    /\ codeIndex \in [Codes -> CallIds \cup {None}]
    /\ events \subseteq CallEvent
    /\ nextId \in Nat

\* A room code resolves to a call exactly while that call is open and carries
\* the code, whatever was created, ended and re-ended in between: no open call
\* loses its code and no code leads to an ended call or to two calls.
CodeIndexExact ==
    \A code \in Codes, c \in CallIds :
        codeIndex[code] = c <=> Exists(c) /\ ~Ended(c) /\ calls[c].roomId = code

EventsOf(c) == {e \in events : e.callId = c}

Recorded(c, type) == \E e \in EventsOf(c) : e.type = type

\* The events that move user u's entry in call c.
Moves(c, u) ==
    {e \in EventsOf(c) : e.userId = u /\ e.type \in {"created", "invited", "joined", "left"}}

StatusAfter(type) == IF type = "created" THEN "joined" ELSE type

\* The journal alone determines the state that is served: each participant's
\* status is that of the last event recorded for them, a call is active iff
\* someone was recorded as joining and ended iff an end was recorded, by the
\* user kept in endedBy, however often end is repeated.
JournalReplaysState ==
    \A c \in CallIds :
        /\ ~Exists(c) => EventsOf(c) = {}
        /\ Exists(c) =>
              /\ \A u \in Users :
                    /\ IsParticipant(c, u) <=> Moves(c, u) # {}
                    /\ \A e \in Moves(c, u) :
                          (\A f \in Moves(c, u) : f.id <= e.id)
                              => calls[c].participants[u] = StatusAfter(e.type)
              /\ calls[c].status = IF Recorded(c, "ended") THEN "ended"
                                   ELSE IF Recorded(c, "joined") THEN "active"
                                   ELSE "pending"
              /\ \A e \in EventsOf(c) :
                    e.type = "ended" => calls[c].endedBy = e.userId

\* Nobody is invited to, accepts, joins or ends a call after its end was
\* recorded; leaving is the only thing leave() still allows.
OnlyLeavingAfterEnd ==
    \A e, f \in events :
        e.type = "ended" /\ f.callId = e.callId /\ e.id < f.id => f.type = "left"

\* In a private call everybody but the creator got in by invitation: their
\* story in the journal starts with an invitation.
PrivateByInvitation ==
    \A c \in CallIds, u \in Users :
        IsParticipant(c, u) /\ calls[c].visibility = "private" /\ u # calls[c].creatorId
            => \E e \in EventsOf(c) :
                  /\ e.userId = u /\ e.type = "invited"
                  /\ \A f \in EventsOf(c) : f.userId = u => e.id <= f.id

-----------------------------------------------------------------------------
(* What the service promises: CallLifecycle. *)

PhaseOf(c) == IF Exists(c) THEN calls[c].status ELSE "none"

RosterOf(c) == {u \in Users : IsParticipant(c, u)}

PresentIn(c) == {u \in Users : Exists(c) /\ calls[c].participants[u] = "joined"}

Lifecycle ==
    INSTANCE CallLifecycle WITH
        phase     <- [c \in CallIds |-> PhaseOf(c)],
        roster    <- [c \in CallIds |-> RosterOf(c)],
        present   <- [c \in CallIds |-> PresentIn(c)],
        directory <- codeIndex

\* The service implements the life cycle: its steps open, fill, activate and
\* close calls only as the abstract specification allows.
ImplementsLifecycle == Lifecycle!Spec
=============================================================================
