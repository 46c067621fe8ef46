------------------------------ MODULE Signaling ------------------------------
(***************************************************************************)
(* Rooms of the signaling gateway: who joins, leaves and drops out of the  *)
(* WebRTC mesh of a call, and what the other peers are told.               *)
(*   src/signaling/signaling.gateway.ts   handlePeerJoin, handlePeerLeave, *)
(*                                        handleDisconnect                 *)
(*   src/signaling/room.registry.ts       RoomRegistry, one per process    *)
(*                                                                         *)
(* peer:join is an async handler, cut at its awaits.  The event bus may    *)
(* answer at once or through a promise (calls-event-bus.ts): while the     *)
(* promise is pending ("asked") the process handles other messages and     *)
(* disconnections.  From the answer on the handler only waits for promises *)
(* that are already settled, and Node resumes it before it takes the next  *)
(* message: such a handler makes its process busy, and only the handlers   *)
(* of other joins can come in between.                                     *)
(*                                                                         *)
(* Socket.io's rooms span the processes (Redis adapter); a message to a    *)
(* room is taken to reach its connected sockets at once.  Requests that    *)
(* are refused before anything changes (rate limit, invalid payload, a     *)
(* "from" other than the socket's user) are left out.                      *)
(*                                                                         *)
(* A definition marked "wrong" is a plausible bug: no action uses it, and  *)
(* the properties are tested against it (see PROJECT.json, mutants).       *)
(***************************************************************************)
CONSTANTS
    Sockets,     \* socket ids; a client that reconnects gets a new one
    Users,
    CallIds,
    Processes,   \* server processes behind the load balancer
    UserOf,      \* the user a socket's token was verified for
    Home,        \* the process a socket is connected to
    CallsOf      \* the calls its client asks to join

VARIABLES
    fresh,       \* sockets that have not connected yet
    live,        \* connected sockets
    registry,    \* RoomRegistry.rooms of each process: who is in a call
    rooms,       \* socket.io's rooms
    joins,       \* peer:join handlers that have not returned
    knows,       \* the peers each client was told of and not told to have left
    vouched,     \* history: <<c, u>> for which the bus has answered yes
    abandoned    \* history: <<s, c>> whose socket closed on a pending join

vars == <<fresh, live, registry, rooms, joins, knows, vouched, abandoned>>

ASSUME UserOfAssumption == UserOf \in [Sockets -> Users]
ASSUME HomeAssumption == Home \in [Sockets -> Processes]
ASSUME CallsOfAssumption == CallsOf \in [Sockets -> SUBSET CallIds]

\* "asked": waiting for the bus.  "yes", "no": the bus has answered.
\* "entered": in the registry, waiting for client.join.
Stage == {"asked", "yes", "no", "entered"}

Join == [socket : Sockets, call : CallIds, stage : Stage]

-----------------------------------------------------------------------------
(* Helpers *)

\* RoomRegistry.members of the process that serves socket s.
Members(s, c) == registry[Home[s]][c]

\* RoomRegistry.isParticipant.
InRoom(s, c) == \E t \in Members(s, c) : UserOf[t] = UserOf[s]

\* The condition handlePeerJoin lets a socket in on.
AnyoneInside(j) == j.stage = "yes" \/ rooms[j.call] # {}               \* wrong
OnlyInside(j) == j.stage = "yes" /\ InRoom(j.socket, j.call)           \* wrong
Authorized(j) == j.stage = "yes" \/ InRoom(j.socket, j.call)

\* The peers of the acknowledgement: the members this process knows.
OtherUsers(s, c) == {t \in Members(s, c) : UserOf[t] # UserOf[s]}      \* wrong
Peers(s, c) == Members(s, c) \ {s}

\* Whether a handler is about to resume in the process.
Busy(p) == \E j \in joins : Home[j.socket] = p /\ j.stage # "asked"

\* RoomRegistry.leave: the socket leaves every call of its process.
LeaveNone(s) == registry                                               \* wrong
LeaveAll(s) ==
    [registry EXCEPT ![Home[s]] = [c \in CallIds |-> @[c] \ {s}]]

\* Clients hear peer:joined, sent to c's room but for the sender.
Joined(s, c) ==
    [t \in Sockets |->
        IF t \in (rooms[c] \cap live) \ {s}
        THEN [knows[t] EXCEPT ![c] = @ \cup {s}] ELSE knows[t]]

-----------------------------------------------------------------------------
(* Actions *)

Init ==
    /\ fresh = Sockets
    /\ live = {}
    /\ registry = [p \in Processes |-> [c \in CallIds |-> {}]]
    /\ rooms = [c \in CallIds |-> {}]
    /\ joins = {}
    /\ knows = [s \in Sockets |-> [c \in CallIds |-> {}]]
    /\ vouched = {}
    /\ abandoned = {}

ConnectAgain(s) ==                                                     \* wrong
    /\ s \in fresh
    /\ live' = live \cup {s}
    /\ UNCHANGED <<fresh, registry, rooms, joins, knows, vouched, abandoned>>
Connect(s) ==
    /\ s \in fresh
    /\ fresh' = fresh \ {s}
    /\ live' = live \cup {s}
    /\ UNCHANGED <<registry, rooms, joins, knows, vouched, abandoned>>

\* socket.io takes the socket out of its rooms before handleDisconnect runs.
DisconnectSilently(s) ==                                               \* wrong
    /\ s \in live
    /\ ~Busy(Home[s])
    /\ live' = live \ {s}
    /\ rooms' = [c \in CallIds |-> rooms[c] \ {s}]
    /\ registry' = LeaveAll(s)
    /\ knows' = [knows EXCEPT ![s] = [c \in CallIds |-> {}]]
    /\ abandoned' = abandoned \cup
                       {<<s, c>> : c \in {j.call : j \in {i \in joins : i.socket = s}}}
    /\ UNCHANGED <<fresh, joins, vouched>>
Disconnect(s) ==
    /\ s \in live
    /\ ~Busy(Home[s])
    /\ live' = live \ {s}
    /\ rooms' = [c \in CallIds |-> rooms[c] \ {s}]
    /\ registry' = LeaveAll(s)
    /\ knows' = [t \in Sockets |->
                    IF t = s THEN [c \in CallIds |-> {}]
                    ELSE [c \in CallIds |->
                             IF s \in Members(s, c) /\ t \in rooms[c]
                             THEN knows[t][c] \ {s} ELSE knows[t][c]]]
    /\ abandoned' = abandoned \cup
                       {<<s, c>> : c \in {j.call : j \in {i \in joins : i.socket = s}}}
    /\ UNCHANGED <<fresh, joins, vouched>>

\* handlePeerJoin up to the call of the bus.
PeerJoin(s, c) ==
    /\ s \in live
    /\ c \in CallsOf[s]
    /\ joins' = joins \cup {[socket |-> s, call |-> c, stage |-> "asked"]}
    /\ UNCHANGED <<fresh, live, registry, rooms, knows, vouched, abandoned>>

\* The bus answers, at once or much later, whatever has become of the socket.
BusAnswers(j, answer) ==
    /\ j.stage = "asked"
    /\ joins' = (joins \ {j}) \cup {[j EXCEPT !.stage = answer]}
    /\ vouched' = IF answer = "yes" THEN vouched \cup {<<j.call, UserOf[j.socket]>>}
                  ELSE vouched
    /\ UNCHANGED <<fresh, live, registry, rooms, knows, abandoned>>

\* The promise is rejected: the handler ends with an error.
BusFails(j) ==
    /\ j.stage = "asked"
    /\ joins' = joins \ {j}
    /\ UNCHANGED <<fresh, live, registry, rooms, knows, vouched, abandoned>>

\* registry.join, then the synchronous part of client.join.
EnterRoomOnly(j) ==                                                    \* wrong
    /\ j.stage \in {"yes", "no"}
    /\ Authorized(j)
    /\ rooms' = [rooms EXCEPT ![j.call] = @ \cup {j.socket}]
    /\ joins' = (joins \ {j}) \cup {[j EXCEPT !.stage = "entered"]}
    /\ UNCHANGED <<fresh, live, registry, knows, vouched, abandoned>>
EnterRoom(j) ==
    /\ j.stage \in {"yes", "no"}
    /\ Authorized(j)
    /\ registry' = [registry EXCEPT ![Home[j.socket]][j.call] = @ \cup {j.socket}]
    /\ rooms' = [rooms EXCEPT ![j.call] = @ \cup {j.socket}]
    /\ joins' = (joins \ {j}) \cup {[j EXCEPT !.stage = "entered"]}
    /\ UNCHANGED <<fresh, live, knows, vouched, abandoned>>

Forbidden(j) ==
    /\ j.stage \in {"yes", "no"}
    /\ ~Authorized(j)
    /\ joins' = joins \ {j}
    /\ UNCHANGED <<fresh, live, registry, rooms, knows, vouched, abandoned>>

\* peer:joined to the room, and the acknowledgement.
Welcome(j) ==
    LET s == j.socket
        c == j.call
    IN  /\ j.stage = "entered"
        /\ joins' = joins \ {j}
        /\ knows' = IF s \in live
                    THEN [Joined(s, c) EXCEPT ![s][c] = @ \cup Peers(s, c)]
                    ELSE Joined(s, c)
        /\ UNCHANGED <<fresh, live, registry, rooms, vouched, abandoned>>

\* handlePeerLeave tells only the room of the call it was sent for.
PeerLeaveSilently(s, c) ==                                             \* wrong
    /\ s \in live
    /\ ~Busy(Home[s])
    /\ s \in Members(s, c)
    /\ rooms' = [rooms EXCEPT ![c] = @ \ {s}]
    /\ registry' = LeaveAll(s)
    /\ knows' = [knows EXCEPT ![s][c] = {}]
    /\ UNCHANGED <<fresh, live, joins, vouched, abandoned>>
PeerLeave(s, c) ==
    /\ s \in live
    /\ ~Busy(Home[s])
    /\ s \in Members(s, c)
    /\ rooms' = [rooms EXCEPT ![c] = @ \ {s}]
    /\ registry' = LeaveAll(s)
    /\ knows' = [t \in Sockets |->
                    IF t = s THEN [knows[s] EXCEPT ![c] = {}]
                    ELSE IF t \in rooms[c] THEN [knows[t] EXCEPT ![c] = @ \ {s}]
                    ELSE knows[t]]
    /\ UNCHANGED <<fresh, live, joins, vouched, abandoned>>

Resume(j) == EnterRoom(j) \/ Forbidden(j) \/ Welcome(j)

Next ==
    \/ \E s \in Sockets :
          \/ Connect(s)
          \/ Disconnect(s)
          \/ \E c \in CallIds : PeerJoin(s, c) \/ PeerLeave(s, c)
    \/ \E j \in joins :
          \/ \E answer \in {"yes", "no"} : BusAnswers(j, answer)
          \/ BusFails(j)
          \/ Resume(j)

Spec == Init /\ [][Next]_vars

\* Node runs every settled promise, so a handler the bus has answered goes on.
\* Nothing is assumed of the bus, of the network or of the clients.
Fairness == \A j \in Join : WF_vars(j \in joins /\ Resume(j))

FairSpec == Spec /\ Fairness

-----------------------------------------------------------------------------
(* Properties *)

\* The shape of the gateway's state.
TypeOK ==
    /\ fresh \subseteq Sockets
    /\ live \subseteq Sockets \ fresh
    /\ registry \in [Processes -> [CallIds -> SUBSET Sockets]]
    /\ rooms \in [CallIds -> SUBSET Sockets]
    /\ joins \subseteq Join
    /\ knows \in [Sockets -> [CallIds -> SUBSET Sockets]]
    /\ vouched \subseteq CallIds \X Users
    /\ abandoned \subseteq Sockets \X CallIds

\* Everybody some process has registered in the call.
Registered(c) == {s \in Sockets : \E p \in Processes : s \in registry[p][c]}

\* A connected peer whose peer:join for the call has been answered.
Settled(s, c) ==
    /\ s \in Registered(c) \cap live
    /\ \A j \in joins : j.socket = s /\ j.call = c => j.stage # "entered"

\* Of two settled peers of a call one knows the other, and on one process each
\* knows the other, whichever came first and however their peer:join handlers
\* were interleaved: between them the acknowledgement of one and the
\* peer:joined of the other leave no gap.
PeersMeet ==
    \A c \in CallIds : \A s, t \in Sockets :
        Settled(s, c) /\ Settled(t, c) /\ s # t =>
            /\ t \in knows[s][c] \/ s \in knows[t][c]
            /\ Home[s] = Home[t] => t \in knows[s][c]

\* Two settled peers of a call know of each other.
PeersKnowEachOther ==
    \A c \in CallIds : \A s, t \in Sockets :
        Settled(s, c) /\ Settled(t, c) /\ s # t => t \in knows[s][c]

\* A client does not go on offering media to a peer the registry has dropped:
\* every departure reaches everybody who was told of the arrival.
KnownPeersRegistered ==
    \A c \in CallIds : \A s \in live : knows[s][c] \subseteq Registered(c)

\* Socket.io's room and the registry agree on who takes part in a call, so
\* that a broadcast reaches exactly the registered peers.
RoomsAgree ==
    \A c \in CallIds : rooms[c] \cap live = Registered(c) \cap live

\* The registry lets a second socket of a user in without the bus, yet nobody
\* is a member whose user the bus has never vouched for in that call.
MembersVouched ==
    \A p \in Processes, c \in CallIds : \A s \in registry[p][c] :
        <<c, UserOf[s]>> \in vouched

\* The only closed sockets that stay registered are those that closed while
\* the bus was still to answer their peer:join.
OnlyAbandonedGhosts ==
    \A c \in CallIds : \A s \in Registered(c) : s \in live \/ <<s, c>> \in abandoned

\* A closed socket is not a member of any call (handleDisconnect).
NoGhosts == \A c \in CallIds : Registered(c) \subseteq live

\* What PeerMesh calls seeing: a connected client was told of the peer, or is
\* about to be told, by a handler that only waits for Node to resume it, and has
\* not been told that it left.  The peer itself may have closed meanwhile.
Entering(s, c) == \E j \in joins : j.socket = s /\ j.call = c /\ j.stage = "entered"

Sees(s, c) ==
    {t \in Sockets \ {s} :
        /\ s \in live
        /\ \/ t \in knows[s][c]
           \/ Entering(t, c) /\ s \in rooms[c]
           \/ Entering(s, c) /\ t \in Members(s, c)}

\* Sockets whose clients never ask for a second call: peer:leave takes a socket
\* out of one room but, in the registry, out of every call.
SingleCallers == {s \in Sockets : \A c, d \in CallsOf[s] : c = d}

\* What PeerMesh sees of them: the registered peers, closed ones (NoGhosts)
\* included, whom the connected clients see, and who has closed.
There(c) == Registered(c) \cap SingleCallers
Seen(s, c) == Sees(s, c) \cap SingleCallers
Gone == SingleCallers \ (fresh \cup live)

\* Among the sockets that only ever ask for one call the gateway does what
\* PeerMesh promises, on any number of processes, whatever comes late and
\* whatever the other sockets do: who leaves or closes is out of the sight of
\* all who were told of it because handlePeerLeave and handleDisconnect tell
\* them, and a closed socket is only ever seen when it entered after it closed.
Mesh == INSTANCE PeerMesh WITH
    Sockets <- SingleCallers,
    present <- [c \in CallIds |-> There(c)],
    sees <- [s \in SingleCallers |-> [c \in CallIds |-> Seen(s, c)]],
    gone <- Gone
ImplementsMesh == Mesh!Spec

\* A peer the bus admits gets in and is announced: at some later moment it is
\* registered and everybody connected to the room knows of it.
AdmittedIsAnnounced ==
    \A s \in Sockets, c \in CallIds :
        (\E j \in joins : j = [socket |-> s, call |-> c, stage |-> "yes"])
            ~> /\ s \in Registered(c)
               /\ \A t \in (rooms[c] \cap live) \ {s} : s \in knows[t][c]
=============================================================================
