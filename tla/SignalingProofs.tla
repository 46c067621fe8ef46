--------------------------- MODULE SignalingProofs ---------------------------
(***************************************************************************)
(* Proofs about Signaling, for any sockets, users, calls and processes.    *)
(***************************************************************************)
EXTENDS Signaling, TLAPS

-----------------------------------------------------------------------------
(* Shape of the state *)

LEMMA TypeStep == TypeOK /\ [Next]_vars => TypeOK'
<1> SUFFICES ASSUME TypeOK, [Next]_vars PROVE TypeOK'
  OBVIOUS
<1> USE UserOfAssumption, HomeAssumption
<1>1. ASSUME NEW s \in Sockets, Connect(s) PROVE TypeOK'
  BY <1>1 DEF TypeOK, Connect
<1>2. ASSUME NEW s \in Sockets, Disconnect(s) PROVE TypeOK'
  <2>1. registry' \in [Processes -> [CallIds -> SUBSET Sockets]]
    BY <1>2 DEF TypeOK, Disconnect, LeaveAll
  <2>2. knows' \in [Sockets -> [CallIds -> SUBSET Sockets]]
    BY <1>2 DEF TypeOK, Disconnect
  <2>3. abandoned' \subseteq Sockets \X CallIds
    BY <1>2 DEF TypeOK, Disconnect, Join
  <2> QED
    BY <1>2, <2>1, <2>2, <2>3 DEF TypeOK, Disconnect
<1>3. ASSUME NEW s \in Sockets, NEW c \in CallIds, PeerJoin(s, c) PROVE TypeOK'
  BY <1>3 DEF TypeOK, PeerJoin, Join, Stage
<1>4. ASSUME NEW s \in Sockets, NEW c \in CallIds, PeerLeave(s, c) PROVE TypeOK'
  <2>1. registry' \in [Processes -> [CallIds -> SUBSET Sockets]]
    BY <1>4 DEF TypeOK, PeerLeave, LeaveAll
  <2>2. knows' \in [Sockets -> [CallIds -> SUBSET Sockets]]
    BY <1>4 DEF TypeOK, PeerLeave
  <2> QED
    BY <1>4, <2>1, <2>2 DEF TypeOK, PeerLeave
<1>5. ASSUME NEW j \in joins, NEW answer \in {"yes", "no"}, BusAnswers(j, answer)
      PROVE TypeOK'
  <2>1. j \in Join /\ [j EXCEPT !.stage = answer] \in Join
    BY DEF TypeOK, Join, Stage
  <2>2. <<j.call, UserOf[j.socket]>> \in CallIds \X Users
    BY <2>1 DEF Join
  <2> QED
    BY <1>5, <2>1, <2>2 DEF TypeOK, BusAnswers
<1>6. ASSUME NEW j \in joins, BusFails(j) PROVE TypeOK'
  BY <1>6 DEF TypeOK, BusFails
<1>7. ASSUME NEW j \in joins, EnterRoom(j) PROVE TypeOK'
  BY <1>7 DEF TypeOK, EnterRoom, Join, Stage
<1>8. ASSUME NEW j \in joins, Forbidden(j) PROVE TypeOK'
  BY <1>8 DEF TypeOK, Forbidden
<1>9. ASSUME NEW j \in joins, Welcome(j) PROVE TypeOK'
  <2>1. j.socket \in Sockets /\ j.call \in CallIds
    BY DEF TypeOK, Join
  <2>2. Joined(j.socket, j.call) \in [Sockets -> [CallIds -> SUBSET Sockets]]
    BY <2>1 DEF TypeOK, Joined
  <2>3. Peers(j.socket, j.call) \subseteq Sockets
    BY <2>1 DEF TypeOK, Peers, Members
  <2>4. knows' \in [Sockets -> [CallIds -> SUBSET Sockets]]
    BY <1>9, <2>1, <2>2, <2>3 DEF Welcome
  <2> QED
    BY <1>9, <2>4 DEF TypeOK, Welcome
<1>10. CASE UNCHANGED vars
  BY <1>10 DEF TypeOK, vars
<1> QED
  BY <1>1, <1>2, <1>3, <1>4, <1>5, <1>6, <1>7, <1>8, <1>9, <1>10 DEF Next, Resume

\* The gateway's state keeps its shape.
THEOREM SignalingTypeCorrect == Spec => []TypeOK
<1>1. Init => TypeOK
  BY DEF Init, TypeOK
<1>2. TypeOK /\ [Next]_vars => TypeOK'
  BY TypeStep
<1> QED
  BY <1>1, <1>2, PTL DEF Spec

-----------------------------------------------------------------------------
(* Members are vouched for *)

\* Inductive: handlers past a "yes" carry a user the bus has vouched for, and
\* so does every member, which is what lets a second socket in.
VouchedInv ==
    /\ TypeOK
    /\ MembersVouched
    /\ \A j \in joins : j.stage = "yes" => <<j.call, UserOf[j.socket]>> \in vouched

LEMMA VouchedStep == VouchedInv /\ [Next]_vars => VouchedInv'
<1> SUFFICES ASSUME VouchedInv, [Next]_vars PROVE VouchedInv'
  OBVIOUS
<1> USE UserOfAssumption, HomeAssumption
<1>0. TypeOK'
  BY TypeStep DEF VouchedInv
<1> DEFINE Yes == \A j \in joins : j.stage = "yes" => <<j.call, UserOf[j.socket]>> \in vouched
<1>a. SUFFICES MembersVouched' /\ Yes'
  BY <1>0 DEF VouchedInv
<1>1. ASSUME NEW s \in Sockets, Disconnect(s) PROVE MembersVouched' /\ Yes'
  <2>1. \A p \in Processes, c \in CallIds : registry'[p][c] \subseteq registry[p][c]
    BY <1>1 DEF VouchedInv, TypeOK, Disconnect, LeaveAll
  <2> QED
    BY <1>1, <2>1 DEF VouchedInv, MembersVouched, Disconnect
<1>2. ASSUME NEW s \in Sockets, NEW c \in CallIds, PeerLeave(s, c)
      PROVE MembersVouched' /\ Yes'
  <2>1. \A p \in Processes, d \in CallIds : registry'[p][d] \subseteq registry[p][d]
    BY <1>2 DEF VouchedInv, TypeOK, PeerLeave, LeaveAll
  <2> QED
    BY <1>2, <2>1 DEF VouchedInv, MembersVouched, PeerLeave
<1>3. ASSUME NEW s \in Sockets, NEW c \in CallIds, PeerJoin(s, c)
      PROVE MembersVouched' /\ Yes'
  BY <1>3 DEF VouchedInv, MembersVouched, PeerJoin
<1>4. ASSUME NEW j \in joins, NEW answer \in {"yes", "no"}, BusAnswers(j, answer)
      PROVE MembersVouched' /\ Yes'
  <2>1. vouched \subseteq vouched' /\ registry' = registry
    BY <1>4 DEF BusAnswers
  <2>2. MembersVouched'
    BY <2>1 DEF VouchedInv, MembersVouched
  <2>3. Yes'
    BY <1>4, <2>1 DEF VouchedInv, BusAnswers, TypeOK, Join
  <2> QED BY <2>2, <2>3
<1>5. ASSUME NEW j \in joins, EnterRoom(j) PROVE MembersVouched' /\ Yes'
  <2>1. <<j.call, UserOf[j.socket]>> \in vouched
    BY <1>5 DEF EnterRoom, Authorized, InRoom, Members, VouchedInv, MembersVouched, TypeOK, Join
  <2>2. MembersVouched'
    BY <1>5, <2>1 DEF EnterRoom, VouchedInv, MembersVouched, TypeOK, Join
  <2>3. Yes'
    BY <1>5 DEF EnterRoom, VouchedInv, TypeOK, Join
  <2> QED BY <2>2, <2>3
<1>6. ASSUME NEW j \in joins, Forbidden(j) \/ Welcome(j) \/ BusFails(j)
      PROVE MembersVouched' /\ Yes'
  BY <1>6 DEF Forbidden, Welcome, BusFails, VouchedInv, MembersVouched
<1>7. ASSUME NEW s \in Sockets, Connect(s) PROVE MembersVouched' /\ Yes'
  BY <1>7 DEF Connect, VouchedInv, MembersVouched
<1>8. CASE UNCHANGED vars
  BY <1>8 DEF vars, VouchedInv, MembersVouched
<1> QED
  BY <1>1, <1>2, <1>3, <1>4, <1>5, <1>6, <1>7, <1>8 DEF Next, Resume

LEMMA VouchedInitially == Init => VouchedInv
BY DEF Init, VouchedInv, MembersVouched, TypeOK

\* Nobody is in a call whose user the bus has not vouched for in that call,
\* although the registry is a second way in.
THEOREM MembersVouchedFor == Spec => []MembersVouched
<1>1. Init => VouchedInv
  BY VouchedInitially
<1>2. VouchedInv /\ [Next]_vars => VouchedInv'
  BY VouchedStep
<1>3. VouchedInv => MembersVouched
  BY DEF VouchedInv
<1> QED
  BY <1>1, <1>2, <1>3, PTL DEF Spec

-----------------------------------------------------------------------------
(* Facts about the registries *)

\* A socket is registered only by the process it is connected to.
Placed == \A p \in Processes, c \in CallIds : \A s \in registry[p][c] : Home[s] = p

\* leave takes the socket, and nobody else, out of every call.
LEMMA Removed ==
    ASSUME TypeOK, Placed, NEW s \in Sockets, registry' = LeaveAll(s)
    PROVE  /\ Placed'
           /\ \A d \in CallIds : Registered(d)' = Registered(d) \ {s}
           /\ \A p \in Processes, d \in CallIds : registry'[p][d] = registry[p][d] \ {s}
<1> USE HomeAssumption
<1>1. \A p \in Processes, d \in CallIds :
         registry'[p][d] = IF p = Home[s] THEN registry[p][d] \ {s} ELSE registry[p][d]
  BY DEF TypeOK, LeaveAll
<1>2. ASSUME NEW p \in Processes, NEW d \in CallIds
      PROVE  registry'[p][d] = registry[p][d] \ {s}
  <2>1. CASE p = Home[s]
    BY <1>1, <2>1
  <2>2. CASE p # Home[s]
    <3>1. s \notin registry[p][d]
      BY <2>2 DEF Placed
    <3> QED BY <1>1, <2>2, <3>1
  <2> QED BY <2>1, <2>2
<1>3. Placed'
  BY <1>2 DEF Placed
<1>4. ASSUME NEW d \in CallIds PROVE Registered(d)' = Registered(d) \ {s}
  BY <1>2 DEF Registered
<1> QED
  BY <1>2, <1>3, <1>4

\* One client is told more of one call.
LEMMA OneMoreTold ==
    ASSUME NEW told \in [Sockets -> [CallIds -> SUBSET Sockets]], NEW peers,
           NEW u \in Sockets, NEW d \in CallIds, NEW s \in Sockets, NEW c \in CallIds
    PROVE  /\ c = d /\ s = u =>
                 [told EXCEPT ![u][d] = @ \cup peers][s][c] = told[s][c] \cup peers
           /\ ~ (c = d /\ s = u) => [told EXCEPT ![u][d] = @ \cup peers][s][c] = told[s][c]
<1>1. told[s] \in [CallIds -> SUBSET Sockets]
  OBVIOUS
<1>2. CASE s = u
  <2>1. [told EXCEPT ![u][d] = @ \cup peers][s] = [told[s] EXCEPT ![d] = @ \cup peers]
    BY <1>2
  <2> QED BY <1>1, <1>2, <2>1
<1>3. CASE s # u
  <2>1. [told EXCEPT ![u][d] = @ \cup peers][s] = told[s]
    BY <1>3
  <2> QED BY <1>3, <2>1
<1> QED BY <1>2, <1>3

\* What peer:joined and the acknowledgement tell the clients.
LEMMA Told ==
    ASSUME TypeOK, NEW j \in joins, NEW u \in Sockets, NEW d \in CallIds,
           u = j.socket, d = j.call, Welcome(j)
    PROVE  \A s, t \in Sockets, c \in CallIds :
              t \in knows'[s][c] <=>
                 \/ t \in knows[s][c]
                 \/ c = d /\ s \in rooms[d] /\ s \in live /\ s # u /\ t = u
                 \/ c = d /\ s = u /\ u \in live /\ t \in Peers(u, d)
<1>1. knows \in [Sockets -> [CallIds -> SUBSET Sockets]]
  BY DEF TypeOK
<1>2. ASSUME NEW s \in Sockets
      PROVE  Joined(u, d)[s] = IF s \in (rooms[d] \cap live) \ {u}
                               THEN [knows[s] EXCEPT ![d] = @ \cup {u}] ELSE knows[s]
  BY DEF Joined
<1>3. ASSUME NEW s \in Sockets, NEW c \in CallIds
      PROVE  Joined(u, d)[s][c] = IF c = d /\ s \in (rooms[d] \cap live) \ {u}
                                  THEN knows[s][c] \cup {u} ELSE knows[s][c]
  <2>1. knows[s] \in [CallIds -> SUBSET Sockets]
    BY <1>1
  <2>2. CASE s \in (rooms[d] \cap live) \ {u}
    <3>1. Joined(u, d)[s] = [knows[s] EXCEPT ![d] = @ \cup {u}]
      BY <1>2, <2>2
    <3> QED BY <2>1, <2>2, <3>1
  <2>3. CASE s \notin (rooms[d] \cap live) \ {u}
    <3>1. Joined(u, d)[s] = knows[s]
      BY <1>2, <2>3
    <3> QED BY <2>3, <3>1
  <2> QED BY <2>2, <2>3
<1>4. Joined(u, d) \in [Sockets -> [CallIds -> SUBSET Sockets]]
  BY <1>1 DEF Joined
<1>5. knows' = IF u \in live THEN [Joined(u, d) EXCEPT ![u][d] = @ \cup Peers(u, d)]
               ELSE Joined(u, d)
  BY DEF Welcome
<1>6. ASSUME NEW s \in Sockets, NEW c \in CallIds
      PROVE  knows'[s][c] = IF c = d /\ s = u /\ u \in live
                            THEN Joined(u, d)[s][c] \cup Peers(u, d) ELSE Joined(u, d)[s][c]
  <2>1. CASE u \notin live
    BY <1>5, <2>1
  <2>2. CASE u \in live
    <3>1. knows' = [Joined(u, d) EXCEPT ![u][d] = @ \cup Peers(u, d)]
      BY <1>5, <2>2
    <3>2. PICK told \in [Sockets -> [CallIds -> SUBSET Sockets]] : told = Joined(u, d)
      BY <1>4
    <3>3. PICK peers : peers = Peers(u, d)
      OBVIOUS
    <3>4. /\ c = d /\ s = u =>
                [told EXCEPT ![u][d] = @ \cup peers][s][c] = told[s][c] \cup peers
          /\ ~ (c = d /\ s = u) => [told EXCEPT ![u][d] = @ \cup peers][s][c] = told[s][c]
      BY OneMoreTold
    <3>5. knows' = [told EXCEPT ![u][d] = @ \cup peers]
      BY <3>1, <3>2, <3>3
    <3> QED BY <2>2, <3>2, <3>3, <3>4, <3>5
  <2> QED BY <2>1, <2>2
<1> SUFFICES ASSUME NEW s \in Sockets, NEW t \in Sockets, NEW c \in CallIds
             PROVE  t \in knows'[s][c] <=>
                       \/ t \in knows[s][c]
                       \/ c = d /\ s \in rooms[d] /\ s \in live /\ s # u /\ t = u
                       \/ c = d /\ s = u /\ u \in live /\ t \in Peers(u, d)
  OBVIOUS
<1>7. t \in Joined(u, d)[s][c] <=>
         \/ t \in knows[s][c]
         \/ c = d /\ s \in rooms[d] /\ s \in live /\ s # u /\ t = u
  <2>1. CASE c = d /\ s \in (rooms[d] \cap live) \ {u}
    <3>1. Joined(u, d)[s][c] = knows[s][c] \cup {u}
      BY <1>3, <2>1
    <3> QED BY <2>1, <3>1
  <2>2. CASE ~ (c = d /\ s \in (rooms[d] \cap live) \ {u})
    <3>1. Joined(u, d)[s][c] = knows[s][c]
      BY <1>3, <2>2
    <3> QED BY <2>2, <3>1
  <2> QED BY <2>1, <2>2
<1>8. t \in knows'[s][c] <=>
         \/ t \in Joined(u, d)[s][c]
         \/ c = d /\ s = u /\ u \in live /\ t \in Peers(u, d)
  <2>1. CASE c = d /\ s = u /\ u \in live
    <3>1. knows'[s][c] = Joined(u, d)[s][c] \cup Peers(u, d)
      BY <1>6, <2>1
    <3> QED BY <2>1, <3>1
  <2>2. CASE ~ (c = d /\ s = u /\ u \in live)
    <3>1. knows'[s][c] = Joined(u, d)[s][c]
      BY <1>6, <2>2
    <3> QED BY <2>2, <3>1
  <2> QED BY <2>1, <2>2
<1> QED BY <1>7, <1>8

\* EnterRoom registers its socket in its call and changes nothing else there.
LEMMA Added ==
    ASSUME TypeOK, Placed, NEW j \in joins, EnterRoom(j)
    PROVE  /\ Placed'
           /\ j.socket \in Sockets /\ j.call \in CallIds
           /\ Registered(j.call)' = Registered(j.call) \cup {j.socket}
           /\ \A d \in CallIds \ {j.call} : Registered(d)' = Registered(d)
<1> USE HomeAssumption
<1>1. j.socket \in Sockets /\ j.call \in CallIds
  BY DEF TypeOK, Join
<1>2. \A p \in Processes, d \in CallIds : \A t :
         t \in registry'[p][d] <=>
            \/ t \in registry[p][d]
            \/ t = j.socket /\ p = Home[j.socket] /\ d = j.call
  BY <1>1 DEF TypeOK, EnterRoom
<1>3. Placed'
  BY <1>1, <1>2 DEF Placed
<1>4. ASSUME NEW d \in CallIds \ {j.call} PROVE Registered(d)' = Registered(d)
  BY <1>2 DEF Registered
<1>5. Registered(j.call)' = Registered(j.call) \cup {j.socket}
  BY <1>1, <1>2 DEF Registered
<1> QED
  BY <1>1, <1>3, <1>4, <1>5

\* The other steps leave the registries alone.
Unregistered == UNCHANGED registry

LEMMA Untouched ==
    ASSUME Placed, Unregistered
    PROVE  Placed' /\ \A d \in CallIds : Registered(d)' = Registered(d)
BY DEF Placed, Unregistered, Registered

-----------------------------------------------------------------------------
(* Ghosts *)

\* Inductive: the handlers of closed sockets belong to abandoned joins.
GhostInv ==
    /\ TypeOK
    /\ Placed
    /\ OnlyAbandonedGhosts
    /\ \A j \in joins : j.socket \in live \/ <<j.socket, j.call>> \in abandoned

LEMMA GhostStep == GhostInv /\ [Next]_vars => GhostInv'
<1> SUFFICES ASSUME GhostInv, [Next]_vars PROVE GhostInv'
  OBVIOUS
<1> DEFINE Ghosts == OnlyAbandonedGhosts
           Late == \A j \in joins : j.socket \in live \/ <<j.socket, j.call>> \in abandoned
<1>0. TypeOK /\ Placed /\ Ghosts /\ Late /\ TypeOK'
  BY TypeStep DEF GhostInv
<1>a. SUFFICES Placed' /\ Ghosts' /\ Late'
  BY <1>0 DEF GhostInv
<1>1. ASSUME NEW s \in Sockets, Disconnect(s) PROVE Placed' /\ Ghosts' /\ Late'
  <2>1. Placed' /\ \A d \in CallIds : Registered(d)' = Registered(d) \ {s}
    BY <1>0, <1>1, Removed DEF Disconnect
  <2>2. live' = live \ {s} /\ abandoned \subseteq abandoned' /\ joins' = joins
    BY <1>1 DEF Disconnect
  <2>3. Ghosts'
    BY <1>0, <2>1, <2>2 DEF OnlyAbandonedGhosts
  <2>4. \A j \in joins : j.socket = s => <<j.socket, j.call>> \in abandoned'
    BY <1>1 DEF Disconnect
  <2>5. Late'
    BY <1>0, <2>2, <2>4
  <2> QED BY <2>1, <2>3, <2>5
<1>2. ASSUME NEW s \in Sockets, NEW c \in CallIds, PeerLeave(s, c)
      PROVE Placed' /\ Ghosts' /\ Late'
  <2>1. Placed' /\ \A d \in CallIds : Registered(d)' = Registered(d) \ {s}
    BY <1>0, <1>2, Removed DEF PeerLeave
  <2> QED
    BY <1>0, <1>2, <2>1 DEF PeerLeave, OnlyAbandonedGhosts
<1>3. ASSUME NEW j \in joins, EnterRoom(j) PROVE Placed' /\ Ghosts' /\ Late'
  <2>1. /\ Placed'
        /\ Registered(j.call)' = Registered(j.call) \cup {j.socket}
        /\ \A d \in CallIds \ {j.call} : Registered(d)' = Registered(d)
        /\ j.socket \in Sockets /\ j.call \in CallIds
    BY <1>0, <1>3, Added
  <2>2. live' = live /\ abandoned' = abandoned
    BY <1>3 DEF EnterRoom
  <2>3. Ghosts'
    <3> SUFFICES ASSUME NEW c \in CallIds, NEW s \in Registered(c)'
                 PROVE  s \in live \/ <<s, c>> \in abandoned
      BY <2>2 DEF OnlyAbandonedGhosts
    <3>1. CASE s \in Registered(c)
      BY <1>0, <3>1 DEF OnlyAbandonedGhosts
    <3>2. CASE s = j.socket /\ c = j.call
      BY <1>0, <3>2
    <3> QED BY <2>1, <3>1, <3>2
  <2>4. Late'
    BY <1>0, <1>3, <2>1, <2>2 DEF EnterRoom, TypeOK, Join
  <2> QED BY <2>1, <2>3, <2>4
<1>4. ASSUME NEW s \in Sockets, NEW c \in CallIds, PeerJoin(s, c)
      PROVE Placed' /\ Ghosts' /\ Late'
  BY <1>0, <1>4, Untouched DEF PeerJoin, Unregistered, OnlyAbandonedGhosts
<1>5. ASSUME NEW j \in joins, NEW answer \in {"yes", "no"}, BusAnswers(j, answer)
      PROVE Placed' /\ Ghosts' /\ Late'
  <2>1. Placed' /\ Ghosts'
    BY <1>0, <1>5, Untouched DEF BusAnswers, Unregistered, OnlyAbandonedGhosts
  <2>2. Late'
    BY <1>0, <1>5 DEF BusAnswers, TypeOK, Join
  <2> QED BY <2>1, <2>2
<1>6. ASSUME NEW j \in joins, Forbidden(j) \/ Welcome(j) \/ BusFails(j)
      PROVE Placed' /\ Ghosts' /\ Late'
  BY <1>0, <1>6, Untouched
  DEF Forbidden, Welcome, BusFails, Unregistered, OnlyAbandonedGhosts
<1>7. ASSUME NEW s \in Sockets, Connect(s) PROVE Placed' /\ Ghosts' /\ Late'
  BY <1>0, <1>7, Untouched DEF Connect, Unregistered, OnlyAbandonedGhosts
<1>8. CASE UNCHANGED vars
  BY <1>0, <1>8, Untouched DEF vars, Unregistered, OnlyAbandonedGhosts
<1> QED
  BY <1>1, <1>2, <1>3, <1>4, <1>5, <1>6, <1>7, <1>8 DEF Next, Resume

LEMMA GhostInitially == Init => GhostInv
BY DEF Init, GhostInv, OnlyAbandonedGhosts, Placed, Registered, TypeOK

\* A closed socket stays registered only if it closed while the bus was still
\* to answer its peer:join: handleDisconnect misses no other.
THEOREM GhostsWereAbandoned == Spec => []OnlyAbandonedGhosts
<1>1. Init => GhostInv
  BY GhostInitially
<1>2. GhostInv /\ [Next]_vars => GhostInv'
  BY GhostStep
<1>3. GhostInv => OnlyAbandonedGhosts
  BY DEF GhostInv
<1> QED
  BY <1>1, <1>2, <1>3, PTL DEF Spec

-----------------------------------------------------------------------------
(* Sockets that have not connected yet, and the calls of the others *)

\* Inductive: they are in no room, in no registry and have sent nothing, so
\* that a new connection changes nobody's view.
Unused ==
    /\ \A c \in CallIds : \A s \in fresh : s \notin rooms[c] /\ s \notin Registered(c)
    /\ \A j \in joins : j.socket \notin fresh

\* Inductive: a socket is only where its client asked to be.
OwnCalls ==
    /\ \A c \in CallIds : \A s \in Sockets :
          s \in rooms[c] \/ s \in Registered(c) => c \in CallsOf[s]
    /\ \A j \in joins : j.call \in CallsOf[j.socket]

Base == TypeOK /\ Placed /\ Unused /\ OwnCalls

LEMMA BaseInit == Init => Base
BY DEF Init, Base, TypeOK, Placed, Unused, OwnCalls, Registered

LEMMA BaseStep == Base /\ [Next]_vars => Base'
<1> SUFFICES ASSUME Base, [Next]_vars PROVE Base'
  OBVIOUS
<1>0. TypeOK /\ Placed /\ Unused /\ OwnCalls /\ TypeOK'
  BY TypeStep DEF Base
<1>a. SUFFICES Placed' /\ Unused' /\ OwnCalls'
  BY <1>0 DEF Base
<1>1. ASSUME NEW s \in Sockets, Disconnect(s) PROVE Placed' /\ Unused' /\ OwnCalls'
  <2>1. Placed' /\ \A d \in CallIds : Registered(d)' = Registered(d) \ {s}
    BY <1>0, <1>1, Removed DEF Disconnect
  <2> QED
    BY <1>0, <1>1, <2>1 DEF Disconnect, Unused, OwnCalls
<1>2. ASSUME NEW s \in Sockets, NEW c \in CallIds, PeerLeave(s, c)
      PROVE Placed' /\ Unused' /\ OwnCalls'
  <2>1. Placed' /\ \A d \in CallIds : Registered(d)' = Registered(d) \ {s}
    BY <1>0, <1>2, Removed DEF PeerLeave
  <2>2. \A d \in CallIds : rooms'[d] \subseteq rooms[d]
    BY <1>0, <1>2 DEF PeerLeave, TypeOK
  <2> QED
    BY <1>0, <1>2, <2>1, <2>2 DEF PeerLeave, Unused, OwnCalls
<1>3. ASSUME NEW j \in joins, EnterRoom(j) PROVE Placed' /\ Unused' /\ OwnCalls'
  <2>1. /\ Placed'
        /\ j.socket \in Sockets /\ j.call \in CallIds
        /\ Registered(j.call)' = Registered(j.call) \cup {j.socket}
        /\ \A d \in CallIds \ {j.call} : Registered(d)' = Registered(d)
    BY <1>0, <1>3, Added
  <2>2. \A d \in CallIds : Registered(d)' \subseteq Registered(d) \cup {j.socket}
    BY <2>1
  <2>3. \A d \in CallIds : rooms'[d] \subseteq rooms[d] \cup {j.socket}
    BY <1>0, <1>3, <2>1 DEF EnterRoom, TypeOK
  <2>4. fresh' = fresh /\ j.socket \notin fresh
    BY <1>0, <1>3 DEF EnterRoom, Unused
  <2>5. \A i \in joins' : i.socket \notin fresh
    BY <1>0, <1>3, <2>4 DEF EnterRoom, Unused, TypeOK, Join
  <2>6. Unused'
    BY <1>0, <2>2, <2>3, <2>4, <2>5 DEF Unused
  <2>7. j.call \in CallsOf[j.socket]
    BY <1>0 DEF OwnCalls
  <2>8. \A i \in joins' : i.call \in CallsOf[i.socket]
    BY <1>0, <1>3, <2>7 DEF EnterRoom, OwnCalls, TypeOK, Join
  <2>9. /\ rooms'[j.call] = rooms[j.call] \cup {j.socket}
        /\ \A d \in CallIds \ {j.call} : rooms'[d] = rooms[d]
    BY <1>0, <1>3, <2>1 DEF EnterRoom, TypeOK
  <2>10. ASSUME NEW c \in CallIds, NEW s \in Sockets,
                s \in rooms'[c] \/ s \in Registered(c)'
         PROVE  c \in CallsOf[s]
    <3>1. CASE s \in rooms[c] \/ s \in Registered(c)
      BY <1>0, <3>1 DEF OwnCalls
    <3>2. CASE s \notin rooms[c] /\ s \notin Registered(c)
      <4>1. c = j.call /\ s = j.socket
        BY <2>1, <2>9, <2>10, <3>2
      <4> QED BY <2>7, <4>1
    <3> QED BY <3>1, <3>2
  <2>11. OwnCalls'
    BY <2>8, <2>10 DEF OwnCalls
  <2> QED
    BY <2>1, <2>6, <2>11
<1>4. ASSUME NEW s \in Sockets, NEW c \in CallIds, PeerJoin(s, c)
      PROVE Placed' /\ Unused' /\ OwnCalls'
  <2>1. s \notin fresh
    BY <1>0, <1>4 DEF PeerJoin, TypeOK
  <2> QED
    BY <1>0, <1>4, <2>1, Untouched DEF PeerJoin, Unregistered, Unused, OwnCalls
<1>5. ASSUME NEW j \in joins, NEW answer \in {"yes", "no"}, BusAnswers(j, answer)
      PROVE Placed' /\ Unused' /\ OwnCalls'
  <2>1. \A i \in joins' : i.socket \notin fresh /\ i.call \in CallsOf[i.socket]
    BY <1>0, <1>5 DEF BusAnswers, Unused, OwnCalls, TypeOK, Join
  <2> QED
    BY <1>0, <1>5, <2>1, Untouched DEF BusAnswers, Unregistered, Unused, OwnCalls
<1>6. ASSUME NEW j \in joins, Forbidden(j) \/ Welcome(j) \/ BusFails(j)
      PROVE Placed' /\ Unused' /\ OwnCalls'
  BY <1>0, <1>6, Untouched DEF Forbidden, Welcome, BusFails, Unregistered, Unused, OwnCalls
<1>7. ASSUME NEW s \in Sockets, Connect(s) PROVE Placed' /\ Unused' /\ OwnCalls'
  BY <1>0, <1>7, Untouched DEF Connect, Unregistered, Unused, OwnCalls
<1>8. CASE UNCHANGED vars
  BY <1>0, <1>8, Untouched DEF vars, Unregistered, Unused, OwnCalls
<1> QED
  BY <1>1, <1>2, <1>3, <1>4, <1>5, <1>6, <1>7, <1>8 DEF Next, Resume

-----------------------------------------------------------------------------
(* Rooms and registries, as far as sockets keep to one call *)

\* The one room that peer:leave takes such a socket out of was its only one.
LEMMA OnlyRoom ==
    ASSUME Base, NEW s \in SingleCallers, NEW c \in CallIds, PeerLeave(s, c)
    PROVE  \A d \in CallIds :
              /\ rooms'[d] = rooms[d] \ {s}
              /\ s \in rooms[d] \/ s \in Registered(d) => d = c
<1> USE HomeAssumption
<1>0. s \in Sockets
  BY DEF SingleCallers
<1>1. s \in Registered(c)
  BY <1>0 DEF PeerLeave, Registered, Members
<1>2. ASSUME NEW d \in CallIds, s \in rooms[d] \/ s \in Registered(d) PROVE d = c
  BY <1>0, <1>1, <1>2 DEF Base, OwnCalls, SingleCallers
<1>3. \A d \in CallIds : rooms'[d] = IF d = c THEN rooms[d] \ {s} ELSE rooms[d]
  BY DEF PeerLeave, Base, TypeOK
<1>4. ASSUME NEW d \in CallIds PROVE rooms'[d] = rooms[d] \ {s}
  <2>1. CASE d = c
    BY <1>3, <2>1
  <2>2. CASE d # c
    BY <1>2, <1>3, <2>2
  <2> QED BY <2>1, <2>2
<1> QED
  BY <1>2, <1>4

\* A connected socket that keeps to one call is in its room when it is registered.
SinglesAgree ==
    \A c \in CallIds : \A s \in SingleCallers :
        s \in live => (s \in rooms[c] <=> s \in Registered(c))

RoomsInv == Base /\ SinglesAgree

LEMMA RoomsStep == RoomsInv /\ [Next]_vars => RoomsInv'
<1> SUFFICES ASSUME RoomsInv, [Next]_vars PROVE RoomsInv'
  OBVIOUS
<1>0. TypeOK /\ Placed /\ Unused /\ Base /\ SinglesAgree /\ Base'
  BY BaseStep DEF RoomsInv, Base
<1>a. SUFFICES SinglesAgree'
  BY <1>0 DEF RoomsInv
<1>1. ASSUME NEW u \in Sockets, Disconnect(u) PROVE SinglesAgree'
  <2>1. \A d \in CallIds : Registered(d)' = Registered(d) \ {u}
    BY <1>0, <1>1, Removed DEF Disconnect
  <2>2. live' = live \ {u} /\ \A d \in CallIds : rooms'[d] = rooms[d] \ {u}
    BY <1>1 DEF Disconnect
  <2> QED
    BY <1>0, <2>1, <2>2 DEF SinglesAgree
<1>2. ASSUME NEW u \in Sockets, NEW d \in CallIds, PeerLeave(u, d) PROVE SinglesAgree'
  <2>1. \A c \in CallIds : Registered(c)' = Registered(c) \ {u}
    BY <1>0, <1>2, Removed DEF PeerLeave
  <2>2. live' = live
    BY <1>2 DEF PeerLeave
  <2>3. \A c \in CallIds : rooms[c] \ {u} \subseteq rooms'[c] /\ rooms'[c] \subseteq rooms[c]
    BY <1>0, <1>2 DEF PeerLeave, TypeOK
  <2>4. u \in SingleCallers => \A c \in CallIds : rooms'[c] = rooms[c] \ {u}
    BY <1>0, <1>2, OnlyRoom
  <2>5. ASSUME NEW c \in CallIds, NEW s \in SingleCallers, s \in live
        PROVE  s \in rooms'[c] <=> s \in Registered(c)'
    <3>1. CASE s = u
      BY <2>1, <2>4, <2>5, <3>1
    <3>2. CASE s # u
      BY <1>0, <2>1, <2>3, <2>5, <3>2 DEF SinglesAgree
    <3> QED BY <3>1, <3>2
  <2> QED
    BY <2>2, <2>5 DEF SinglesAgree
<1>3. ASSUME NEW j \in joins, EnterRoom(j) PROVE SinglesAgree'
  <2>1. /\ j.socket \in Sockets /\ j.call \in CallIds
        /\ Registered(j.call)' = Registered(j.call) \cup {j.socket}
        /\ \A d \in CallIds \ {j.call} : Registered(d)' = Registered(d)
    BY <1>0, <1>3, Added
  <2>2. /\ live' = live
        /\ rooms'[j.call] = rooms[j.call] \cup {j.socket}
        /\ \A d \in CallIds \ {j.call} : rooms'[d] = rooms[d]
    BY <1>0, <1>3, <2>1 DEF EnterRoom, TypeOK
  <2>3. ASSUME NEW c \in CallIds, NEW s \in SingleCallers, s \in live
        PROVE  s \in rooms'[c] <=> s \in Registered(c)'
    <3>1. CASE c = j.call
      BY <1>0, <2>1, <2>2, <2>3, <3>1 DEF SinglesAgree
    <3>2. CASE c # j.call
      BY <1>0, <2>1, <2>2, <2>3, <3>2 DEF SinglesAgree
    <3> QED BY <3>1, <3>2
  <2> QED
    BY <2>2, <2>3 DEF SinglesAgree
<1>4. ASSUME NEW s \in Sockets, Connect(s) PROVE SinglesAgree'
  <2>1. live' = live \cup {s} /\ rooms' = rooms /\ registry' = registry /\ s \in fresh
    BY <1>4 DEF Connect
  <2>2. \A d \in CallIds : Registered(d)' = Registered(d)
    BY <1>0, <2>1, Untouched DEF Unregistered
  <2> QED
    BY <1>0, <2>1, <2>2 DEF SinglesAgree, Unused
<1>5. CASE UNCHANGED <<registry, rooms, live>>
  BY <1>0, <1>5, Untouched DEF Unregistered, SinglesAgree
<1>6. ASSUME NEW s \in Sockets, NEW c \in CallIds, PeerJoin(s, c)
      PROVE UNCHANGED <<registry, rooms, live>>
  BY <1>6 DEF PeerJoin
<1>7. ASSUME NEW j \in joins, NEW answer \in {"yes", "no"}, BusAnswers(j, answer)
      PROVE UNCHANGED <<registry, rooms, live>>
  BY <1>7 DEF BusAnswers
<1>8. ASSUME NEW j \in joins, Forbidden(j) \/ Welcome(j) \/ BusFails(j)
      PROVE UNCHANGED <<registry, rooms, live>>
  BY <1>8 DEF Forbidden, Welcome, BusFails
<1> QED
  BY <1>1, <1>2, <1>3, <1>4, <1>5, <1>6, <1>7, <1>8 DEF Next, Resume, vars

LEMMA RoomsInitially == Init => RoomsInv
<1> SUFFICES ASSUME Init PROVE RoomsInv
  OBVIOUS
<1>1. live = {}
  BY DEF Init
<1> QED BY <1>1, BaseInit DEF RoomsInv, SinglesAgree

\* A connected socket that keeps to one call is in socket.io's room exactly when
\* a process has it registered, whatever the sockets in several calls do.
THEOREM SinglesInTheirRooms == Spec => []SinglesAgree
<1>1. RoomsInv => SinglesAgree
  BY DEF RoomsInv
<1> QED
  BY <1>1, RoomsInitially, RoomsStep, PTL DEF Spec

\* No client asks for a second call on the same socket.  It is necessary:
\* peer:leave takes the socket out of every registry entry but of one room.
OneCall == \A s \in Sockets : \A c, d \in CallsOf[s] : c = d

LEMMA AllSingle == OneCall => SingleCallers = Sockets
BY DEF OneCall, SingleCallers

\* As long as no socket is in two calls, socket.io's room and the registries list
\* the same connected peers, on any number of processes.
THEOREM RoomsMatchRegistries == OneCall => (Spec => []RoomsAgree)
<1> SUFFICES ASSUME OneCall PROVE Spec => []RoomsAgree
  OBVIOUS
<1>1. RoomsInv => RoomsAgree
  <2> SUFFICES ASSUME RoomsInv PROVE RoomsAgree
    OBVIOUS
  <2>1. live \subseteq SingleCallers
    BY AllSingle DEF RoomsInv, Base, TypeOK
  <2> QED BY <2>1 DEF RoomsInv, SinglesAgree, RoomsAgree
<1> QED
  BY <1>1, RoomsInitially, RoomsStep, PTL DEF Spec

-----------------------------------------------------------------------------
(* Who knows whom *)

\* Inductive: a registered peer is in the room, where peer:joined is sent.
PeersInv ==
    /\ Base
    /\ \A c \in CallIds : Registered(c) \cap live \subseteq rooms[c]
    /\ PeersMeet

LEMMA PeersStep == PeersInv /\ [Next]_vars => PeersInv'
<1> SUFFICES ASSUME PeersInv, [Next]_vars PROVE PeersInv'
  OBVIOUS
<1> USE HomeAssumption
<1> DEFINE Inside == \A c \in CallIds : Registered(c) \cap live \subseteq rooms[c]
<1>0. TypeOK /\ Placed /\ Unused /\ Inside /\ PeersMeet /\ TypeOK' /\ Base'
  BY BaseStep DEF PeersInv, Base
<1>a. SUFFICES Inside' /\ PeersMeet'
  BY <1>0 DEF PeersInv
<1>b. ASSUME \A c \in CallIds : \A s, t \in Sockets :
                 Settled(s, c)' /\ Settled(t, c)' /\ s # t =>
                    /\ Settled(s, c) /\ Settled(t, c)
                    /\ t \in knows[s][c] => t \in knows'[s][c]
      PROVE  PeersMeet'
  <2> SUFFICES ASSUME NEW c \in CallIds, NEW s \in Sockets, NEW t \in Sockets,
                      Settled(s, c)', Settled(t, c)', s # t
               PROVE  /\ (t \in knows[s][c] \/ s \in knows[t][c])'
                      /\ (Home[s] = Home[t] => t \in knows[s][c])'
    BY DEF PeersMeet
  <2>1. Settled(s, c) /\ Settled(t, c)
    BY <1>b
  <2>2. /\ t \in knows[s][c] => t \in knows'[s][c]
        /\ s \in knows[t][c] => s \in knows'[t][c]
    BY <1>b
  <2> QED BY <1>0, <2>1, <2>2 DEF PeersMeet
<1>1. ASSUME NEW u \in Sockets, Disconnect(u) PROVE Inside' /\ PeersMeet'
  <2>1. \A d \in CallIds : Registered(d)' = Registered(d) \ {u}
    BY <1>0, <1>1, Removed DEF Disconnect
  <2>2. live' = live \ {u} /\ joins' = joins /\ \A d \in CallIds : rooms'[d] = rooms[d] \ {u}
    BY <1>1 DEF Disconnect
  <2>3. Inside'
    BY <1>0, <2>1, <2>2
  <2>4. \A s, t \in Sockets, c \in CallIds :
           s # u /\ t # u /\ t \in knows[s][c] => t \in knows'[s][c]
    BY <1>1 DEF Disconnect
  <2>5. \A s \in Sockets, c \in CallIds : Settled(s, c)' => s # u /\ Settled(s, c)
    BY <2>1, <2>2 DEF Settled
  <2> QED
    BY <1>b, <2>3, <2>4, <2>5
<1>2. ASSUME NEW u \in Sockets, NEW d \in CallIds, PeerLeave(u, d)
      PROVE Inside' /\ PeersMeet'
  <2>1. \A c \in CallIds : Registered(c)' = Registered(c) \ {u}
    BY <1>0, <1>2, Removed DEF PeerLeave
  <2>2. /\ live' = live /\ joins' = joins
        /\ \A c \in CallIds : rooms[c] \ {u} \subseteq rooms'[c]
    BY <1>0, <1>2 DEF PeerLeave, TypeOK
  <2>3. Inside'
    BY <1>0, <2>1, <2>2
  <2>4. \A s, t \in Sockets, c \in CallIds :
           s # u /\ t # u /\ t \in knows[s][c] => t \in knows'[s][c]
    BY <1>0, <1>2 DEF PeerLeave, TypeOK
  <2>5. \A s \in Sockets, c \in CallIds : Settled(s, c)' => s # u /\ Settled(s, c)
    BY <2>1, <2>2 DEF Settled
  <2> QED
    BY <1>b, <2>3, <2>4, <2>5
<1>3. ASSUME NEW j \in joins, EnterRoom(j) PROVE Inside' /\ PeersMeet'
  <2>1. /\ j.socket \in Sockets /\ j.call \in CallIds
        /\ Registered(j.call)' = Registered(j.call) \cup {j.socket}
        /\ \A d \in CallIds \ {j.call} : Registered(d)' = Registered(d)
    BY <1>0, <1>3, Added
  <2>2. /\ live' = live /\ knows' = knows
        /\ rooms'[j.call] = rooms[j.call] \cup {j.socket}
        /\ \A d \in CallIds \ {j.call} : rooms'[d] = rooms[d]
    BY <1>0, <1>3, <2>1 DEF EnterRoom, TypeOK
  <2>3. ASSUME NEW c \in CallIds PROVE Registered(c)' \cap live' \subseteq rooms'[c]
    <3>1. CASE c = j.call
      BY <1>0, <2>1, <2>2, <3>1
    <3>2. CASE c # j.call
      BY <1>0, <2>1, <2>2, <3>2
    <3> QED BY <3>1, <3>2
  <2>4. /\ [j EXCEPT !.stage = "entered"] \in joins'
        /\ [j EXCEPT !.stage = "entered"].socket = j.socket
        /\ [j EXCEPT !.stage = "entered"].call = j.call
        /\ [j EXCEPT !.stage = "entered"].stage = "entered"
        /\ \A i \in joins : i.stage = "entered" => i \in joins'
    BY <1>0, <1>3 DEF EnterRoom, TypeOK, Join
  <2>5. ASSUME NEW s \in Sockets, NEW c \in CallIds, Settled(s, c)'
        PROVE  Settled(s, c)
    <3>1. ~(s = j.socket /\ c = j.call)
      BY <2>4, <2>5 DEF Settled
    <3>2. s \in Registered(c)
      BY <2>1, <2>5, <3>1 DEF Settled
    <3> QED
      BY <2>2, <2>4, <2>5, <3>2 DEF Settled
  <2> QED
    BY <1>b, <2>2, <2>3, <2>5
<1>4. ASSUME NEW j \in joins, Welcome(j) PROVE Inside' /\ PeersMeet'
  <2>1. /\ live' = live /\ rooms' = rooms /\ registry' = registry
        /\ joins' = joins \ {j}
        /\ j.socket \in Sockets /\ j.call \in CallIds
    BY <1>0, <1>4 DEF Welcome, TypeOK, Join
  <2>2. \A c \in CallIds : Registered(c)' = Registered(c)
    BY <1>0, <2>1, Untouched DEF Unregistered
  <2>3. Inside'
    BY <1>0, <2>1, <2>2
  <2>4. /\ \A t \in Sockets, c \in CallIds : knows[t][c] \subseteq knows'[t][c]
        /\ \A t \in rooms[j.call] \cap live : t # j.socket => j.socket \in knows'[t][j.call]
        /\ j.socket \in live => Peers(j.socket, j.call) \subseteq knows'[j.socket][j.call]
    <3>1. \A t, v \in Sockets, c \in CallIds :
             v \in knows'[t][c] <=>
                \/ v \in knows[t][c]
                \/ c = j.call /\ t \in rooms[j.call] /\ t \in live /\ t # j.socket /\ v = j.socket
                \/ c = j.call /\ t = j.socket /\ t \in live /\ v \in Peers(j.socket, j.call)
      BY <1>0, <1>4, <2>1, Told
    <3>2. \A t \in Sockets, c \in CallIds : knows[t][c] \subseteq Sockets
      BY <1>0 DEF TypeOK
    <3>3. Peers(j.socket, j.call) \subseteq Sockets /\ live \subseteq Sockets
      BY <1>0, <2>1 DEF Peers, Members, TypeOK
    <3> QED BY <2>1, <3>1, <3>2, <3>3
  <2>5. \A t \in Registered(j.call) :
           t # j.socket /\ Home[t] = Home[j.socket] => t \in Peers(j.socket, j.call)
    BY <1>0, <2>1 DEF Registered, Placed, Peers, Members
  <2>6. ASSUME NEW c \in CallIds, NEW s \in Sockets, NEW t \in Sockets,
               Settled(s, c)', Settled(t, c)', s # t
        PROVE  /\ t \in knows'[s][c] \/ s \in knows'[t][c]
               /\ Home[s] = Home[t] => t \in knows'[s][c]
    <3>1. s \in Registered(c) \cap live /\ t \in Registered(c) \cap live
      BY <2>1, <2>2, <2>6 DEF Settled
    <3>2. s \in rooms[c] /\ t \in rooms[c]
      BY <1>0, <3>1
    <3>3. CASE c = j.call /\ s = j.socket
      <4>1. s \in knows'[t][c]
        BY <2>4, <2>6, <3>1, <3>2, <3>3
      <4>2. Home[s] = Home[t] => t \in knows'[s][c]
        BY <2>4, <2>5, <2>6, <3>1, <3>3
      <4> QED BY <4>1, <4>2
    <3>4. CASE c = j.call /\ t = j.socket
      BY <2>4, <2>6, <3>1, <3>2, <3>4
    <3>5. CASE c # j.call \/ (s # j.socket /\ t # j.socket)
      <4>1. Settled(s, c) /\ Settled(t, c)
        BY <2>1, <2>6, <3>1, <3>5 DEF Settled
      <4> QED BY <1>0, <2>4, <2>6, <4>1 DEF PeersMeet
    <3> QED BY <3>3, <3>4, <3>5
  <2> QED
    BY <2>3, <2>6 DEF PeersMeet
<1>5. ASSUME NEW s \in Sockets, Connect(s) PROVE Inside' /\ PeersMeet'
  <2>1. /\ live' = live \cup {s} /\ s \in fresh
        /\ rooms' = rooms /\ registry' = registry /\ joins' = joins /\ knows' = knows
    BY <1>5 DEF Connect
  <2>2. \A d \in CallIds : Registered(d)' = Registered(d) /\ s \notin Registered(d)
    BY <1>0, <2>1, Untouched DEF Unregistered, Unused
  <2>3. Inside'
    BY <1>0, <2>1, <2>2
  <2>4. \A t \in Sockets, c \in CallIds : Settled(t, c)' => Settled(t, c)
    BY <2>1, <2>2 DEF Settled
  <2> QED
    BY <1>b, <2>1, <2>3, <2>4
<1>6. ASSUME UNCHANGED <<registry, rooms, live, knows>>,
             \A i \in joins : i.stage = "entered" => i \in joins'
      PROVE Inside' /\ PeersMeet'
  <2>1. \A c \in CallIds : Registered(c)' = Registered(c)
    BY <1>0, <1>6, Untouched DEF Unregistered
  <2>2. \A t \in Sockets, c \in CallIds : Settled(t, c)' => Settled(t, c)
    BY <1>6, <2>1 DEF Settled
  <2> QED
    BY <1>0, <1>6, <1>b, <2>1, <2>2
<1>7. ASSUME NEW s \in Sockets, NEW c \in CallIds, PeerJoin(s, c)
      PROVE Inside' /\ PeersMeet'
  BY <1>6, <1>7 DEF PeerJoin
<1>8. ASSUME NEW j \in joins, NEW answer \in {"yes", "no"}, BusAnswers(j, answer)
      PROVE Inside' /\ PeersMeet'
  BY <1>6, <1>8 DEF BusAnswers
<1>9. ASSUME NEW j \in joins, Forbidden(j) \/ BusFails(j)
      PROVE Inside' /\ PeersMeet'
  BY <1>6, <1>9 DEF Forbidden, BusFails
<1>10. CASE UNCHANGED vars
  BY <1>6, <1>10 DEF vars
<1> QED
  BY <1>1, <1>2, <1>3, <1>4, <1>5, <1>7, <1>8, <1>9, <1>10 DEF Next, Resume

LEMMA PeersInitially == Init => PeersInv
<1>1. Init => PeersMeet /\ \A c \in CallIds : Registered(c) \cap live \subseteq rooms[c]
  BY DEF Init, PeersMeet, Registered, Settled
<1> QED BY <1>1, BaseInit DEF PeersInv

\* Of two settled peers of a call one knows the other, and on one process each
\* knows the other, whatever the number of calls and of processes and however
\* their joins were interleaved.
THEOREM NoPeersMissed == Spec => []PeersMeet
<1>1. Init => PeersInv
  BY PeersInitially
<1>2. PeersInv /\ [Next]_vars => PeersInv'
  BY PeersStep
<1>3. PeersInv => PeersMeet
  BY DEF PeersInv
<1> QED
  BY <1>1, <1>2, <1>3, PTL DEF Spec

\* The acknowledgement lists the members of one process only.
OneProcess == \A p, q \in Processes : p = q

\* On one process two settled peers of a call know of each other.
THEOREM MutualKnowledge == OneProcess => (Spec => []PeersKnowEachOther)
<1> SUFFICES ASSUME OneProcess PROVE Spec => []PeersKnowEachOther
  OBVIOUS
<1>1. PeersMeet => PeersKnowEachOther
  BY HomeAssumption DEF PeersMeet, PeersKnowEachOther, OneProcess
<1> QED
  BY <1>1, NoPeersMissed, PTL

-----------------------------------------------------------------------------
(* Nobody knows a peer that no process has registered, if it kept to one call *)

\* A peer that keeps to one call and is known to a connected client is registered.
SinglesKnown ==
    \A c \in CallIds : \A s \in live : \A t \in SingleCallers :
        t \in knows[s][c] => t \in Registered(c)

\* Inductive: who knows somebody is connected and in the room, where peer:left
\* is sent, and a handler that is about to announce its socket still finds it
\* registered, since its process has been busy from the bus's answer on.
KnownInv ==
    /\ Base
    /\ SinglesKnown
    /\ \A c \in CallIds, s \in Sockets : knows[s][c] # {} => s \in live /\ s \in rooms[c]
    /\ \A j \in joins : j.stage = "entered" =>
          j.socket \in Registered(j.call) /\ j.socket \in rooms[j.call]

LEMMA KnownStep == KnownInv /\ [Next]_vars => KnownInv'
<1> SUFFICES ASSUME KnownInv, [Next]_vars PROVE KnownInv'
  OBVIOUS
<1> USE HomeAssumption
<1> DEFINE Known == \A c \in CallIds : \A s \in live : \A t \in SingleCallers :
                       t \in knows[s][c] => t \in Registered(c)
           Listening == \A c \in CallIds, s \in Sockets :
                           knows[s][c] # {} => s \in live /\ s \in rooms[c]
           Admitted == \A j \in joins : j.stage = "entered" =>
                          j.socket \in Registered(j.call) /\ j.socket \in rooms[j.call]
<1>0. TypeOK /\ Placed /\ Unused /\ Base /\ Known /\ Listening /\ Admitted /\ Base'
  BY BaseStep DEF KnownInv, Base, SinglesKnown
<1>a. SUFFICES Known' /\ Listening' /\ Admitted'
  BY <1>0 DEF KnownInv, SinglesKnown
<1>1. ASSUME NEW u \in Sockets, Disconnect(u) PROVE Known' /\ Listening' /\ Admitted'
  <2>1. \A d \in CallIds : Registered(d)' = Registered(d) \ {u}
    BY <1>0, <1>1, Removed DEF Disconnect
  <2>2. live' = live \ {u} /\ joins' = joins /\ \A d \in CallIds : rooms'[d] = rooms[d] \ {u}
    BY <1>1 DEF Disconnect
  <2>3. /\ \A t \in Sockets, c \in CallIds : knows'[t][c] \subseteq knows[t][c]
        /\ \A c \in CallIds : knows'[u][c] = {}
        /\ \A t \in Sockets, c \in CallIds :
              t # u /\ u \in Members(u, c) /\ t \in rooms[c] => u \notin knows'[t][c]
    BY <1>1 DEF Disconnect
  <2>4. \A c \in CallIds : u \in Registered(c) => u \in Members(u, c)
    BY <1>0 DEF Placed, Registered, Members
  <2>5. ASSUME NEW c \in CallIds, NEW t \in live', NEW v \in SingleCallers, v \in knows'[t][c]
        PROVE  v \in Registered(c)'
    <3>1. t \in live /\ t \in Sockets /\ t # u
      BY <1>0, <2>2 DEF TypeOK
    <3>2. v \in knows[t][c] /\ v \in Registered(c)
      BY <1>0, <2>3, <2>5, <3>1
    <3>3. t \in rooms[c]
      BY <1>0, <3>1, <3>2
    <3>4. v # u
      BY <2>3, <2>4, <2>5, <3>1, <3>2, <3>3
    <3> QED BY <2>1, <3>2, <3>4
  <2>6. Listening'
    BY <1>0, <2>2, <2>3
  <2>7. \A j \in joins : j.stage = "entered" => j.socket # u /\ j.call \in CallIds
    BY <1>0, <1>1 DEF Disconnect, Busy, TypeOK, Join
  <2>8. Admitted'
    BY <1>0, <2>1, <2>2, <2>7
  <2> QED BY <2>5, <2>6, <2>8
<1>2. ASSUME NEW u \in Sockets, NEW d \in CallIds, PeerLeave(u, d)
      PROVE Known' /\ Listening' /\ Admitted'
  <2>1. \A c \in CallIds : Registered(c)' = Registered(c) \ {u}
    BY <1>0, <1>2, Removed DEF PeerLeave
  <2>2. \A c \in CallIds : rooms'[c] = IF c = d THEN rooms[c] \ {u} ELSE rooms[c]
    BY <1>0, <1>2 DEF PeerLeave, TypeOK
  <2>3. live' = live /\ joins' = joins
    BY <1>2 DEF PeerLeave
  <2>4. /\ \A t \in Sockets, c \in CallIds : knows'[t][c] \subseteq knows[t][c]
        /\ knows'[u][d] = {}
        /\ \A t \in Sockets : t # u /\ t \in rooms[d] => u \notin knows'[t][d]
    BY <1>0, <1>2 DEF PeerLeave, TypeOK
  <2>5. u \in SingleCallers => \A c \in CallIds : c # d => u \notin Registered(c)
    BY <1>0, <1>2, OnlyRoom
  <2>6. ASSUME NEW c \in CallIds, NEW t \in live', NEW v \in SingleCallers, v \in knows'[t][c]
        PROVE  v \in Registered(c)'
    <3>1. t \in live /\ t \in Sockets
      BY <1>0, <2>3 DEF TypeOK
    <3>2. v \in knows[t][c] /\ v \in Registered(c)
      BY <1>0, <2>4, <2>6, <3>1
    <3>3. t \in rooms[c]
      BY <1>0, <3>1, <3>2
    <3>4. v # u
      <4>1. CASE c = d
        BY <2>4, <2>6, <3>1, <3>3, <4>1
      <4>2. CASE c # d
        BY <2>5, <3>2, <4>2
      <4> QED BY <4>1, <4>2
    <3> QED BY <2>1, <3>2, <3>4
  <2>7. Listening'
    <3> SUFFICES ASSUME NEW c \in CallIds, NEW t \in Sockets, knows'[t][c] # {}
                 PROVE  t \in live /\ t \in rooms'[c]
      BY <2>3
    <3>1. knows[t][c] # {}
      BY <2>4
    <3>2. t \in live /\ t \in rooms[c]
      BY <1>0, <3>1
    <3>3. ~ (c = d /\ t = u)
      BY <2>4
    <3> QED BY <2>2, <3>2, <3>3
  <2>8. \A j \in joins : j.stage = "entered" => j.socket # u /\ j.call \in CallIds
    BY <1>0, <1>2 DEF PeerLeave, Busy, TypeOK, Join
  <2>9. Admitted'
    BY <1>0, <2>1, <2>2, <2>3, <2>8
  <2> QED BY <2>6, <2>7, <2>9
<1>3. ASSUME NEW j \in joins, EnterRoom(j) PROVE Known' /\ Listening' /\ Admitted'
  <2>1. /\ j.socket \in Sockets /\ j.call \in CallIds
        /\ Registered(j.call)' = Registered(j.call) \cup {j.socket}
        /\ \A d \in CallIds \ {j.call} : Registered(d)' = Registered(d)
    BY <1>0, <1>3, Added
  <2>2. /\ live' = live /\ knows' = knows
        /\ rooms'[j.call] = rooms[j.call] \cup {j.socket}
        /\ \A d \in CallIds \ {j.call} : rooms'[d] = rooms[d]
    BY <1>0, <1>3, <2>1 DEF EnterRoom, TypeOK
  <2>3. \A c \in CallIds : Registered(c) \subseteq Registered(c)' /\ rooms[c] \subseteq rooms'[c]
    BY <2>1, <2>2
  <2>4. Known' /\ Listening'
    BY <1>0, <2>1, <2>2, <2>3
  <2>5. \A i \in joins' :
           /\ i.call \in CallIds
           /\ i.stage = "entered" =>
                 i \in joins \/ (i.socket = j.socket /\ i.call = j.call)
    BY <1>0, <1>3 DEF EnterRoom, TypeOK, Join
  <2>6. Admitted'
    <3> SUFFICES ASSUME NEW i \in joins', i.stage = "entered"
                 PROVE  i.socket \in Registered(i.call)' /\ i.socket \in rooms'[i.call]
      OBVIOUS
    <3>1. CASE i.socket = j.socket /\ i.call = j.call
      BY <2>1, <2>2, <3>1
    <3>2. CASE i \in joins
      BY <1>0, <2>3, <2>5, <3>2
    <3> QED BY <2>5, <3>1, <3>2
  <2> QED BY <2>4, <2>6
<1>4. ASSUME NEW j \in joins, Welcome(j) PROVE Known' /\ Listening' /\ Admitted'
  <2>1. /\ live' = live /\ rooms' = rooms /\ registry' = registry
        /\ joins' = joins \ {j}
        /\ j.socket \in Sockets /\ j.call \in CallIds /\ j.stage = "entered"
    BY <1>0, <1>4 DEF Welcome, TypeOK, Join
  <2>2. \A c \in CallIds : Registered(c)' = Registered(c)
    BY <1>0, <2>1, Untouched DEF Unregistered
  <2>3. j.socket \in Registered(j.call) /\ j.socket \in rooms[j.call]
    BY <1>0, <2>1
  <2>4. Peers(j.socket, j.call) \subseteq Registered(j.call)
    BY <1>0, <2>1 DEF Peers, Members, Registered, TypeOK
  <2>5. ASSUME NEW t \in Sockets, NEW c \in CallIds
        PROVE  \/ knows'[t][c] = knows[t][c]
               \/ /\ c = j.call /\ t \in rooms[c] /\ t \in live
                  /\ knows'[t][c] \subseteq
                        knows[t][c] \cup {j.socket} \cup Peers(j.socket, j.call)
    <3>1. \A v \in Sockets :
             v \in knows'[t][c] <=>
                \/ v \in knows[t][c]
                \/ c = j.call /\ t \in rooms[j.call] /\ t \in live /\ t # j.socket /\ v = j.socket
                \/ c = j.call /\ t = j.socket /\ t \in live /\ v \in Peers(j.socket, j.call)
      BY <1>0, <1>4, <2>1, Told
    <3>2. knows[t][c] \subseteq Sockets
      BY <1>0 DEF TypeOK
    <3>3. knows'[t][c] \subseteq Sockets
      <4>1. TypeOK'
        BY <1>0, TypeStep
      <4> QED BY <4>1 DEF TypeOK
    <3> QED BY <2>3, <3>1, <3>2, <3>3
  <2>6. Known'
    <3> SUFFICES ASSUME NEW c \in CallIds, NEW t \in live', NEW v \in SingleCallers,
                        v \in knows'[t][c]
                 PROVE  v \in Registered(c)
      BY <2>2
    <3>1. t \in live /\ t \in Sockets
      BY <1>0, <2>1 DEF TypeOK
    <3>2. CASE v \in knows[t][c]
      BY <1>0, <3>1, <3>2
    <3>3. CASE v \notin knows[t][c]
      BY <2>3, <2>4, <2>5, <3>1, <3>3
    <3> QED BY <3>2, <3>3
  <2>7. Listening'
    BY <1>0, <2>1, <2>5
  <2>8. Admitted'
    BY <1>0, <2>1, <2>2 DEF TypeOK, Join
  <2> QED BY <2>6, <2>7, <2>8
<1>5. ASSUME NEW s \in Sockets, Connect(s) PROVE Known' /\ Listening' /\ Admitted'
  <2>1. /\ live' = live \cup {s} /\ s \notin live
        /\ rooms' = rooms /\ registry' = registry /\ joins' = joins /\ knows' = knows
    BY <1>0, <1>5 DEF Connect, TypeOK
  <2>2. \A d \in CallIds : Registered(d)' = Registered(d)
    BY <1>0, <2>1, Untouched DEF Unregistered
  <2>3. \A d \in CallIds : knows[s][d] = {}
    BY <1>0, <2>1
  <2>4. Known' /\ Listening'
    BY <1>0, <2>1, <2>2, <2>3
  <2>5. Admitted'
    BY <1>0, <2>1, <2>2 DEF TypeOK, Join
  <2> QED BY <2>4, <2>5
<1>6. ASSUME UNCHANGED <<registry, rooms, live, knows>>,
             \A i \in joins' : i.stage = "entered" => i \in joins
      PROVE Known' /\ Listening' /\ Admitted'
  <2>1. \A c \in CallIds : Registered(c)' = Registered(c)
    BY <1>0, <1>6, Untouched DEF Unregistered
  <2>2. Known' /\ Listening'
    BY <1>0, <1>6, <2>1
  <2>3. Admitted'
    BY <1>0, <1>6, <2>1 DEF TypeOK, Join
  <2> QED BY <2>2, <2>3
<1>7. ASSUME NEW s \in Sockets, NEW c \in CallIds, PeerJoin(s, c)
      PROVE Known' /\ Listening' /\ Admitted'
  BY <1>6, <1>7 DEF PeerJoin
<1>8. ASSUME NEW j \in joins, NEW answer \in {"yes", "no"}, BusAnswers(j, answer)
      PROVE Known' /\ Listening' /\ Admitted'
  <2>1. [j EXCEPT !.stage = answer].stage = answer
    BY <1>0 DEF TypeOK, Join
  <2> QED
    BY <1>6, <1>8, <2>1 DEF BusAnswers
<1>9. ASSUME NEW j \in joins, Forbidden(j) \/ BusFails(j)
      PROVE Known' /\ Listening' /\ Admitted'
  BY <1>6, <1>9 DEF Forbidden, BusFails
<1>10. CASE UNCHANGED vars
  BY <1>6, <1>10 DEF vars
<1> QED
  BY <1>1, <1>2, <1>3, <1>4, <1>5, <1>7, <1>8, <1>9, <1>10 DEF Next, Resume

LEMMA KnownInitially == Init => KnownInv
<1> SUFFICES ASSUME Init PROVE KnownInv
  OBVIOUS
<1>1. Base
  BY BaseInit
<1>2. \A s \in Sockets, c \in CallIds : knows[s][c] = {}
  BY DEF Init
<1>3. live = {} /\ joins = {}
  BY DEF Init
<1> QED BY <1>1, <1>2, <1>3 DEF KnownInv, SinglesKnown

\* Whoever a connected client knows, and never asked for a second call, is
\* registered in the call: the departure of such a peer reaches everybody who
\* was told of its arrival, on any number of processes.
THEOREM SinglesNeverStale == Spec => []SinglesKnown
<1>1. KnownInv => SinglesKnown
  BY DEF KnownInv
<1> QED
  BY <1>1, KnownInitially, KnownStep, PTL DEF Spec

\* As long as no socket is in two calls, that is everybody a client knows.
THEOREM NoStalePeers == OneCall => (Spec => []KnownPeersRegistered)
<1> SUFFICES ASSUME OneCall PROVE Spec => []KnownPeersRegistered
  OBVIOUS
<1>1. KnownInv => KnownPeersRegistered
  <2> SUFFICES ASSUME KnownInv, NEW c \in CallIds, NEW s \in live
               PROVE  knows[s][c] \subseteq Registered(c)
    BY DEF KnownPeersRegistered
  <2>1. s \in Sockets /\ knows[s][c] \subseteq SingleCallers
    BY AllSingle DEF KnownInv, Base, TypeOK
  <2> QED BY <2>1 DEF KnownInv, SinglesKnown
<1> QED
  BY <1>1, KnownInitially, KnownStep, PTL DEF Spec

-----------------------------------------------------------------------------
(* Among the sockets that keep to one call the gateway implements PeerMesh *)

\* What the steps of the refinement rely on: all of it was proved above.
MeshInv == KnownInv /\ SinglesAgree /\ VouchedInv

\* Only connected peers see, and only peers that are there are seen.
OnlyPresent ==
    \A s \in SingleCallers, c \in CallIds : \A t \in Seen(s, c) :
        /\ s \in There(c) /\ t \in There(c)
        /\ s \in live /\ t # s

LEMMA SeenPresent == MeshInv => OnlyPresent
<1> SUFFICES ASSUME MeshInv, NEW s \in SingleCallers, NEW c \in CallIds, NEW t \in Seen(s, c)
             PROVE  s \in There(c) /\ t \in There(c) /\ s \in live /\ t # s
  BY DEF OnlyPresent
<1> USE HomeAssumption
<1>1. TypeOK /\ SinglesKnown /\ SinglesAgree
  BY DEF MeshInv, KnownInv, Base
<1>2. /\ t \in Sees(s, c) /\ t \in SingleCallers
      /\ s \in live /\ t # s /\ s \in Sockets /\ t \in Sockets
  BY <1>1 DEF Seen, Sees, SingleCallers
<1>3. \A u \in Sockets : Entering(u, c) => u \in Registered(c)
  BY DEF Entering, MeshInv, KnownInv
<1>4. CASE t \in knows[s][c]
  <2>1. s \in rooms[c]
    BY <1>2, <1>4 DEF MeshInv, KnownInv
  <2>2. t \in Registered(c)
    BY <1>1, <1>2, <1>4 DEF SinglesKnown
  <2> QED BY <1>1, <1>2, <2>1, <2>2 DEF SinglesAgree, There
<1>5. CASE Entering(t, c) /\ s \in rooms[c]
  BY <1>1, <1>2, <1>3, <1>5 DEF SinglesAgree, There
<1>6. CASE Entering(s, c) /\ t \in Members(s, c)
  <2>1. t \in Registered(c)
    BY <1>2, <1>6 DEF Members, Registered
  <2> QED BY <1>2, <1>3, <1>6, <2>1 DEF There
<1> QED
  BY <1>2, <1>4, <1>5, <1>6 DEF Sees

LEMMA StillPresent == MeshInv' => OnlyPresent'
BY SeenPresent, PTL

\* A peer that is there is connected, or has closed.
LEMMA ThereOrGone ==
    ASSUME MeshInv, NEW c \in CallIds, NEW s \in There(c)
    PROVE  s \in live <=> s \notin Gone
BY DEF There, Gone, MeshInv, KnownInv, Base, Unused, SingleCallers

\* A step that none of these sockets can see.
LEMMA MeshUnseen ==
    ASSUME \A c \in CallIds : There(c)' = There(c),
           \A s \in SingleCallers, c \in CallIds : Seen(s, c)' = Seen(s, c),
           Gone' = Gone,
           UNCHANGED vouched
    PROVE  UNCHANGED Mesh!meshVars
BY DEF Mesh!meshVars

\* The socket goes: by disconnecting, whatever it was in ...
LEMMA MeshDisconnect ==
    ASSUME MeshInv, NEW u \in Sockets, Disconnect(u)
    PROVE  Mesh!Next \/ UNCHANGED Mesh!meshVars
<1> USE HomeAssumption
<1>0. TypeOK /\ Placed
  BY DEF MeshInv, KnownInv, Base
<1>1. \A c \in CallIds : Registered(c)' = Registered(c) \ {u}
  BY <1>0, Removed DEF Disconnect
<1>2. /\ u \in live /\ live' = live \ {u} /\ fresh' = fresh
      /\ joins' = joins /\ vouched' = vouched
      /\ \A c \in CallIds : rooms'[c] = rooms[c] \ {u}
  BY DEF Disconnect
<1>3. \A s \in Sockets, c \in CallIds : Members(s, c)' = Members(s, c) \ {u}
  <2>1. \A p \in Processes, c \in CallIds : registry'[p][c] = registry[p][c] \ {u}
    BY <1>0, Removed DEF Disconnect
  <2> QED BY <2>1 DEF Members
<1>4. \A s \in Sockets, c \in CallIds, t \in Sockets :
         s # u /\ t # u => (t \in knows'[s][c] <=> t \in knows[s][c])
  BY DEF Disconnect
<1>5. \A s \in Sockets, c \in CallIds : Entering(s, c)' <=> Entering(s, c) /\ s # u
  BY <1>0, <1>2 DEF Entering, Disconnect, Busy
<1>6. \A c \in CallIds : There(c)' = There(c) \ {u}
  BY <1>1 DEF There
<1>7. ASSUME NEW s \in SingleCallers, NEW c \in CallIds, NEW t \in SingleCallers, s # u, t # u
      PROVE  t \in Seen(s, c)' <=> t \in Seen(s, c)
  <2>1. s \in Sockets /\ t \in Sockets
    BY DEF SingleCallers
  <2>2. /\ t \in Members(s, c)' <=> t \in Members(s, c)
        /\ Entering(t, c)' <=> Entering(t, c)
        /\ Entering(s, c)' <=> Entering(s, c)
        /\ s \in rooms'[c] <=> s \in rooms[c]
        /\ t \in knows'[s][c] <=> t \in knows[s][c]
        /\ s \in live' <=> s \in live
    BY <1>2, <1>3, <1>4, <1>5, <1>7, <2>1
  <2>3. t \in Sees(s, c)' <=> t \in Sees(s, c)
    BY <2>2 DEF Sees
  <2> QED BY <2>3 DEF Seen
<1>8. \A s \in SingleCallers, c \in CallIds :
         Seen(s, c)' \subseteq SingleCallers /\ Seen(s, c) \subseteq SingleCallers
  BY DEF Seen
<1>9. CASE u \notin SingleCallers
  <2>1. ASSUME NEW s \in SingleCallers, NEW c \in CallIds PROVE Seen(s, c)' = Seen(s, c)
    <3>1. \A t \in SingleCallers : t \in Seen(s, c)' <=> t \in Seen(s, c)
      BY <1>7, <1>9
    <3> QED BY <1>8, <3>1
  <2>2. \A c \in CallIds : There(c)' = There(c)
    BY <1>6, <1>9 DEF There
  <2>3. Gone' = Gone
    BY <1>2, <1>9 DEF Gone
  <2> QED BY <1>2, <2>1, <2>2, <2>3, MeshUnseen
<1>10. CASE u \in SingleCallers
  <2>1. ASSUME NEW s \in Sockets, NEW c \in CallIds, s # u, s \in live
        PROVE  u \notin knows'[s][c]
    <3>1. CASE u \notin knows[s][c]
      BY <2>1, <3>1 DEF Disconnect
    <3>2. CASE u \in knows[s][c]
      <4>1. s \in rooms[c] /\ u \in Registered(c)
        BY <1>10, <2>1, <3>2 DEF MeshInv, KnownInv, SinglesKnown
      <4>2. u \in Members(u, c)
        BY <1>0, <4>1 DEF Registered, Placed, Members
      <4> QED BY <2>1, <4>1, <4>2 DEF Disconnect
    <3> QED BY <3>1, <3>2
  <2>2. ASSUME NEW s \in SingleCallers, NEW c \in CallIds
        PROVE  Seen(s, c)' = IF s = u THEN {} ELSE Seen(s, c) \ {u}
    <3>0. s \in Sockets
      BY DEF SingleCallers
    <3>1. CASE s = u
      BY <1>2, <3>1 DEF Sees, Seen
    <3>2. CASE s # u
      <4>1. u \notin Seen(s, c)'
        <5>1. u \notin Members(s, c)' /\ ~Entering(u, c)'
          BY <1>3, <1>5, <3>0
        <5> QED BY <1>2, <2>1, <3>0, <3>2, <5>1 DEF Sees, Seen
      <4> QED BY <1>7, <1>8, <3>2, <4>1
    <3> QED BY <3>1, <3>2
  <2>3. Gone' = Gone \cup {u} /\ u \notin Gone
    BY <1>0, <1>2, <1>10 DEF Gone, TypeOK
  <2>4. Mesh!Close(u)
    BY <1>2, <1>6, <2>2, <2>3 DEF Mesh!Close
  <2> QED BY <1>10, <2>4 DEF Mesh!Next
<1> QED BY <1>9, <1>10

\* ... or by peer:leave.
LEMMA MeshPeerLeave ==
    ASSUME MeshInv, NEW u \in Sockets, NEW d \in CallIds, PeerLeave(u, d)
    PROVE  Mesh!Next \/ UNCHANGED Mesh!meshVars
<1> USE HomeAssumption
<1>0. TypeOK /\ Placed /\ Base
  BY DEF MeshInv, KnownInv, Base
<1>1. \A c \in CallIds : Registered(c)' = Registered(c) \ {u}
  BY <1>0, Removed DEF PeerLeave
<1>2. /\ live' = live /\ fresh' = fresh /\ joins' = joins /\ vouched' = vouched
      /\ \A c \in CallIds : \A s \in Sockets : s # u => (s \in rooms'[c] <=> s \in rooms[c])
  BY <1>0 DEF PeerLeave, TypeOK
<1>3. \A s \in Sockets, c \in CallIds : Members(s, c)' = Members(s, c) \ {u}
  <2>1. \A p \in Processes, c \in CallIds : registry'[p][c] = registry[p][c] \ {u}
    BY <1>0, Removed DEF PeerLeave
  <2> QED BY <2>1 DEF Members
<1>4. \A s \in Sockets, c \in CallIds : Entering(s, c)' <=> Entering(s, c) /\ s # u
  BY <1>0, <1>2 DEF Entering, PeerLeave, Busy
<1>5. \A s, t \in Sockets, c \in CallIds :
         s # u /\ t # u => (t \in knows'[s][c] <=> t \in knows[s][c])
  BY <1>0 DEF PeerLeave, TypeOK
<1>6. \A c \in CallIds : There(c)' = There(c) \ {u}
  BY <1>1 DEF There
<1>7. ASSUME NEW s \in SingleCallers, NEW c \in CallIds, NEW t \in SingleCallers, s # u, t # u
      PROVE  t \in Seen(s, c)' <=> t \in Seen(s, c)
  <2>1. s \in Sockets /\ t \in Sockets
    BY DEF SingleCallers
  <2>2. /\ t \in Members(s, c)' <=> t \in Members(s, c)
        /\ Entering(t, c)' <=> Entering(t, c)
        /\ Entering(s, c)' <=> Entering(s, c)
        /\ s \in rooms'[c] <=> s \in rooms[c]
        /\ t \in knows'[s][c] <=> t \in knows[s][c]
    BY <1>2, <1>3, <1>4, <1>5, <1>7, <2>1
  <2>3. t \in Sees(s, c)' <=> t \in Sees(s, c)
    BY <1>2, <2>2 DEF Sees
  <2> QED BY <2>3 DEF Seen
<1>8. \A s \in SingleCallers, c \in CallIds :
         Seen(s, c)' \subseteq SingleCallers /\ Seen(s, c) \subseteq SingleCallers
  BY DEF Seen
<1>9. CASE u \notin SingleCallers
  <2>1. ASSUME NEW s \in SingleCallers, NEW c \in CallIds PROVE Seen(s, c)' = Seen(s, c)
    <3>1. \A t \in SingleCallers : t \in Seen(s, c)' <=> t \in Seen(s, c)
      BY <1>7, <1>9
    <3> QED BY <1>8, <3>1
  <2>2. \A c \in CallIds : There(c)' = There(c)
    BY <1>6, <1>9 DEF There
  <2>3. Gone' = Gone
    BY <1>2 DEF Gone
  <2> QED BY <1>2, <2>1, <2>2, <2>3, MeshUnseen
<1>10. CASE u \in SingleCallers
  <2>1. \A c \in CallIds : /\ u \notin rooms'[c]
                           /\ c # d => u \notin rooms[c] /\ u \notin Registered(c)
    BY <1>0, <1>10, OnlyRoom
  <2>2. \A c \in CallIds : knows'[u][c] = {}
    <3>1. knows'[u][d] = {} /\ \A c \in CallIds : c # d => knows'[u][c] = knows[u][c]
      BY <1>0 DEF PeerLeave, TypeOK
    <3> QED BY <2>1, <3>1 DEF MeshInv, KnownInv
  <2>3. ASSUME NEW s \in Sockets, NEW c \in CallIds, s # u, s \in live
        PROVE  u \notin knows'[s][c]
    <3>1. c = d => u \notin knows'[s][c]
      <4>1. s \in rooms[d] => u \notin knows'[s][d]
        BY <1>0, <2>3 DEF PeerLeave, TypeOK
      <4>2. s \notin rooms[d] => knows[s][d] = {} /\ knows'[s][d] = knows[s][d]
        BY <1>0, <2>3 DEF PeerLeave, TypeOK, MeshInv, KnownInv
      <4> QED BY <4>1, <4>2
    <3>2. c # d => u \notin knows'[s][c]
      <4>1. c # d => knows'[s][c] = knows[s][c]
        BY <1>0, <2>3 DEF PeerLeave, TypeOK
      <4> QED BY <1>10, <2>1, <2>3, <4>1 DEF MeshInv, KnownInv, SinglesKnown
    <3> QED BY <3>1, <3>2
  <2>4. ASSUME NEW s \in SingleCallers, NEW c \in CallIds
        PROVE  Seen(s, c)' = IF s = u THEN {} ELSE Seen(s, c) \ {u}
    <3>0. s \in Sockets
      BY DEF SingleCallers
    <3>1. CASE s = u
      <4>1. u \notin rooms'[c] /\ ~Entering(u, c)'
        BY <1>4, <2>1
      <4> QED BY <2>2, <3>1, <4>1 DEF Sees, Seen
    <3>2. CASE s # u
      <4>1. u \notin Seen(s, c)'
        <5>1. u \notin Members(s, c)' /\ ~Entering(u, c)'
          BY <1>3, <1>4, <3>0
        <5> QED BY <1>2, <2>3, <3>0, <3>2, <5>1 DEF Sees, Seen
      <4> QED BY <1>7, <1>8, <3>2, <4>1
    <3> QED BY <3>1, <3>2
  <2>5. u \in There(d) /\ u \notin Gone
    BY <1>0, <1>10 DEF PeerLeave, There, Gone, Members, Registered
  <2>6. \A c \in CallIds : c # d => There(c)' = There(c)
    BY <1>6, <2>1 DEF There
  <2>7. \A s \in SingleCallers, c \in CallIds : c # d => Seen(s, c)' = Seen(s, c)
    <3> SUFFICES ASSUME NEW s \in SingleCallers, NEW c \in CallIds, c # d
                 PROVE  Seen(s, c)' = Seen(s, c)
      OBVIOUS
    <3>1. u \notin There(c)
      BY <2>1 DEF There
    <3>2. u \notin Seen(s, c) /\ (s = u => Seen(s, c) = {})
      BY <3>1, SeenPresent DEF OnlyPresent
    <3> QED BY <2>4, <3>2
  <2>8. Mesh!Leave(u, d)
    <3>1. [c \in CallIds |-> There(c)]' =
             [[c \in CallIds |-> There(c)] EXCEPT ![d] = @ \ {u}]
      BY <1>6, <2>6
    <3>2. [s \in SingleCallers |-> [c \in CallIds |-> Seen(s, c)]]' =
             [t \in SingleCallers |->
                 [[s \in SingleCallers |-> [c \in CallIds |-> Seen(s, c)]][t] EXCEPT ![d] =
                     IF t = u THEN {} ELSE @ \ {u}]]
      BY <2>4, <2>7
    <3>3. Gone' = Gone
      BY <1>2 DEF Gone
    <3> QED BY <1>2, <2>5, <3>1, <3>2, <3>3 DEF Mesh!Leave
  <2> QED
    BY <1>10, <2>8 DEF Mesh!Next
<1> QED BY <1>9, <1>10

\* What PeerMesh asks of an arriving peer.
LEMMA MeshArrived ==
    ASSUME NEW u \in SingleCallers, NEW d \in CallIds, NEW met \in SUBSET (There(d) \ {u}),
           <<d, UserOf[u]>> \in vouched,
           \A c \in CallIds : There(c)' = IF c = d THEN There(c) \cup {u} ELSE There(c),
           \A s \in SingleCallers, c \in CallIds : c # d => Seen(s, c)' = Seen(s, c),
           \A s \in SingleCallers :
              Seen(s, d)' = Seen(s, d) \cup (IF s = u THEN met
                                             ELSE IF s \in There(d) \ Gone THEN {u} ELSE {}),
           UNCHANGED vouched, Gone' = Gone
    PROVE  Mesh!Arrive(u, d, met)
<1>1. [c \in CallIds |-> There(c)]' =
         [[c \in CallIds |-> There(c)] EXCEPT ![d] = @ \cup {u}]
  OBVIOUS
<1>2. [s \in SingleCallers |-> [c \in CallIds |-> Seen(s, c)]]' =
         [t \in SingleCallers |->
             [[s \in SingleCallers |-> [c \in CallIds |-> Seen(s, c)]][t] EXCEPT ![d] =
                 @ \cup (IF t = u THEN met
                         ELSE IF t \in [c \in CallIds |-> There(c)][d] \ Gone THEN {u}
                         ELSE {})]]
  <2>1. ASSUME NEW t \in SingleCallers
        PROVE  [c \in CallIds |-> Seen(t, c)]' =
                  [[c \in CallIds |-> Seen(t, c)] EXCEPT ![d] =
                      @ \cup (IF t = u THEN met
                              ELSE IF t \in There(d) \ Gone THEN {u} ELSE {})]
    OBVIOUS
  <2> QED BY <2>1
<1> QED
  BY <1>1, <1>2 DEF Mesh!Arrive

\* A peer enters the moment it is registered, connected or closed meanwhile.
LEMMA MeshEnter ==
    ASSUME MeshInv, MeshInv', NEW j \in joins, EnterRoom(j)
    PROVE  Mesh!Next \/ UNCHANGED Mesh!meshVars
<1> USE HomeAssumption
<1>0. TypeOK /\ Placed /\ Base /\ SinglesAgree
  BY DEF MeshInv, KnownInv, Base
<1> PICK u \in Sockets, d \in CallIds : u = j.socket /\ d = j.call
  BY <1>0 DEF TypeOK, Join
<1>1. \A c \in CallIds :
         Registered(c)' = IF c = d THEN Registered(c) \cup {u} ELSE Registered(c)
  BY <1>0, Added
<1>2. /\ live' = live /\ fresh' = fresh /\ knows' = knows /\ vouched' = vouched
      /\ \A c \in CallIds : rooms'[c] = IF c = d THEN rooms[c] \cup {u} ELSE rooms[c]
  BY <1>0 DEF EnterRoom, TypeOK
<1>3. \A s \in Sockets, c \in CallIds :
         Members(s, c)' = IF c = d /\ Home[s] = Home[u] THEN Members(s, c) \cup {u}
                          ELSE Members(s, c)
  <2>1. \A p \in Processes, c \in CallIds :
           registry'[p][c] = IF p = Home[u] /\ c = d THEN registry[p][c] \cup {u}
                             ELSE registry[p][c]
    BY <1>0 DEF EnterRoom, TypeOK
  <2> QED BY <2>1 DEF Members
<1>4. \A s \in Sockets, c \in CallIds :
         Entering(s, c)' <=> Entering(s, c) \/ (s = u /\ c = d)
  <2>1. /\ j.stage # "entered"
        /\ [j EXCEPT !.stage = "entered"].socket = u
        /\ [j EXCEPT !.stage = "entered"].call = d
        /\ [j EXCEPT !.stage = "entered"].stage = "entered"
        /\ joins' = (joins \ {j}) \cup {[j EXCEPT !.stage = "entered"]}
    BY <1>0 DEF EnterRoom, TypeOK, Join
  <2> PICK i : i = [j EXCEPT !.stage = "entered"]
    OBVIOUS
  <2>2. /\ i \in joins' /\ i.socket = u /\ i.call = d /\ i.stage = "entered"
        /\ \A k : k.stage = "entered" => (k \in joins' <=> k \in joins \/ k = i)
    BY <2>1
  <2> QED BY <2>2 DEF Entering
<1>5. Gone' = Gone
  BY <1>2 DEF Gone
<1>6. \A s \in Sockets, c \in CallIds : c # d => Sees(s, c)' = Sees(s, c)
  <2> SUFFICES ASSUME NEW s \in Sockets, NEW c \in CallIds, c # d
               PROVE  Sees(s, c)' = Sees(s, c)
    OBVIOUS
  <2>1. /\ live' = live /\ knows' = knows /\ rooms'[c] = rooms[c]
        /\ Members(s, c)' = Members(s, c)
    BY <1>2, <1>3
  <2>2. \A t \in Sockets : Entering(t, c)' <=> Entering(t, c)
    BY <1>4
  <2> QED BY <2>1, <2>2 DEF Sees
<1>7. \A s, t \in Sockets : s # u /\ t # u => (t \in Sees(s, d)' <=> t \in Sees(s, d))
  <2> SUFFICES ASSUME NEW s \in Sockets, NEW t \in Sockets, s # u, t # u
               PROVE  t \in Sees(s, d)' <=> t \in Sees(s, d)
    OBVIOUS
  <2>1. /\ t \in Members(s, d)' <=> t \in Members(s, d)
        /\ Entering(t, d)' <=> Entering(t, d)
        /\ Entering(s, d)' <=> Entering(s, d)
        /\ s \in rooms'[d] <=> s \in rooms[d]
    <3>1. t \in Members(s, d)' <=> t \in Members(s, d)
      BY <1>3
    <3>2. (Entering(t, d)' <=> Entering(t, d)) /\ (Entering(s, d)' <=> Entering(s, d))
      BY <1>4
    <3>3. s \in rooms'[d] <=> s \in rooms[d]
      BY <1>2
    <3> QED BY <3>1, <3>2, <3>3
  <2> QED BY <1>2, <2>1 DEF Sees
<1>8. u \in SingleCallers => u \in Gone \/ u \in live
  BY <1>0 DEF Gone, Base, Unused
<1>9. \A s \in SingleCallers, c \in CallIds : c # d => Seen(s, c)' = Seen(s, c)
  BY <1>6 DEF Seen, SingleCallers
<1>10. \A s, t \in SingleCallers :
          s # u /\ t # u => (t \in Seen(s, d)' <=> t \in Seen(s, d))
  BY <1>7 DEF Seen, SingleCallers
<1>11. \A s \in SingleCallers :
          Seen(s, d)' \subseteq SingleCallers /\ Seen(s, d) \subseteq SingleCallers
  BY DEF Seen
<1>12. CASE u \notin SingleCallers
  <2>1. \A s \in SingleCallers : Seen(s, d)' = Seen(s, d)
    BY <1>10, <1>11, <1>12
  <2>2. \A s \in SingleCallers, c \in CallIds : Seen(s, c)' = Seen(s, c)
    BY <1>9, <2>1
  <2>3. \A c \in CallIds : There(c)' = There(c)
    BY <1>1, <1>12 DEF There
  <2> QED BY <1>2, <1>5, <2>2, <2>3, MeshUnseen
<1>13. CASE u \in SingleCallers
  <2> PICK met : met = Seen(u, d)'
    OBVIOUS
  <2>1. \A c \in CallIds :
           There(c)' = IF c = d THEN There(c) \cup {u} ELSE There(c)
    BY <1>1, <1>13 DEF There
  <2>2. met \subseteq There(d) \ {u}
    <3>1. \A t \in Seen(u, d)' : t \in There(d)' /\ t # u
      BY <1>13, StillPresent DEF OnlyPresent
    <3> QED BY <2>1, <3>1
  <2>3. <<d, UserOf[u]>> \in vouched
    BY DEF MeshInv, EnterRoom, Authorized, InRoom, Members, VouchedInv, MembersVouched,
           TypeOK, Join
  <2>4. Entering(u, d)'
    BY <1>4
  <2>5. ASSUME u \in live, NEW t \in There(d) \ {u}, Home[t] = Home[u] PROVE t \in met
    <3>1. t \in Sockets /\ t \in Members(u, d) /\ t \in SingleCallers
      BY <1>0, <2>5 DEF There, Registered, Placed, Members
    <3>2. t \in Members(u, d)' /\ u \in live'
      BY <1>2, <1>3, <2>5, <3>1
    <3> QED BY <2>4, <2>5, <3>1, <3>2 DEF Sees, Seen
  <2>6. Seen(u, d) \subseteq met
    <3> SUFFICES ASSUME NEW t \in Seen(u, d) PROVE t \in Seen(u, d)'
      OBVIOUS
    <3>1. t \in Sockets /\ t # u
      BY DEF Sees, Seen
    <3>2. /\ t \in Members(u, d) => t \in Members(u, d)'
          /\ Entering(t, d) => Entering(t, d)'
          /\ u \in rooms'[d]
      BY <1>2, <1>3, <1>4, <3>1
    <3> QED BY <1>2, <2>4, <3>1, <3>2 DEF Sees, Seen
  <2>7. ASSUME NEW s \in SingleCallers, s # u
        PROVE  u \in Seen(s, d)' <=> s \in There(d) \ Gone
    <3>1. ASSUME u \in Seen(s, d)' PROVE s \in There(d) \ Gone
      <4>1. s \in There(d)' /\ s \in live'
        BY <3>1, StillPresent DEF OnlyPresent
      <4> QED BY <1>2, <2>1, <2>7, <4>1 DEF Gone
    <3>2. ASSUME s \in There(d), s \notin Gone PROVE u \in Seen(s, d)'
      <4>1. s \in live /\ s \in Registered(d) /\ s \in Sockets
        BY <3>2, ThereOrGone DEF There, SingleCallers
      <4>2. s \in rooms[d]
        BY <1>0, <4>1 DEF SinglesAgree
      <4>3. s \in rooms'[d]
        BY <1>2, <4>2
      <4> QED BY <1>2, <1>13, <2>4, <2>7, <4>1, <4>3 DEF Sees, Seen
    <3> QED BY <3>1, <3>2
  <2>8. \A s \in SingleCallers : u \in Seen(s, d) => s \in There(d) \ Gone /\ s # u
    BY SeenPresent DEF OnlyPresent, Gone
  <2>9. \A s \in SingleCallers :
           Seen(s, d)' = Seen(s, d) \cup (IF s = u THEN met
                                          ELSE IF s \in There(d) \ Gone THEN {u} ELSE {})
    BY <1>10, <1>11, <2>6, <2>7, <2>8
  <2>10. Mesh!Arrive(u, d, met)
    BY <1>2, <1>5, <1>9, <1>13, <2>1, <2>2, <2>3, <2>9, MeshArrived
  <2>11. CASE u \in live
    <3>1. u \notin Gone
      BY <2>11 DEF Gone
    <3>2. Mesh!Near(u, d) \ {u} \subseteq met
      BY <2>5, <2>11 DEF Mesh!Near
    <3>3. Mesh!Enter(u, d)
      BY <2>2, <2>10, <3>1, <3>2 DEF Mesh!Enter
    <3> QED BY <1>13, <3>3 DEF Mesh!Next
  <2>12. CASE u \notin live
    <3>1. met = {}
      BY <1>2, <2>12 DEF Sees, Seen
    <3>2. Mesh!EnterGone(u, d)
      BY <1>8, <1>13, <2>10, <2>12, <3>1 DEF Mesh!EnterGone
    <3> QED BY <1>13, <3>2 DEF Mesh!Next
  <2> QED BY <2>11, <2>12
<1> QED BY <1>12, <1>13

\* The welcome tells the clients what they were about to be told.
LEMMA MeshWelcome ==
    ASSUME MeshInv, NEW j \in joins, Welcome(j)
    PROVE  UNCHANGED Mesh!meshVars
<1> USE HomeAssumption
<1>0. TypeOK /\ Placed
  BY DEF MeshInv, KnownInv, Base
<1> PICK u \in Sockets, d \in CallIds : u = j.socket /\ d = j.call
  BY <1>0 DEF TypeOK, Join
<1>1. /\ live' = live /\ fresh' = fresh /\ rooms' = rooms /\ registry' = registry /\ vouched' = vouched
      /\ joins' = joins \ {j} /\ j.stage = "entered"
  BY DEF Welcome
<1>2. u \in rooms[d] /\ Entering(u, d)
  BY <1>1 DEF MeshInv, KnownInv, Entering
<1>3. \A s \in Sockets, c \in CallIds : Members(s, c)' = Members(s, c)
  BY <1>1 DEF Members
<1>4. \A s \in Sockets, c \in CallIds :
         Entering(s, c)' <=> Entering(s, c) /\ ~(s = u /\ c = d)
  <2>1. \A k \in joins : k.socket = u /\ k.call = d /\ k.stage = "entered" => k = j
    BY <1>0, <1>1 DEF TypeOK, Join
  <2> QED BY <1>1, <2>1 DEF Entering
<1>5. \A s, t \in Sockets, c \in CallIds :
         t \in knows'[s][c] <=>
            \/ t \in knows[s][c]
            \/ c = d /\ s \in rooms[d] /\ s \in live /\ s # u /\ t = u
            \/ c = d /\ s = u /\ u \in live /\ t \in Members(u, d) /\ t # u
  <2>1. \A t : t \in Peers(u, d) <=> t \in Members(u, d) /\ t # u
    BY DEF Peers
  <2> QED BY <1>0, <2>1, Told
<1>6. ASSUME NEW s \in Sockets, NEW c \in CallIds PROVE Sees(s, c)' = Sees(s, c)
  <2>1. ASSUME NEW t \in Sockets, s \in live, t # s
        PROVE  t \in Sees(s, c)' <=> t \in Sees(s, c)
    <3>1. /\ t \in Sees(s, c) <=>
               \/ t \in knows[s][c]
               \/ Entering(t, c) /\ s \in rooms[c]
               \/ Entering(s, c) /\ t \in Members(s, c)
          /\ t \in Sees(s, c)' <=>
               \/ t \in knows'[s][c]
               \/ Entering(t, c)' /\ s \in rooms[c]
               \/ Entering(s, c)' /\ t \in Members(s, c)
      BY <1>1, <1>3, <2>1 DEF Sees
    <3>2. CASE c # d \/ (s # u /\ t # u)
      BY <1>4, <1>5, <3>1, <3>2
    <3>3. CASE c = d /\ s = u
      BY <1>2, <1>4, <1>5, <2>1, <3>1, <3>3
    <3>4. CASE c = d /\ t = u
      BY <1>2, <1>4, <1>5, <2>1, <3>1, <3>4
    <3> QED BY <3>2, <3>3, <3>4
  <2>2. /\ \A t : t \in Sees(s, c)' => s \in live /\ t \in Sockets /\ t # s
        /\ \A t : t \in Sees(s, c) => s \in live /\ t \in Sockets /\ t # s
    BY <1>1 DEF Sees
  <2> QED BY <2>1, <2>2
<1>7. \A c \in CallIds : There(c)' = There(c)
  BY <1>1 DEF There, Registered
<1>8. \A s \in SingleCallers, c \in CallIds : Seen(s, c)' = Seen(s, c)
  BY <1>6 DEF Seen, SingleCallers
<1>9. Gone' = Gone
  BY <1>1 DEF Gone
<1> QED
  BY <1>1, <1>7, <1>8, <1>9, MeshUnseen

\* A new connection is in no call and has been told nothing.
LEMMA MeshConnect ==
    ASSUME MeshInv, MeshInv', NEW u \in Sockets, Connect(u)
    PROVE  UNCHANGED Mesh!meshVars
<1> USE HomeAssumption
<1>0. TypeOK /\ Unused
  BY DEF MeshInv, KnownInv, Base
<1>1. /\ live' = live \cup {u} /\ fresh' = fresh \ {u}
      /\ u \in fresh /\ u \notin live
      /\ UNCHANGED <<rooms, registry, joins, knows, vouched>>
  BY <1>0 DEF Connect, TypeOK
<1>2. \A c \in CallIds : Registered(c)' = Registered(c) /\ u \notin Registered(c)
  BY <1>0, <1>1 DEF Registered, Unused
<1>3. \A c \in CallIds : There(c)' = There(c) /\ u \notin There(c)
  BY <1>2 DEF There
<1>4. ASSUME NEW s \in SingleCallers, NEW c \in CallIds PROVE Seen(s, c)' = Seen(s, c)
  <2>1. \A t \in Seen(s, c)' : s # u /\ t # u
    BY <1>3, StillPresent DEF OnlyPresent
  <2>2. \A t \in Seen(s, c) : s # u /\ t # u
    BY <1>3, SeenPresent DEF OnlyPresent
  <2>3. /\ Members(s, c)' = Members(s, c)
        /\ \A t : Entering(t, c)' <=> Entering(t, c)
    BY <1>1 DEF Members, Entering
  <2>4. ASSUME NEW t, t # u, s # u PROVE t \in Seen(s, c)' <=> t \in Seen(s, c)
    <3>1. (t \in live' <=> t \in live) /\ (s \in live' <=> s \in live)
      BY <1>1, <2>4
    <3> QED BY <1>1, <2>3, <3>1 DEF Sees, Seen
  <2> QED BY <2>1, <2>2, <2>4
<1>5. Gone' = Gone
  BY <1>1 DEF Gone
<1> QED
  BY <1>1, <1>3, <1>4, <1>5, MeshUnseen

\* The other steps are not seen, but for what the bus says of a user.
LEMMA MeshQuiet ==
    ASSUME UNCHANGED <<registry, rooms, fresh, live, knows>>,
           \A i : i \in joins /\ i.stage = "entered" <=> i \in joins' /\ i.stage = "entered",
           \/ UNCHANGED vouched
           \/ \E c \in CallIds, v \in Users : vouched' = vouched \cup {<<c, v>>}
    PROVE  Mesh!Next \/ UNCHANGED Mesh!meshVars
<1>1. \A c \in CallIds : There(c)' = There(c)
  BY DEF There, Registered
<1>2. ASSUME NEW s \in SingleCallers, NEW c \in CallIds PROVE Seen(s, c)' = Seen(s, c)
  <2>1. \A t : Entering(t, c)' <=> Entering(t, c)
    BY DEF Entering
  <2> QED BY <2>1 DEF Seen, Sees, Members
<1>3. Gone' = Gone
  BY DEF Gone
<1>5. CASE UNCHANGED vouched
  BY <1>1, <1>2, <1>3, <1>5, MeshUnseen
<1>4. ASSUME NEW c \in CallIds, NEW v \in Users, vouched' = vouched \cup {<<c, v>>}
      PROVE  Mesh!Next
  <2>1. Mesh!Vouch(c, v)
    BY <1>1, <1>2, <1>3, <1>4 DEF Mesh!Vouch
  <2> QED BY <2>1 DEF Mesh!Next
<1> QED BY <1>4, <1>5

LEMMA MeshStep ==
    MeshInv /\ MeshInv' /\ [Next]_vars => [Mesh!Next]_Mesh!meshVars
<1> SUFFICES ASSUME MeshInv, MeshInv', [Next]_vars
             PROVE  Mesh!Next \/ UNCHANGED Mesh!meshVars
  OBVIOUS
<1>0. TypeOK
  BY DEF MeshInv, KnownInv, Base
<1>1. ASSUME NEW s \in Sockets, NEW c \in CallIds, PeerJoin(s, c)
      PROVE  Mesh!Next \/ UNCHANGED Mesh!meshVars
  BY <1>1, MeshQuiet DEF PeerJoin
<1>2. ASSUME NEW j \in joins, NEW answer \in {"yes", "no"}, BusAnswers(j, answer)
      PROVE  Mesh!Next \/ UNCHANGED Mesh!meshVars
  <2>1. j.call \in CallIds /\ UserOf[j.socket] \in Users
    BY <1>0, UserOfAssumption DEF TypeOK, Join
  <2>2. [j EXCEPT !.stage = answer].stage = answer
    BY <1>0 DEF TypeOK, Join
  <2>3. \A i : i \in joins /\ i.stage = "entered" <=> i \in joins' /\ i.stage = "entered"
    BY <1>2, <2>2 DEF BusAnswers
  <2> QED BY <1>2, <2>1, <2>3, MeshQuiet DEF BusAnswers
<1>3. ASSUME NEW j \in joins, Forbidden(j) \/ BusFails(j)
      PROVE  Mesh!Next \/ UNCHANGED Mesh!meshVars
  BY <1>3, MeshQuiet DEF Forbidden, BusFails
<1>4. CASE UNCHANGED vars
  BY <1>4, MeshQuiet DEF vars
<1> QED
  BY <1>1, <1>2, <1>3, <1>4, MeshConnect, MeshDisconnect, MeshPeerLeave, MeshEnter,
     MeshWelcome DEF Next, Resume

LEMMA MeshInit == Init => Mesh!Init
<1> SUFFICES ASSUME Init PROVE Mesh!Init
  OBVIOUS
<1>1. /\ live = {} /\ vouched = {} /\ fresh = Sockets
      /\ \A p \in Processes, c \in CallIds : registry[p][c] = {}
  BY DEF Init
<1>2. \A c \in CallIds : There(c) = {}
  BY <1>1 DEF There, Registered
<1>3. \A s \in SingleCallers, c \in CallIds : Seen(s, c) = {}
  BY <1>1 DEF Sees, Seen
<1>4. Gone = {}
  BY <1>1 DEF Gone, SingleCallers
<1> QED
  BY <1>1, <1>2, <1>3, <1>4 DEF Mesh!Init

LEMMA MeshInitially == Init => MeshInv
BY KnownInitially, RoomsInitially, VouchedInitially DEF MeshInv, RoomsInv

LEMMA MeshKept == MeshInv /\ [Next]_vars => MeshInv'
BY KnownStep, RoomsStep, VouchedStep DEF MeshInv, RoomsInv, KnownInv

LEMMA MeshAlways == Spec => []MeshInv
BY MeshInitially, MeshKept, PTL DEF Spec

\* Among the sockets that only ever ask for one call the gateway does what
\* PeerMesh promises: a peer that enters is seen by all who are connected to the
\* call and sees all those on its process, and one that leaves or closes is out of
\* the sight of everybody who was told of it, by what handlePeerLeave and
\* handleDisconnect emit.  Only a peer registered after it closed stays in view
\* (EnterGone).  On any number of processes, whatever is answered late and whatever
\* sockets in several calls do beside them.
THEOREM MeshImplemented == Spec => ImplementsMesh
<1>1. Init => Mesh!Init
  BY MeshInit
<1>2. MeshInv /\ MeshInv' /\ [Next]_vars => [Mesh!Next]_Mesh!meshVars
  BY MeshStep
<1>3. Spec => []MeshInv
  BY MeshAlways
<1> QED
  BY <1>1, <1>2, <1>3, PTL DEF Spec, ImplementsMesh, Mesh!Spec
=============================================================================
