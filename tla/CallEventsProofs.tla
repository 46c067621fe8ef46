--------------------------- MODULE CallEventsProofs ---------------------------
(***************************************************************************)
(* Proofs about CallEvents, for any sockets, users, calls, processes and   *)
(* any call events and invitations the clients send.                       *)
(***************************************************************************)
EXTENDS CallEvents, SignalingProofs

-----------------------------------------------------------------------------
(* Logs *)

\* A message that is not in a log yet can be appended to it.
LEMMA LogGrows ==
    ASSUME NEW log \in Seq(Messages), IsInjective(log), NEW x \in Messages, x \notin ToSet(log)
    PROVE  /\ Append(log, x) \in Seq(Messages) /\ IsInjective(Append(log, x))
           /\ ToSet(Append(log, x)) = ToSet(log) \cup {x}
<1>1. /\ Append(log, x) \in Seq(Messages)
      /\ Len(Append(log, x)) = Len(log) + 1
      /\ \A i \in 1 .. Len(log) : Append(log, x)[i] = log[i]
      /\ Append(log, x)[Len(log) + 1] = x
      /\ Len(log) \in Nat
      /\ DOMAIN log = 1 .. Len(log)
      /\ DOMAIN Append(log, x) = 1 .. Len(log) + 1
  OBVIOUS
<1>2. \A i \in 1 .. Len(log) : log[i] # x
  BY <1>1 DEF ToSet
<1>3. IsInjective(Append(log, x))
  BY <1>1, <1>2 DEF IsInjective
<1>4. ToSet(Append(log, x)) = ToSet(log) \cup {x}
  BY <1>1 DEF ToSet
<1> QED BY <1>1, <1>3, <1>4

\* m comes before n wherever both are in the log.
InOrder(log, m, n) == \A a, b \in DOMAIN log : log[a] = m /\ log[b] = n => a < b

LEMMA OrderKept ==
    ASSUME NEW log \in Seq(Messages), NEW x \in Messages, NEW m, NEW n, m # n, x # m,
           InOrder(log, m, n)
    PROVE  InOrder(Append(log, x), m, n)
<1>1. /\ \A i \in 1 .. Len(log) : Append(log, x)[i] = log[i]
      /\ Append(log, x)[Len(log) + 1] = x
      /\ Len(log) \in Nat
      /\ DOMAIN log = 1 .. Len(log)
      /\ DOMAIN Append(log, x) = 1 .. Len(log) + 1
  OBVIOUS
<1> QED BY <1>1 DEF InOrder

-----------------------------------------------------------------------------
(* The invariant *)

\* A room holds only sockets whose user the bus has vouched for in the call.
RoomsVouched == \A c \in CallIds : \A s \in rooms[c] : <<c, UserOf[s]>> \in vouched

\* How far a handler is tells where its message is.
Progressed ==
    /\ \A m \in Messages :
          /\ m \in ToSet(recorded) => progress[m] \in {"recording", "done", "failed"}
          /\ progress[m] \in {"recording", "done"} => m \in ToSet(recorded)
    /\ \A s \in Sockets : \A m \in ToSet(heard[s]) :
          progress[m] = "done" /\ m \in ToSet(recorded)

\* What was acknowledged is in no log again.
AckedInOrder ==
    \A m, n \in Messages : <<m, n>> \in acked =>
        /\ m # n /\ progress[m] = "done"
        /\ InOrder(recorded, m, n)
        /\ \A s \in Sockets : InOrder(heard[s], m, n)

EventsInv ==
    /\ EventsTypeOK /\ VouchedInv /\ RoomsVouched
    /\ ActorsVouched /\ Progressed /\ AckedInOrder

LogTypes ==
    /\ progress \in [Messages -> Progress]
    /\ recorded \in Seq(Messages) /\ IsInjective(recorded)
    /\ heard \in [Sockets -> Seq(Messages)]
    /\ \A s \in Sockets : IsInjective(heard[s])
    /\ acked \subseteq Messages \X Messages

InviteTypes ==
    /\ unsent \subseteq Invites
    /\ pending \in [Invites -> Seq(Users)]
    /\ delivered \in [Invites -> Seq(Users)]
    /\ skipped \in [Invites -> Seq(Users)]
    /\ invited \in [Sockets -> SUBSET Invites]

LEMMA EventsTypes == EventsTypeOK <=> TypeOK /\ LogTypes /\ InviteTypes
  BY DEF EventsTypeOK, LogTypes, InviteTypes

\* The two parts of ActorsVouched.
LogsVouched ==
    /\ \A m \in ToSet(recorded) : <<About[m], UserOf[Sender[m]]>> \in vouched
    /\ \A s \in Sockets : \A m \in ToSet(heard[s]) : <<About[m], UserOf[s]>> \in vouched

InvitesVouched ==
    \A i \in Invites : \A u \in ToSet(delivered[i]) : <<InviteOf[i].call, u>> \in vouched

LEMMA Actors == ActorsVouched <=> LogsVouched /\ InvitesVouched
  BY DEF ActorsVouched, LogsVouched, InvitesVouched

-----------------------------------------------------------------------------
(* Steps that leave parts of the state alone *)

LEMMA LogsStay ==
    ASSUME LogTypes, Progressed, AckedInOrder, UNCHANGED eventVars
    PROVE  LogTypes' /\ Progressed' /\ AckedInOrder'
  BY DEF eventVars, LogTypes, Progressed, AckedInOrder

LEMMA InvitesStay ==
    ASSUME InviteTypes, UNCHANGED inviteVars
    PROVE  InviteTypes'
  BY DEF inviteVars, InviteTypes

LEMMA VouchersStay ==
    ASSUME vouched \subseteq vouched'
    PROVE  /\ LogsVouched /\ UNCHANGED eventVars => LogsVouched'
           /\ InvitesVouched /\ UNCHANGED inviteVars => InvitesVouched'
  BY DEF eventVars, inviteVars, LogsVouched, InvitesVouched

\* An answer of the bus that only adds to what it has vouched for.
LEMMA AnswerKeepsRooms ==
    ASSUME VouchedInv, RoomsVouched, vouched \subseteq vouched',
           vouched' \subseteq CallIds \X Users,
           UNCHANGED <<fresh, live, registry, rooms, joins, knows, abandoned>>
    PROVE  TypeOK' /\ VouchedInv' /\ RoomsVouched'
  BY DEF VouchedInv, TypeOK, MembersVouched, RoomsVouched

\* Who gets into a room has been vouched for; nobody loses that again.
LEMMA RoomsStayVouched ==
    ASSUME VouchedInv, RoomsVouched, [Next]_vars
    PROVE  vouched \subseteq vouched' /\ RoomsVouched'
<1> USE UserOfAssumption
<1>1. ASSUME NEW s \in Sockets, Disconnect(s)
      PROVE  vouched \subseteq vouched' /\ RoomsVouched'
  BY <1>1 DEF Disconnect, RoomsVouched
<1>2. ASSUME NEW s \in Sockets, NEW c \in CallIds, PeerLeave(s, c)
      PROVE  vouched \subseteq vouched' /\ RoomsVouched'
  <2>1. \A d \in CallIds : rooms'[d] \subseteq rooms[d]
    BY <1>2 DEF PeerLeave, VouchedInv, TypeOK
  <2> QED BY <1>2, <2>1 DEF PeerLeave, RoomsVouched
<1>3. ASSUME NEW j \in joins, NEW answer \in {"yes", "no"}, BusAnswers(j, answer)
      PROVE  vouched \subseteq vouched' /\ RoomsVouched'
  BY <1>3 DEF BusAnswers, RoomsVouched
<1>4. ASSUME NEW j \in joins, EnterRoom(j)
      PROVE  vouched \subseteq vouched' /\ RoomsVouched'
  <2>1. j.socket \in Sockets /\ j.call \in CallIds
    BY DEF VouchedInv, TypeOK, Join
  <2>2. <<j.call, UserOf[j.socket]>> \in vouched
    BY <1>4, <2>1, HomeAssumption
       DEF EnterRoom, Authorized, InRoom, Members, VouchedInv, MembersVouched
  <2>3. \A d \in CallIds : rooms'[d] = IF d = j.call THEN rooms[d] \cup {j.socket} ELSE rooms[d]
    BY <1>4, <2>1 DEF EnterRoom, VouchedInv, TypeOK
  <2> QED BY <1>4, <2>2, <2>3 DEF EnterRoom, RoomsVouched
<1>5. ASSUME UNCHANGED <<rooms, vouched>>
      PROVE  vouched \subseteq vouched' /\ RoomsVouched'
  BY <1>5 DEF RoomsVouched
<1>6. ASSUME NEW s \in Sockets, Connect(s) \/ \E c \in CallIds : PeerJoin(s, c)
      PROVE  vouched \subseteq vouched' /\ RoomsVouched'
  BY <1>5, <1>6 DEF Connect, PeerJoin
<1>7. ASSUME NEW j \in joins, BusFails(j) \/ Forbidden(j) \/ Welcome(j)
      PROVE  vouched \subseteq vouched' /\ RoomsVouched'
  BY <1>5, <1>7 DEF BusFails, Forbidden, Welcome
<1>8. CASE UNCHANGED vars
  BY <1>5, <1>8 DEF vars
<1> QED
  BY <1>1, <1>2, <1>3, <1>4, <1>6, <1>7, <1>8 DEF Next, Resume

-----------------------------------------------------------------------------
(* Call events *)

LEMMA SendEventStep ==
    ASSUME LogTypes, Progressed, AckedInOrder, LogsVouched,
           NEW m \in Messages, SendEvent(m)
    PROVE  LogTypes' /\ Progressed' /\ AckedInOrder' /\ LogsVouched'
<1>1. /\ progress[m] = "unsent"
      /\ progress' = [progress EXCEPT ![m] = "asked"]
      /\ UNCHANGED <<recorded, heard, vouched>>
      /\ \A k, n \in Messages :
            <<k, n>> \in acked' => <<k, n>> \in acked \/ (n = m /\ progress[k] = "done")
      /\ acked' \subseteq Messages \X Messages
  BY DEF SendEvent, Acknowledged, vars, LogTypes
<1>2. \A k \in Messages : k # m => progress'[k] = progress[k]
  BY <1>1 DEF LogTypes
<1>3. progress'[m] = "asked"
  BY <1>1 DEF LogTypes
<1>4. LogTypes'
  BY <1>1 DEF LogTypes, Progress
<1>5. LogsVouched'
  BY <1>1 DEF LogsVouched
<1>6. m \notin ToSet(recorded) /\ \A s \in Sockets : m \notin ToSet(heard[s])
  BY <1>1 DEF Progressed
<1>7. Progressed'
  BY <1>1, <1>2, <1>3, <1>6 DEF Progressed
<1>8. \A k : InOrder(recorded, k, m) /\ \A s \in Sockets : InOrder(heard[s], k, m)
  BY <1>6 DEF InOrder, ToSet
<1>9. AckedInOrder'
  <2> SUFFICES ASSUME NEW k \in Messages, NEW n \in Messages, <<k, n>> \in acked'
               PROVE  /\ k # n /\ progress'[k] = "done"
                      /\ InOrder(recorded, k, n)
                      /\ \A s \in Sockets : InOrder(heard[s], k, n)
    BY <1>1 DEF AckedInOrder, InOrder
  <2>1. CASE <<k, n>> \in acked
    BY <1>1, <1>2, <2>1 DEF AckedInOrder
  <2>2. CASE n = m /\ progress[k] = "done"
    BY <1>1, <1>2, <1>8, <2>2
  <2> QED BY <1>1, <2>1, <2>2
<1> QED BY <1>4, <1>5, <1>7, <1>9

\* What the bus or the registry says of a sender.
LEMMA SenderVouched ==
    ASSUME VouchedInv, NEW s \in Sockets, NEW c \in CallIds, NEW answer,
           Vouch(s, c, answer), MaySend(s, c, answer)
    PROVE  <<c, UserOf[s]>> \in vouched'
<1>1. CASE answer = "yes"
  BY <1>1 DEF Vouch
<1>2. CASE InRoom(s, c)
  BY <1>2, HomeAssumption DEF Vouch, InRoom, Members, VouchedInv, MembersVouched
<1> QED BY <1>1, <1>2 DEF MaySend

\* A handler that ends with an error.
LEMMA FailedStep ==
    ASSUME LogTypes, Progressed, AckedInOrder, LogsVouched,
           NEW m \in Messages, progress[m] \in {"asked", "recording"},
           progress' = [progress EXCEPT ![m] = "failed"],
           UNCHANGED <<recorded, heard, acked>>, vouched \subseteq vouched'
    PROVE  LogTypes' /\ Progressed' /\ AckedInOrder' /\ LogsVouched'
<1>1. /\ progress'[m] = "failed"
      /\ \A k \in Messages : k # m => progress'[k] = progress[k]
  BY DEF LogTypes
<1>2. LogTypes'
  BY DEF LogTypes, Progress
<1>3. \A s \in Sockets : \A k \in ToSet(heard[s]) :
         progress[k] = "done" /\ k \in ToSet(recorded) /\ k # m /\ k \in Messages
  BY DEF Progressed, LogTypes, ToSet
<1>4. Progressed'
  <2>1. \A k \in Messages :
           /\ k \in ToSet(recorded) => progress'[k] \in {"recording", "done", "failed"}
           /\ progress'[k] \in {"recording", "done"} => k \in ToSet(recorded)
    BY <1>1 DEF Progressed
  <2>2. \A s \in Sockets : \A k \in ToSet(heard[s]) :
           progress'[k] = "done" /\ k \in ToSet(recorded)
    BY <1>1, <1>3
  <2> QED BY <2>1, <2>2 DEF Progressed, ToSet
<1>5. AckedInOrder'
  BY <1>1 DEF AckedInOrder, InOrder
<1>6. LogsVouched'
  BY DEF LogsVouched, ToSet
<1> QED BY <1>2, <1>4, <1>5, <1>6

LEMMA EventAnsweredStep ==
    ASSUME VouchedInv, LogTypes, Progressed, AckedInOrder, LogsVouched,
           NEW m \in Messages, NEW answer, EventAnswered(m, answer)
    PROVE  LogTypes' /\ Progressed' /\ AckedInOrder' /\ LogsVouched'
<1> DEFINE s0 == Sender[m]
           c0 == About[m]
<1>1. /\ s0 \in Sockets /\ c0 \in CallIds
      /\ progress[m] = "asked" /\ Vouch(s0, c0, answer)
      /\ UNCHANGED <<heard, acked>>
  BY SenderAssumption, AboutAssumption DEF EventAnswered
<1>2. vouched \subseteq vouched'
  BY <1>1 DEF Vouch
<1>3. m \notin ToSet(recorded)
  BY <1>1 DEF Progressed
<1>4. \A s \in Sockets : m \notin ToSet(heard[s])
  BY <1>1 DEF Progressed
<1>5. CASE MaySend(s0, c0, answer)
  <2>1. recorded' = Append(recorded, m) /\ progress' = [progress EXCEPT ![m] = "recording"]
    BY <1>5 DEF EventAnswered
  <2>2. <<c0, UserOf[s0]>> \in vouched'
    BY <1>1, <1>5, SenderVouched
  <2>3. /\ recorded' \in Seq(Messages) /\ IsInjective(recorded')
        /\ ToSet(recorded') = ToSet(recorded) \cup {m}
    BY <1>3, <2>1, LogGrows DEF LogTypes
  <2>4. LogTypes'
    BY <1>1, <2>1, <2>3 DEF LogTypes, Progress
  <2>5. /\ progress'[m] = "recording"
        /\ \A k \in Messages : k # m => progress'[k] = progress[k]
    BY <2>1 DEF LogTypes
  <2>6. Progressed'
    <3>1. \A k \in Messages :
             /\ k \in ToSet(recorded') => progress'[k] \in {"recording", "done", "failed"}
             /\ progress'[k] \in {"recording", "done"} => k \in ToSet(recorded')
      BY <2>3, <2>5 DEF Progressed
    <3>2. \A s \in Sockets : \A k \in ToSet(heard[s]) :
             progress[k] = "done" /\ k \in ToSet(recorded) /\ k # m /\ k \in Messages
      BY <1>4 DEF Progressed, LogTypes, ToSet
    <3>3. \A s \in Sockets : \A k \in ToSet(heard'[s]) :
             progress'[k] = "done" /\ k \in ToSet(recorded')
      BY <1>1, <2>3, <2>5, <3>2
    <3> QED BY <3>1, <3>3 DEF Progressed, ToSet
  <2>7. LogsVouched'
    <3>1. \A k \in ToSet(recorded') : <<About[k], UserOf[Sender[k]]>> \in vouched'
      BY <1>2, <2>2, <2>3 DEF LogsVouched
    <3> QED BY <1>1, <1>2, <3>1 DEF LogsVouched, ToSet
  <2>8. AckedInOrder'
    <3> SUFFICES ASSUME NEW k \in Messages, NEW n \in Messages, <<k, n>> \in acked
                 PROVE  /\ k # n /\ progress'[k] = "done"
                        /\ InOrder(recorded', k, n)
                        /\ \A s \in Sockets : InOrder(heard[s], k, n)
      BY <1>1 DEF AckedInOrder, InOrder
    <3>1. /\ k # n /\ progress[k] = "done" /\ InOrder(recorded, k, n)
          /\ \A s \in Sockets : InOrder(heard[s], k, n)
      BY DEF AckedInOrder
    <3>2. m # k
      BY <1>1, <3>1
    <3>3. InOrder(recorded', k, n)
      BY <2>1, <3>1, <3>2, OrderKept DEF LogTypes
    <3> QED BY <2>5, <3>1, <3>2, <3>3
  <2> QED BY <2>4, <2>6, <2>7, <2>8
<1>6. CASE ~MaySend(s0, c0, answer)
  <2>1. recorded' = recorded /\ progress' = [progress EXCEPT ![m] = "failed"]
    BY <1>6 DEF EventAnswered
  <2> QED BY <1>1, <1>2, <2>1, FailedStep
<1> QED BY <1>5, <1>6

LEMMA BroadcastStep ==
    ASSUME RoomsVouched, LogTypes, Progressed, AckedInOrder, LogsVouched,
           NEW m \in Messages, Broadcast(m)
    PROVE  LogTypes' /\ Progressed' /\ AckedInOrder' /\ LogsVouched'
<1>1. /\ progress[m] = "recording" /\ About[m] \in CallIds
      /\ progress' = [progress EXCEPT ![m] = "done"]
      /\ UNCHANGED <<recorded, acked, vouched>>
  BY AboutAssumption DEF Broadcast, vars
<1>2. \A s \in Sockets :
         \/ heard'[s] = heard[s]
         \/ s \in rooms[About[m]] /\ heard'[s] = Append(heard[s], m)
  BY DEF Broadcast, HeardBy
<1>3. /\ progress'[m] = "done"
      /\ \A k \in Messages : k # m => progress'[k] = progress[k]
  BY <1>1 DEF LogTypes
<1>4. \A s \in Sockets : m \notin ToSet(heard[s])
  BY <1>1 DEF Progressed
<1>5. ASSUME NEW s \in Sockets
      PROVE  /\ heard'[s] \in Seq(Messages) /\ IsInjective(heard'[s])
             /\ \/ ToSet(heard'[s]) = ToSet(heard[s])
                \/ s \in rooms[About[m]] /\ ToSet(heard'[s]) = ToSet(heard[s]) \cup {m}
  <2>1. heard[s] \in Seq(Messages) /\ IsInjective(heard[s])
    BY DEF LogTypes
  <2>2. CASE heard'[s] = heard[s]
    BY <2>1, <2>2
  <2>3. CASE s \in rooms[About[m]] /\ heard'[s] = Append(heard[s], m)
    BY <1>4, <2>1, <2>3, LogGrows
  <2> QED BY <1>2, <2>2, <2>3
<1>6. heard' \in [Sockets -> Seq(Messages)]
  <2>1. heard' = [s \in Sockets |-> heard'[s]]
    BY DEF Broadcast, HeardBy
  <2> QED BY <1>5, <2>1
<1>7. LogTypes'
  BY <1>1, <1>5, <1>6 DEF LogTypes, Progress
<1>8. m \in ToSet(recorded)
  BY <1>1 DEF Progressed
<1>9. Progressed'
  <2>1. \A k \in Messages :
           /\ k \in ToSet(recorded) => progress'[k] \in {"recording", "done", "failed"}
           /\ progress'[k] \in {"recording", "done"} => k \in ToSet(recorded)
    BY <1>3, <1>8 DEF Progressed
  <2>2. \A s \in Sockets : \A k \in ToSet(heard[s]) :
           progress[k] = "done" /\ k \in ToSet(recorded) /\ k \in Messages
    BY DEF Progressed, LogTypes, ToSet
  <2>3. \A s \in Sockets : \A k \in ToSet(heard'[s]) :
           progress'[k] = "done" /\ k \in ToSet(recorded)
    BY <1>3, <1>5, <1>8, <2>2
  <2> QED BY <1>1, <2>1, <2>3 DEF Progressed, ToSet
<1>10. LogsVouched'
  <2>1. \A s \in rooms[About[m]] : <<About[m], UserOf[s]>> \in vouched
    BY <1>1 DEF RoomsVouched
  <2>2. \A s \in Sockets : \A k \in ToSet(heard[s]) : <<About[k], UserOf[s]>> \in vouched
    BY DEF LogsVouched
  <2>3. ASSUME NEW s \in Sockets, NEW k \in ToSet(heard'[s])
        PROVE  <<About[k], UserOf[s]>> \in vouched
    <3>1. k \in ToSet(heard[s]) \/ (s \in rooms[About[m]] /\ k = m)
      BY <1>5
    <3>2. CASE k \in ToSet(heard[s])
      BY <2>2, <3>2
    <3>3. CASE s \in rooms[About[m]] /\ k = m
      BY <2>1, <3>3
    <3> QED BY <3>1, <3>2, <3>3
  <2> QED BY <1>1, <2>3 DEF LogsVouched, ToSet
<1>11. AckedInOrder'
  <2> SUFFICES ASSUME NEW k \in Messages, NEW n \in Messages, <<k, n>> \in acked
               PROVE  /\ k # n /\ progress'[k] = "done"
                      /\ InOrder(recorded, k, n)
                      /\ \A s \in Sockets : InOrder(heard'[s], k, n)
    BY <1>1 DEF AckedInOrder, InOrder
  <2>1. /\ k # n /\ progress[k] = "done" /\ InOrder(recorded, k, n)
        /\ \A s \in Sockets : InOrder(heard[s], k, n)
    BY DEF AckedInOrder
  <2>2. m # k
    BY <1>1, <2>1
  <2>3. \A s \in Sockets : InOrder(heard'[s], k, n)
    BY <1>2, <2>1, <2>2, OrderKept DEF LogTypes
  <2> QED BY <1>3, <2>1, <2>2, <2>3
<1> QED BY <1>7, <1>9, <1>10, <1>11

-----------------------------------------------------------------------------
(* Invitations *)

LEMMA InviteAnsweredStep ==
    ASSUME VouchedInv, InviteTypes, InvitesVouched,
           NEW i \in Invites, NEW answer, InviteAnswered(i, answer)
    PROVE  /\ InviteTypes' /\ InvitesVouched'
           /\ vouched \subseteq vouched' /\ vouched' \subseteq CallIds \X Users
<1> DEFINE c0 == InviteOf[i].call
           u0 == Head(pending[i])
<1>1. /\ c0 \in CallIds /\ InviteOf[i].socket \in Sockets
      /\ pending[i] \in Seq(Users) /\ pending[i] # <<>>
  BY InviteAssumption DEF InviteAnswered, InviteTypes
<1>2. u0 \in Users /\ Tail(pending[i]) \in Seq(Users)
  BY <1>1
<1>3. vouched' = IF answer = "yes" THEN vouched \cup {<<c0, u0>>} ELSE vouched
  BY DEF InviteAnswered
<1>4. vouched \subseteq vouched' /\ vouched' \subseteq CallIds \X Users
  BY <1>1, <1>2, <1>3 DEF VouchedInv, TypeOK
<1>5. /\ pending' = [pending EXCEPT ![i] = Tail(@)] /\ unsent' = unsent
      /\ \/ /\ answer = "yes" \/ \E s \in registry[Home[InviteOf[i].socket]][c0] : UserOf[s] = u0
            /\ delivered' = [delivered EXCEPT ![i] = Append(@, u0)]
            /\ skipped' = skipped
         \/ /\ delivered' = delivered
            /\ skipped' = [skipped EXCEPT ![i] = Append(@, u0)]
  BY DEF InviteAnswered
<1>6. invited' \in [Sockets -> SUBSET Invites]
  BY DEF InviteAnswered, InviteTypes
<1> HIDE DEF c0, u0
<1>7. InviteTypes'
  <2>1. pending' \in [Invites -> Seq(Users)]
    BY <1>2, <1>5 DEF InviteTypes
  <2>2. ASSUME NEW lists \in [Invites -> Seq(Users)]
        PROVE  [lists EXCEPT ![i] = Append(@, u0)] \in [Invites -> Seq(Users)]
    <3>1. Append(lists[i], u0) \in Seq(Users)
      BY <1>2
    <3> QED BY <3>1
  <2>3. delivered' \in [Invites -> Seq(Users)] /\ skipped' \in [Invites -> Seq(Users)]
    BY <1>5, <2>2 DEF InviteTypes
  <2> QED BY <1>5, <1>6, <2>1, <2>3 DEF InviteTypes
<1>8. InvitesVouched'
  <2>1. CASE delivered' = delivered
    BY <1>4, <2>1 DEF InvitesVouched, ToSet
  <2>2. CASE /\ answer = "yes" \/ \E s \in registry[Home[InviteOf[i].socket]][c0] : UserOf[s] = u0
             /\ delivered' = [delivered EXCEPT ![i] = Append(@, u0)]
    <3>1. <<c0, u0>> \in vouched'
      BY <1>1, <1>3, <2>2, HomeAssumption DEF VouchedInv, MembersVouched
    <3>2. \A k \in Invites : k # i => delivered'[k] = delivered[k]
      BY <2>2 DEF InviteTypes
    <3>3. delivered'[i] = Append(delivered[i], u0) /\ delivered[i] \in Seq(Users)
      BY <2>2 DEF InviteTypes
    <3>4. \A u \in ToSet(delivered'[i]) : u = u0 \/ u \in ToSet(delivered[i])
      BY <1>2, <3>3 DEF ToSet
    <3>5. \A u \in ToSet(delivered'[i]) : <<InviteOf[i].call, u>> \in vouched'
      BY <1>4, <3>1, <3>4 DEF InvitesVouched, c0
    <3>6. \A k \in Invites : k # i =>
             \A u \in ToSet(delivered'[k]) : <<InviteOf[k].call, u>> \in vouched'
      BY <1>4, <3>2 DEF InvitesVouched
    <3> QED BY <3>5, <3>6 DEF InvitesVouched, ToSet
  <2> QED BY <1>5, <2>1, <2>2
<1> QED BY <1>4, <1>7, <1>8

LEMMA InviteQuietStep ==
    ASSUME InviteTypes, InvitesVouched, NEW i \in Invites,
           SendInvite(i) \/ InviteFails(i)
    PROVE  InviteTypes' /\ InvitesVouched'
<1>1. InviteOf[i].to \in Seq(Users) /\ <<>> \in Seq(Users)
  BY InviteAssumption
<1>2. UNCHANGED <<delivered, skipped, invited, vouched>> /\ unsent' \subseteq unsent
  BY DEF SendInvite, InviteFails, vars
<1>3. pending' \in [Invites -> Seq(Users)]
  BY <1>1 DEF SendInvite, InviteFails, InviteTypes
<1>4. InvitesVouched'
  BY <1>2 DEF InvitesVouched, ToSet
<1> QED BY <1>2, <1>3, <1>4 DEF InviteTypes

-----------------------------------------------------------------------------
(* Every step keeps the invariant *)

Logs == LogTypes /\ Progressed /\ AckedInOrder /\ LogsVouched
Invitations == InviteTypes /\ InvitesVouched

LEMMA EventsParts ==
    EventsInv <=> TypeOK /\ VouchedInv /\ RoomsVouched /\ Logs /\ Invitations
  BY EventsTypes, Actors DEF EventsInv, Logs, Invitations

LEMMA EventsStep ==
    ASSUME EventsInv, [EventsNext]_allVars
    PROVE  EventsInv'
<1>1. TypeOK /\ VouchedInv /\ RoomsVouched /\ Logs /\ Invitations
  BY EventsParts
<1>2. SUFFICES TypeOK' /\ VouchedInv' /\ RoomsVouched' /\ Logs' /\ Invitations'
  <2>1. LogTypes' /\ InviteTypes' /\ TypeOK' => EventsTypeOK'
    BY DEF EventsTypeOK, LogTypes, InviteTypes
  <2>2. LogsVouched' /\ InvitesVouched' => ActorsVouched'
    BY DEF ActorsVouched, LogsVouched, InvitesVouched
  <2> QED BY <2>1, <2>2 DEF EventsInv, Logs, Invitations
<1>3. ASSUME UNCHANGED vars
      PROVE  /\ TypeOK' /\ VouchedInv' /\ RoomsVouched'
             /\ vouched \subseteq vouched'
  <2>1. TypeOK' /\ VouchedInv'
    BY <1>1, <1>3, TypeStep, VouchedStep
  <2> QED BY <1>1, <1>3, <2>1 DEF vars, RoomsVouched
<1>4. ASSUME vouched \subseteq vouched', UNCHANGED eventVars PROVE Logs'
  BY <1>1, <1>4, LogsStay, VouchersStay DEF Logs
<1>5. ASSUME vouched \subseteq vouched', UNCHANGED inviteVars PROVE Invitations'
  BY <1>1, <1>5, InvitesStay, VouchersStay DEF Invitations
<1>6. CASE [Next]_vars /\ UNCHANGED <<eventVars, inviteVars>>
  <2>1. TypeOK' /\ VouchedInv'
    BY <1>1, <1>6, TypeStep, VouchedStep
  <2>2. vouched \subseteq vouched' /\ RoomsVouched'
    BY <1>1, <1>6, RoomsStayVouched
  <2> QED BY <1>4, <1>5, <1>6, <2>1, <2>2
<1>7. ASSUME NEW m \in Messages, SendEvent(m)
      PROVE  TypeOK' /\ VouchedInv' /\ RoomsVouched' /\ Logs' /\ Invitations'
  <2>1. UNCHANGED vars /\ UNCHANGED inviteVars
    BY <1>7 DEF SendEvent
  <2>2. Logs'
    BY <1>1, <1>7, SendEventStep DEF Logs
  <2> QED BY <1>3, <1>5, <2>1, <2>2
<1>8. ASSUME NEW m \in Messages, NEW answer \in {"yes", "no"}, EventAnswered(m, answer)
      PROVE  TypeOK' /\ VouchedInv' /\ RoomsVouched' /\ Logs' /\ Invitations'
  <2>1. /\ UNCHANGED <<fresh, live, registry, rooms, joins, knows, abandoned>>
        /\ UNCHANGED inviteVars
    BY <1>8 DEF EventAnswered, inviteVars
  <2>2. vouched \subseteq vouched' /\ vouched' \subseteq CallIds \X Users
    <3>1. vouched' = IF answer = "yes" THEN vouched \cup {<<About[m], UserOf[Sender[m]]>>}
                     ELSE vouched
      BY <1>8 DEF EventAnswered, Vouch
    <3>2. <<About[m], UserOf[Sender[m]]>> \in CallIds \X Users
      BY AboutAssumption, SenderAssumption, UserOfAssumption
    <3> QED BY <1>1, <3>1, <3>2 DEF TypeOK
  <2>3. TypeOK' /\ VouchedInv' /\ RoomsVouched'
    BY <1>1, <2>1, <2>2, AnswerKeepsRooms
  <2>4. Logs'
    BY <1>1, <1>8, EventAnsweredStep DEF Logs
  <2> QED BY <1>5, <2>1, <2>2, <2>3, <2>4
<1>9. ASSUME NEW m \in Messages, Broadcast(m)
      PROVE  TypeOK' /\ VouchedInv' /\ RoomsVouched' /\ Logs' /\ Invitations'
  <2>1. UNCHANGED vars /\ UNCHANGED inviteVars
    BY <1>9 DEF Broadcast
  <2>2. Logs'
    BY <1>1, <1>9, BroadcastStep DEF Logs
  <2> QED BY <1>3, <1>5, <2>1, <2>2
<1>10. ASSUME NEW m \in Messages, EventFails(m)
       PROVE  TypeOK' /\ VouchedInv' /\ RoomsVouched' /\ Logs' /\ Invitations'
  <2>1. UNCHANGED vars /\ UNCHANGED inviteVars
    BY <1>10 DEF EventFails
  <2>2. /\ progress[m] \in {"asked", "recording"}
        /\ progress' = [progress EXCEPT ![m] = "failed"]
        /\ UNCHANGED <<recorded, heard, acked>>
    BY <1>10 DEF EventFails
  <2>3. Logs'
    BY <1>1, <1>3, <2>1, <2>2, FailedStep DEF Logs
  <2> QED BY <1>3, <1>5, <2>1, <2>3
<1>11. ASSUME NEW i \in Invites, NEW answer \in {"yes", "no"}, InviteAnswered(i, answer)
       PROVE  TypeOK' /\ VouchedInv' /\ RoomsVouched' /\ Logs' /\ Invitations'
  <2>1. /\ UNCHANGED <<fresh, live, registry, rooms, joins, knows, abandoned>>
        /\ UNCHANGED eventVars
    BY <1>11 DEF InviteAnswered, eventVars
  <2>2. /\ Invitations'
        /\ vouched \subseteq vouched' /\ vouched' \subseteq CallIds \X Users
    BY <1>1, <1>11, InviteAnsweredStep DEF Invitations
  <2>3. TypeOK' /\ VouchedInv' /\ RoomsVouched'
    BY <1>1, <2>1, <2>2, AnswerKeepsRooms
  <2> QED BY <1>4, <2>1, <2>2, <2>3
<1>12. ASSUME NEW i \in Invites, SendInvite(i) \/ InviteFails(i)
       PROVE  TypeOK' /\ VouchedInv' /\ RoomsVouched' /\ Logs' /\ Invitations'
  <2>1. UNCHANGED vars /\ UNCHANGED eventVars
    BY <1>12 DEF SendInvite, InviteFails
  <2>2. Invitations'
    BY <1>1, <1>12, InviteQuietStep DEF Invitations
  <2> QED BY <1>3, <1>4, <2>1, <2>2
<1>13. CASE UNCHANGED allVars
  BY <1>6, <1>13 DEF allVars
<1> QED
  BY <1>6, <1>7, <1>8, <1>9, <1>10, <1>11, <1>12, <1>13 DEF EventsNext, EventStep, InviteStep

LEMMA EventsInitially == EventsInit => EventsInv
<1> SUFFICES ASSUME EventsInit PROVE EventsInv
  OBVIOUS
<1>1. Init
  BY DEF EventsInit
<1>2. TypeOK /\ VouchedInv /\ RoomsVouched
  BY <1>1 DEF Init, TypeOK, VouchedInv, MembersVouched, RoomsVouched
<1>3. ToSet(<<>>) = {} /\ IsInjective(<<>>) /\ \A m, n : InOrder(<<>>, m, n)
  BY DEF ToSet, IsInjective, InOrder
<1>4. Logs
  BY <1>3 DEF EventsInit, Logs, LogTypes, Progress, Progressed, AckedInOrder, LogsVouched
<1>5. Invitations
  BY <1>3 DEF EventsInit, Invitations, InviteTypes, InvitesVouched
<1> QED BY <1>2, <1>4, <1>5, EventsParts

LEMMA EventsAlways == EventsSpec => []EventsInv
<1>1. EventsInit => EventsInv
  BY EventsInitially
<1>2. EventsInv /\ [EventsNext]_allVars => EventsInv'
  BY EventsStep
<1> QED
  BY <1>1, <1>2, PTL DEF EventsSpec

-----------------------------------------------------------------------------

\* The state of the events keeps its shape; no message is recorded or heard
\* twice.
THEOREM EventsTypeCorrect == EventsSpec => []EventsTypeOK
<1>1. EventsInv => EventsTypeOK
  BY DEF EventsInv
<1> QED
  BY <1>1, EventsAlways, PTL

\* Whatever a client hears of a call was given to the call service before,
\* whichever promise fails on the way.
THEOREM HeardAfterRecorded == EventsSpec => []HeardWasRecorded
<1>1. EventsInv => HeardWasRecorded
  BY DEF EventsInv, Progressed, HeardWasRecorded
<1> QED
  BY <1>1, EventsAlways, PTL

\* Nobody records, hears or is invited to a call whom the bus has never vouched
\* for in that call, although the registry is a second authority.
THEOREM OnlyVouchedAct == EventsSpec => []ActorsVouched
<1>1. EventsInv => ActorsVouched
  BY DEF EventsInv
<1> QED
  BY <1>1, EventsAlways, PTL

\* An event sent after the acknowledgement of another comes after it in every
\* log, although the bus answers the two independently.
THEOREM AcknowledgedFirst == EventsSpec => []AcknowledgedOrder
<1>1. EventsInv => AcknowledgedOrder
  BY DEF EventsInv, AckedInOrder, InOrder, AcknowledgedOrder
<1> QED
  BY <1>1, EventsAlways, PTL

-----------------------------------------------------------------------------
(* What the gateway keeps true of its rooms it keeps while it passes on events *)

\* Besides the steps of Signaling the rooms only meet answers of the bus.
Asked ==
    /\ UNCHANGED <<fresh, live, registry, rooms, joins, knows, abandoned>>
    /\ UNCHANGED vouched \/ \E c \in CallIds, u \in Users : vouched' = vouched \cup {<<c, u>>}

LEMMA RoomsStepOrAsked ==
    ASSUME EventsInv, [EventsNext]_allVars
    PROVE  [Next]_vars \/ Asked
<1>1. ASSUME NEW m \in Messages, NEW answer \in {"yes", "no"}, EventAnswered(m, answer)
      PROVE  Asked
  <2>1. vouched' = IF answer = "yes" THEN vouched \cup {<<About[m], UserOf[Sender[m]]>>}
                   ELSE vouched
    BY <1>1 DEF EventAnswered, Vouch
  <2>2. About[m] \in CallIds /\ UserOf[Sender[m]] \in Users
    BY AboutAssumption, SenderAssumption, UserOfAssumption
  <2> QED BY <1>1, <2>1, <2>2 DEF EventAnswered, Asked
<1>2. ASSUME NEW i \in Invites, NEW answer \in {"yes", "no"}, InviteAnswered(i, answer)
      PROVE  Asked
  <2>1. vouched' = IF answer = "yes" THEN vouched \cup {<<InviteOf[i].call, Head(pending[i])>>}
                   ELSE vouched
    BY <1>2 DEF InviteAnswered
  <2>2. InviteOf[i].call \in CallIds
    BY InviteAssumption
  <2>3. Head(pending[i]) \in Users
    <3>1. pending[i] \in Seq(Users) /\ pending[i] # <<>>
      BY <1>2, EventsParts DEF InviteAnswered, Invitations, InviteTypes
    <3> QED BY <3>1
  <2> QED BY <1>2, <2>1, <2>2, <2>3 DEF InviteAnswered, Asked
<1>3. ASSUME NEW m \in Messages, SendEvent(m) \/ Broadcast(m) \/ EventFails(m)
      PROVE  UNCHANGED vars
  BY <1>3 DEF SendEvent, Broadcast, EventFails
<1>4. ASSUME NEW i \in Invites, SendInvite(i) \/ InviteFails(i) PROVE UNCHANGED vars
  BY <1>4 DEF SendInvite, InviteFails
<1>5. CASE UNCHANGED allVars
  BY <1>5 DEF allVars
<1> QED
  BY <1>1, <1>2, <1>3, <1>4, <1>5 DEF EventsNext, EventStep, InviteStep

\* An answer of the bus changes nothing these invariants speak of.
LEMMA AskedKeeps ==
    ASSUME Asked
    PROVE  /\ TypeOK' /\ Base => Base'
           /\ TypeOK' /\ GhostInv => GhostInv'
           /\ TypeOK' /\ PeersInv => PeersInv'
           /\ TypeOK' /\ KnownInv => KnownInv'
           /\ SinglesAgree => SinglesAgree'
<1>1. \A c \in CallIds : Registered(c)' = Registered(c)
  BY DEF Asked, Registered
<1>2. (Placed => Placed') /\ (Unused => Unused') /\ (OwnCalls => OwnCalls')
  BY <1>1 DEF Asked, Placed, Unused, OwnCalls
<1>3. TypeOK' /\ Base => Base'
  BY <1>2 DEF Base
<1>4. OnlyAbandonedGhosts => OnlyAbandonedGhosts'
  BY <1>1 DEF Asked, OnlyAbandonedGhosts
<1>5. \A s \in Sockets, c \in CallIds : Settled(s, c)' <=> Settled(s, c)
  BY <1>1 DEF Asked, Settled
<1>6. PeersMeet => PeersMeet'
  BY <1>5 DEF Asked, PeersMeet
<1>7. SinglesKnown => SinglesKnown'
  BY <1>1 DEF Asked, SinglesKnown
<1>8. TypeOK' /\ GhostInv => GhostInv'
  BY <1>2, <1>4 DEF Asked, GhostInv
<1>9. TypeOK' /\ PeersInv => PeersInv'
  BY <1>1, <1>3, <1>6 DEF Asked, PeersInv
<1>10. TypeOK' /\ KnownInv => KnownInv'
  <2> SUFFICES ASSUME TypeOK', KnownInv PROVE KnownInv'
    OBVIOUS
  <2>1. \A j \in joins : j.call \in CallIds
    BY DEF KnownInv, Base, TypeOK, Join
  <2> QED BY <1>1, <1>3, <1>7, <2>1 DEF Asked, KnownInv
<1>11. SinglesAgree => SinglesAgree'
  BY <1>1 DEF Asked, SinglesAgree
<1> QED
  BY <1>3, <1>8, <1>9, <1>10, <1>11

\* Between them events and invitations leave peers, rooms and registries as
\* peer:join and peer:leave made them.
THEOREM RoomsUndisturbed ==
    EventsSpec => [](MembersVouched /\ OnlyAbandonedGhosts /\ PeersMeet)
<1> DEFINE Inv == EventsInv /\ GhostInv /\ PeersInv
<1>1. EventsInit => Inv
  <2> SUFFICES ASSUME EventsInit PROVE EventsInv /\ GhostInv /\ PeersInv
    OBVIOUS
  <2>1. Init
    BY DEF EventsInit
  <2> QED BY <2>1, EventsInitially, GhostInitially, PeersInitially
<1>2. Inv /\ [EventsNext]_allVars => Inv'
  <2> SUFFICES ASSUME EventsInv, GhostInv, PeersInv, [EventsNext]_allVars
               PROVE  EventsInv' /\ GhostInv' /\ PeersInv'
    OBVIOUS
  <2>1. EventsInv'
    BY EventsStep
  <2>2. TypeOK'
    BY <2>1 DEF EventsInv, EventsTypeOK
  <2> QED BY <2>1, <2>2, RoomsStepOrAsked, AskedKeeps, GhostStep, PeersStep
<1>3. Inv => MembersVouched /\ OnlyAbandonedGhosts /\ PeersMeet
  BY DEF EventsInv, VouchedInv, GhostInv, PeersInv
<1> QED
  BY <1>1, <1>2, <1>3, PTL DEF EventsSpec

\* The invariants of the rooms and of the mesh are kept together.
LEMMA MeshInvUndisturbed ==
    ASSUME EventsInv, MeshInv, [EventsNext]_allVars
    PROVE  EventsInv' /\ MeshInv'
<1>1. EventsInv' /\ TypeOK' /\ VouchedInv'
  BY EventsStep DEF EventsInv, EventsTypeOK
<1>2. CASE [Next]_vars
  BY <1>1, <1>2, MeshKept
<1>3. CASE Asked
  BY <1>1, <1>3, AskedKeeps DEF MeshInv
<1> QED BY <1>2, <1>3, RoomsStepOrAsked

LEMMA EventsMeshInitially == EventsInit => EventsInv /\ MeshInv /\ Mesh!Init
<1> SUFFICES ASSUME EventsInit PROVE EventsInv /\ MeshInv /\ Mesh!Init
  OBVIOUS
<1>1. Init
  BY DEF EventsInit
<1> QED BY <1>1, EventsInitially, MeshInitially, MeshInit

\* Sockets that keep to one call are in their room exactly when registered, and
\* no client knows one that no process has registered, with events and invitations
\* in between.
THEOREM SinglesUndisturbed == EventsSpec => [](SinglesAgree /\ SinglesKnown)
<1> DEFINE Inv == EventsInv /\ MeshInv
<1>1. EventsInit => Inv
  BY EventsMeshInitially
<1>2. Inv /\ [EventsNext]_allVars => Inv'
  BY MeshInvUndisturbed
<1>3. Inv => SinglesAgree /\ SinglesKnown
  BY DEF MeshInv, KnownInv
<1> QED
  BY <1>1, <1>2, <1>3, PTL DEF EventsSpec

\* Among the sockets that keep to one call the gateway still does what PeerMesh
\* promises, of disconnections too: what the bus says of senders and invitees lets
\* more users in, and nothing else of the mesh depends on it.
THEOREM EventsImplementMesh == EventsSpec => ImplementsMesh
<1> DEFINE Inv == EventsInv /\ MeshInv
<1>1. EventsInit => Inv /\ Mesh!Init
  BY EventsMeshInitially
<1>2. Inv /\ [EventsNext]_allVars => Inv' /\ [Mesh!Next]_Mesh!meshVars
  <2> SUFFICES ASSUME EventsInv, MeshInv, [EventsNext]_allVars
               PROVE  EventsInv' /\ MeshInv' /\ (Mesh!Next \/ UNCHANGED Mesh!meshVars)
    OBVIOUS
  <2>1. EventsInv' /\ MeshInv'
    BY MeshInvUndisturbed
  <2>2. CASE [Next]_vars
    BY <2>1, <2>2, MeshStep
  <2>3. CASE Asked
    <3>1. Mesh!Next \/ UNCHANGED Mesh!meshVars
      BY <2>3, MeshQuiet DEF Asked
    <3> QED BY <2>1, <3>1
  <2> QED BY <2>2, <2>3, RoomsStepOrAsked
<1> QED
  BY <1>1, <1>2, PTL DEF EventsSpec, ImplementsMesh, Mesh!Spec
=============================================================================
