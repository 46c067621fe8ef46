------------------------------ MODULE CallEvents ------------------------------
(***************************************************************************)
(* Call events and invitations, sent through the signaling gateway to the  *)
(* rooms of module Signaling.                                              *)
(*   src/signaling/signaling.gateway.ts   handleCallRinging, ..Accept,     *)
(*                                        ..Reject, ..Cancel, ..End, all   *)
(*                                        by handleCallEvent;              *)
(*                                        handleCallInvite, emitCallInvite *)
(*                                                                         *)
(* handleCallEvent asks the bus who the sender is, has the bus record the  *)
(* event and broadcasts it: it waits twice, and the bus may take its time. *)
(* An answer and the step it resumes are one action: nobody sees a promise *)
(* settle before its handler goes on.  The kinds of event are not told     *)
(* apart, the gateway treats them alike.                                   *)
(*                                                                         *)
(* "wrong" marks definitions no action uses, as in Signaling.              *)
(***************************************************************************)
EXTENDS Signaling, SequencesExt

CONSTANTS
    Messages,    \* call events the clients send, each once
    Sender,      \* the socket a message comes from
    About,       \* the call it names
    Invites,     \* invitations the clients send, each once
    InviteOf     \* their senders' sockets, calls and invitees in order

VARIABLES
    progress,    \* how far handleCallEvent is with a message
    recorded,    \* messages given to onCallEvent, in order
    heard,       \* call:event as each client got them
    acked,       \* history: <<m, n>>, m was acknowledged when n was sent
    unsent,      \* invitations still to come
    pending,     \* invitees emitCallInvite has still to deal with
    delivered,   \* what emitCallInvite reports as delivered ...
    skipped,     \* ... and as skipped
    invited      \* invitations each client got

eventVars == <<progress, recorded, heard, acked>>
inviteVars == <<unsent, pending, delivered, skipped, invited>>
allVars == <<vars, eventVars, inviteVars>>

ASSUME SenderAssumption == Sender \in [Messages -> Sockets]
ASSUME AboutAssumption == About \in [Messages -> CallIds]
ASSUME InviteAssumption ==
    InviteOf \in [Invites -> [socket : Sockets, call : CallIds, to : Seq(Users)]]

\* "asked": waiting for isParticipant.  "recording": waiting for onCallEvent.
\* "done": broadcast and acknowledged.  "failed": ended with an error.
Progress == {"unsent", "asked", "recording", "done", "failed"}

-----------------------------------------------------------------------------
(* Call events *)

\* What the bus says of a user is remembered.
Vouch(s, c, answer) ==
    vouched' = IF answer = "yes" THEN vouched \cup {<<c, UserOf[s]>>} ELSE vouched

\* The bus vouches for the sender, or its user has a socket in the room.
AnyoneMaySend(s, c, answer) == answer = "yes" \/ Members(s, c) # {}    \* wrong
MaySend(s, c, answer) == answer = "yes" \/ InRoom(s, c)

\* call:event reaches the room, the sender included.
HeardBy(m) ==
    [s \in Sockets |->
        IF s \in rooms[About[m]] \cap live THEN Append(heard[s], m) ELSE heard[s]]

\* The acknowledgement is the handler's return value.
FireAndForget(m) == progress[m] \in {"recording", "done"}               \* wrong
Acknowledged(m) == progress[m] = "done"

SendEvent(m) ==
    /\ Sender[m] \in live
    /\ progress[m] = "unsent"
    /\ progress' = [progress EXCEPT ![m] = "asked"]
    /\ acked' = acked \cup {<<n, m>> : n \in {k \in Messages :
                                Acknowledged(k) /\ Sender[k] = Sender[m]}}
    /\ UNCHANGED <<vars, inviteVars, recorded, heard>>

\* The bus has answered: the event is given to onCallEvent, or refused.
EventAnsweredAndSent(m, answer) ==                                     \* wrong
    LET s == Sender[m]
        c == About[m]
    IN  /\ progress[m] = "asked"
        /\ Vouch(s, c, answer)
        /\ IF MaySend(s, c, answer)
           THEN /\ heard' = HeardBy(m)
                /\ progress' = [progress EXCEPT ![m] = "recording"]
           ELSE /\ progress' = [progress EXCEPT ![m] = "failed"]
                /\ UNCHANGED heard
        /\ UNCHANGED <<fresh, live, registry, rooms, joins, knows, abandoned,
                       inviteVars, recorded, acked>>
EventAnswered(m, answer) ==
    LET s == Sender[m]
        c == About[m]
    IN  /\ progress[m] = "asked"
        /\ Vouch(s, c, answer)
        /\ IF MaySend(s, c, answer)
           THEN /\ recorded' = Append(recorded, m)
                /\ progress' = [progress EXCEPT ![m] = "recording"]
           ELSE /\ progress' = [progress EXCEPT ![m] = "failed"]
                /\ UNCHANGED recorded
        /\ UNCHANGED <<fresh, live, registry, rooms, joins, knows, abandoned,
                       inviteVars, heard, acked>>

\* onCallEvent has returned: the broadcast and the acknowledgement.
BroadcastAgain(m) ==                                                   \* wrong
    /\ progress[m] = "recording"
    /\ heard' = HeardBy(m)
    /\ UNCHANGED <<vars, inviteVars, progress, recorded, acked>>
Broadcast(m) ==
    /\ progress[m] = "recording"
    /\ heard' = HeardBy(m)
    /\ progress' = [progress EXCEPT ![m] = "done"]
    /\ UNCHANGED <<vars, inviteVars, recorded, acked>>

\* One of the two promises is rejected: the sender gets an error.
EventFails(m) ==
    /\ progress[m] \in {"asked", "recording"}
    /\ progress' = [progress EXCEPT ![m] = "failed"]
    /\ UNCHANGED <<vars, inviteVars, recorded, heard, acked>>

-----------------------------------------------------------------------------
(* Invitations *)

\* Sockets in the room user:<id>, where invitations go.  socket.io makes a
\* room when a socket joins it; the only joins in the server are for calls.
UserRoom(u) == {}

SendInvite(i) ==
    LET invite == InviteOf[i]
    IN  /\ invite.socket \in live
        /\ i \in unsent
        /\ unsent' = unsent \ {i}
        /\ pending' = [pending EXCEPT ![i] = invite.to]
        /\ UNCHANGED <<vars, eventVars, delivered, skipped, invited>>

\* One turn of emitCallInvite's loop, when the bus has answered.
InviteAnswered(i, answer) ==
    LET c == InviteOf[i].call
        u == Head(pending[i])
        member == \E s \in registry[Home[InviteOf[i].socket]][c] : UserOf[s] = u
    IN  /\ pending[i] # <<>>
        /\ pending' = [pending EXCEPT ![i] = Tail(@)]
        /\ vouched' = IF answer = "yes" THEN vouched \cup {<<c, u>>} ELSE vouched
        /\ IF answer = "yes" \/ member
           THEN /\ delivered' = [delivered EXCEPT ![i] = Append(@, u)]
                /\ invited' = [s \in Sockets |->
                                  IF s \in UserRoom(u) \cap live
                                  THEN invited[s] \cup {i} ELSE invited[s]]
                /\ UNCHANGED skipped
           ELSE /\ skipped' = [skipped EXCEPT ![i] = Append(@, u)]
                /\ UNCHANGED <<delivered, invited>>
        /\ UNCHANGED <<fresh, live, registry, rooms, joins, knows, abandoned,
                       eventVars, unsent>>

\* The bus fails: the loop ends, the invitees before stay invited.
InviteFails(i) ==
    /\ pending[i] # <<>>
    /\ pending' = [pending EXCEPT ![i] = <<>>]
    /\ UNCHANGED <<vars, eventVars, unsent, delivered, skipped, invited>>
-----------------------------------------------------------------------------
EventsInit ==
    /\ Init
    /\ progress = [m \in Messages |-> "unsent"]
    /\ recorded = <<>>
    /\ heard = [s \in Sockets |-> <<>>]
    /\ acked = {}
    /\ unsent = Invites
    /\ pending = [i \in Invites |-> <<>>]
    /\ delivered = [i \in Invites |-> <<>>]
    /\ skipped = [i \in Invites |-> <<>>]
    /\ invited = [s \in Sockets |-> {}]

EventStep(m) ==
    \/ SendEvent(m)
    \/ \E answer \in {"yes", "no"} : EventAnswered(m, answer)
    \/ Broadcast(m)
    \/ EventFails(m)

InviteStep(i) ==
    \/ SendInvite(i)
    \/ \E answer \in {"yes", "no"} : InviteAnswered(i, answer)
    \/ InviteFails(i)

EventsNext ==
    \/ Next /\ UNCHANGED <<eventVars, inviteVars>>
    \/ \E m \in Messages : EventStep(m)
    \/ \E i \in Invites : InviteStep(i)

EventsSpec == EventsInit /\ [][EventsNext]_allVars

-----------------------------------------------------------------------------
(* Properties *)

\* The shape of the state; a message is recorded and heard at most once.
EventsTypeOK ==
    /\ TypeOK
    /\ progress \in [Messages -> Progress]
    /\ recorded \in Seq(Messages) /\ IsInjective(recorded)
    /\ heard \in [Sockets -> Seq(Messages)]
    /\ \A s \in Sockets : IsInjective(heard[s])
    /\ acked \subseteq Messages \X Messages
    /\ unsent \subseteq Invites
    /\ \A lists \in {pending, delivered, skipped} : lists \in [Invites -> Seq(Users)]
    /\ invited \in [Sockets -> SUBSET Invites]

\* Nobody acts on an event the call service was not told of: what a client
\* hears was given to the bus before, whatever fails on the way.
HeardWasRecorded ==
    \A s \in Sockets : ToSet(heard[s]) \subseteq ToSet(recorded)

\* The call service is never told of, no invitation is reported as delivered
\* to, and no event of a call is heard by a user the bus has not vouched for
\* in that very call, although the registry is asked instead of the bus when
\* the bus says no.
ActorsVouched ==
    /\ \A m \in ToSet(recorded) : <<About[m], UserOf[Sender[m]]>> \in vouched
    /\ \A i \in Invites : \A u \in ToSet(delivered[i]) :
          <<InviteOf[i].call, u>> \in vouched
    /\ \A s \in Sockets : \A m \in ToSet(heard[s]) :
          <<About[m], UserOf[s]>> \in vouched

\* A client that waits for the acknowledgement of one event before it sends
\* the next has them recorded and heard in that order by everybody, although
\* the bus answers the two independently.
AcknowledgedOrder ==
    \A m, n \in Messages : <<m, n>> \in acked =>
        \A log \in {recorded} \cup {heard[s] : s \in Sockets} :
            \A a, b \in DOMAIN log : log[a] = m /\ log[b] = n => a < b

\* When emitCallInvite reports an invitee as delivered to and they have a
\* connected socket, one of their sockets gets the invitation.
DeliveredIsInvited ==
    [][\A i \in Invites, u \in Users :
          /\ Len(delivered'[i]) > Len(delivered[i])
          /\ Last(delivered'[i]) = u
          /\ \E s \in live : UserOf[s] = u
          => \E s \in live : UserOf[s] = u /\ i \in invited'[s]]_allVars
=============================================================================
