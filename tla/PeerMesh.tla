------------------------------- MODULE PeerMesh -------------------------------
(***************************************************************************)
(* What the signaling gateway promises the clients of a call, without      *)
(* handlers, registries, rooms or messages.  A client that is connected    *)
(* enters a call at one moment, is seen by all the connected peers of the  *)
(* call, and sees all those who are there on its own server process (and,  *)
(* on other processes, some or none of them).  When it leaves a call, or   *)
(* closes, it is out of it at one moment and nobody sees it any more.      *)
(*                                                                         *)
(* The promise has a gap: a client that closed may still enter, when it    *)
(* was waiting to be admitted.  Such a ghost sees nobody, but is seen like *)
(* any other peer, and never leaves.                                       *)
(***************************************************************************)
CONSTANTS Sockets, Users, CallIds, UserOf, Home

VARIABLES
    present,     \* the peers of each call
    sees,        \* the peers each client sees in each call
    vouched,     \* <<c, u>>: the user u may enter the call c
    gone         \* the clients that have closed

meshVars == <<present, sees, vouched, gone>>

Init ==
    /\ present = [c \in CallIds |-> {}]
    /\ sees = [s \in Sockets |-> [c \in CallIds |-> {}]]
    /\ vouched = {}
    /\ gone = {}

Vouch(c, u) ==
    /\ vouched' = vouched \cup {<<c, u>>}
    /\ UNCHANGED <<present, sees, gone>>

\* The peers of c on the process of s.
Near(s, c) == {t \in present[c] : Home[t] = Home[s]}

\* s comes into view of c's connected peers, and itself sees the peers in met.
Arrive(s, c, met) ==
    /\ <<c, UserOf[s]>> \in vouched
    /\ present' = [present EXCEPT ![c] = @ \cup {s}]
    /\ sees' = [t \in Sockets |->
                   [sees[t] EXCEPT ![c] =
                       @ \cup (IF t = s THEN met
                               ELSE IF t \in present[c] \ gone THEN {s}
                               ELSE {})]]
    /\ UNCHANGED <<vouched, gone>>

\* The newcomer sees its process's peers, and of the others those whose own
\* entering was still being announced.  A peer that is there may enter again.
Enter(s, c) ==
    /\ s \notin gone
    /\ \E met \in SUBSET (present[c] \ {s}) :
          Near(s, c) \ {s} \subseteq met /\ Arrive(s, c, met)

\* The gap: a client that closed enters, and nothing will take it out again.
EnterGone(s, c) == s \in gone /\ Arrive(s, c, {})

Leave(s, c) ==
    /\ s \in present[c] \ gone
    /\ present' = [present EXCEPT ![c] = @ \ {s}]
    /\ sees' = [t \in Sockets |->
                   [sees[t] EXCEPT ![c] = IF t = s THEN {} ELSE @ \ {s}]]
    /\ UNCHANGED <<vouched, gone>>

\* The client closes: it is out of every call, and out of everybody's sight.
Close(s) ==
    /\ s \notin gone
    /\ gone' = gone \cup {s}
    /\ present' = [c \in CallIds |-> present[c] \ {s}]
    /\ sees' = [t \in Sockets |-> [c \in CallIds |->
                   IF t = s THEN {} ELSE sees[t][c] \ {s}]]
    /\ UNCHANGED vouched

Next ==
    \/ \E c \in CallIds, u \in Users : Vouch(c, u)
    \/ \E s \in Sockets :
          \/ Close(s)
          \/ \E c \in CallIds : Enter(s, c) \/ EnterGone(s, c) \/ Leave(s, c)

Spec == Init /\ [][Next]_meshVars
=============================================================================
