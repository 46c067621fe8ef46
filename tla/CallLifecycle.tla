---------------------------- MODULE CallLifecycle ----------------------------
(***************************************************************************)
(* What the call service promises, without its maps, statuses per          *)
(* participant or journal: a call opens under a free room code with its    *)
(* creator present, becomes active as soon as somebody enters, never       *)
(* forgets a member, and closes once, for good, taking every code that     *)
(* leads to it out of the directory.                                       *)
(***************************************************************************)
CONSTANTS CallIds, Codes, Users, None

VARIABLES
    phase,      \* how far each call is in its life
    roster,     \* everybody who was ever invited to or entered the call
    present,    \* who entered and has not left
    directory   \* which call a room code leads to

vars == <<phase, roster, present, directory>>

Phase == {"none", "pending", "active", "ended"}

Open == {"pending", "active"}

TypeOK ==
    /\ phase \in [CallIds -> Phase]
    /\ roster \in [CallIds -> SUBSET Users]
    /\ present \in [CallIds -> SUBSET Users]
    /\ directory \in [Codes -> CallIds \cup {None}]

Init ==
    /\ phase = [c \in CallIds |-> "none"]
    /\ roster = [c \in CallIds |-> {}]
    /\ present = [c \in CallIds |-> {}]
    /\ directory = [code \in Codes |-> None]

OpenCall(c, creator, invited, code) ==
    /\ phase[c] = "none"
    /\ directory[code] = None
    /\ phase' = [phase EXCEPT ![c] = "pending"]
    /\ roster' = [roster EXCEPT ![c] = invited \cup {creator}]
    /\ present' = [present EXCEPT ![c] = {creator}]
    /\ directory' = [directory EXCEPT ![code] = c]

Admit(c, u) ==
    /\ phase[c] \in Open
    /\ roster' = [roster EXCEPT ![c] = @ \cup {u}]
    /\ UNCHANGED <<phase, present, directory>>

Enter(c, u) ==
    /\ phase[c] \in Open
    /\ phase' = [phase EXCEPT ![c] = "active"]
    /\ roster' = [roster EXCEPT ![c] = @ \cup {u}]
    /\ present' = [present EXCEPT ![c] = @ \cup {u}]
    /\ UNCHANGED directory

Depart(c, u) ==
    /\ u \in present[c]
    /\ present' = [present EXCEPT ![c] = @ \ {u}]
    /\ UNCHANGED <<phase, roster, directory>>

Close(c, u) ==
    /\ phase[c] \in Open
    /\ u \in roster[c]
    /\ phase' = [phase EXCEPT ![c] = "ended"]
    /\ directory' = [code \in Codes |->
                        IF directory[code] = c THEN None ELSE directory[code]]
    /\ UNCHANGED <<roster, present>>

Next ==
    \E c \in CallIds, u \in Users :
        \/ \E invited \in SUBSET Users, code \in Codes : OpenCall(c, u, invited, code)
        \/ Admit(c, u)
        \/ Enter(c, u)
        \/ Depart(c, u)
        \/ Close(c, u)

Spec == Init /\ [][Next]_vars
=============================================================================
