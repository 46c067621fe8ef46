------------------------------- MODULE Presence -------------------------------
(***************************************************************************)
(* What PresenceService (src/presence/presence.service.ts) promises its    *)
(* callers: buckets of sockets, one per user (markOnline, markOffline) and *)
(* one per call (trackCall, untrackCall), each with one time-out, set anew *)
(* by every mark.  Implemented by InMemoryPresence and by RedisPresence.   *)
(***************************************************************************)
EXTENDS Naturals

CONSTANTS
    Keys,        \* users and calls
    Sockets,
    Ttls,        \* time-outs callers ask for
    MaxTime      \* bound: the last moment of the model

VARIABLES
    now,
    bucket,      \* who is present
    until        \* when a bucket may be emptied; 0 if it is empty

presenceVars == <<now, bucket, until>>

TypeOK ==
    /\ now \in 0..MaxTime
    /\ bucket \in [Keys -> SUBSET Sockets]
    /\ until \in [Keys -> Nat]

Init ==
    /\ now = 0
    /\ bucket = [k \in Keys |-> {}]
    /\ until = [k \in Keys |-> 0]

Mark(k, s, ttl) ==
    /\ bucket' = [bucket EXCEPT ![k] = @ \cup {s}]
    /\ until' = [until EXCEPT ![k] = now + ttl]
    /\ UNCHANGED now

Unmark(k, s) ==
    /\ bucket' = [bucket EXCEPT ![k] = @ \ {s}]
    /\ until' = [until EXCEPT ![k] = IF bucket[k] \subseteq {s} THEN 0 ELSE @]
    /\ UNCHANGED now

\* Buckets may be emptied when their time is over, at once or later.
Emptied(due) ==
    /\ bucket' = [k \in Keys |-> IF k \in due THEN {} ELSE bucket[k]]
    /\ until' = [k \in Keys |-> IF k \in due THEN 0 ELSE until[k]]

Expire ==
    /\ \E due \in SUBSET {k \in Keys : until[k] <= now} : Emptied(due)
    /\ UNCHANGED now

Tick ==
    /\ now < MaxTime
    /\ now' = now + 1
    /\ \E due \in SUBSET {k \in Keys : until[k] <= now'} : Emptied(due)

\* The service stops and forgets everything.
Stop ==
    /\ Emptied(Keys)
    /\ UNCHANGED now

Next ==
    \/ \E k \in Keys, s \in Sockets :
          \/ \E ttl \in Ttls : Mark(k, s, ttl)
          \/ Unmark(k, s)
    \/ Expire
    \/ Tick
    \/ Stop

Spec == Init /\ [][Next]_presenceVars
=============================================================================
