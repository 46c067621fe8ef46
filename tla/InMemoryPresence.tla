--------------------------- MODULE InMemoryPresence ---------------------------
(***************************************************************************)
(* InMemoryPresenceService (src/presence/in-memory-presence.service.ts):   *)
(* presence in the process's memory, with a Node timer per bucket.         *)
(*                                                                         *)
(* The maps for users (userSockets, userTtl) and for calls (callBuckets,   *)
(* callTtl) are kept by the same code twice; here they are one map over    *)
(* Owners, the users and the calls.  A bucket or an entry that is absent   *)
(* from its map is {} or 0.  A TtlEntry's timer and its expiresAt are the  *)
(* same moment, so the entry is that moment.                               *)
(*                                                                         *)
(* Timers are Node's: one that is due runs at its time or later, never     *)
(* while a method runs, and clearTimeout keeps it from running.  They      *)
(* follow a clock that nobody sets back, Age.                              *)
(*                                                                         *)
(* "wrong" marks plausible bugs that no action uses.                       *)
(***************************************************************************)
EXTENDS Clock, FiniteSets

CONSTANTS Owners, Sockets, Ttls

VARIABLES
    sockets,     \* userSockets and callBuckets
    ttls,        \* userTtl and callTtl: when the entry's timer is due, or 0
    timers       \* timers set and neither cleared nor run

memoryVars == <<clockVars, sockets, ttls, timers>>

ASSUME MemoryTtlsAssumption == Ttls \subseteq Nat \ {0}

Timer == [key : Owners, at : Nat]

-----------------------------------------------------------------------------
\* clearUserTtl, clearCallTtl: the timers left when k's entry is cleared.
NotCleared(k) == timers                                                \* wrong
Cleared(k) == timers \ {[key |-> k, at |-> ttls[k]]}

MemoryInit ==
    /\ ClockInit
    /\ sockets = [k \in Owners |-> {}]
    /\ ttls = [k \in Owners |-> 0]
    /\ timers = {}

\* markOnline, trackCall.
MarkOnlineForever(k, s, ttl) ==                                        \* wrong
    /\ sockets' = [sockets EXCEPT ![k] = @ \cup {s}]
    /\ ttls' = [ttls EXCEPT ![k] = Age + ttl]
    /\ timers' = IF ttls[k] = 0 THEN timers \cup {[key |-> k, at |-> Age + ttl]}
                 ELSE Cleared(k)
    /\ UNCHANGED clockVars
MarkOnline(k, s, ttl) ==
    /\ sockets' = [sockets EXCEPT ![k] = @ \cup {s}]
    /\ ttls' = [ttls EXCEPT ![k] = Age + ttl]
    /\ timers' = Cleared(k) \cup {[key |-> k, at |-> Age + ttl]}
    /\ UNCHANGED clockVars

\* markOffline, untrackCall; nothing happens to an absent bucket.
MarkOfflineOnly(k, s) ==                                               \* wrong
    /\ sockets[k] # {}
    /\ sockets' = [sockets EXCEPT ![k] = @ \ {s}]
    /\ UNCHANGED <<clockVars, ttls, timers>>
MarkOffline(k, s) ==
    /\ sockets[k] # {}
    /\ sockets' = [sockets EXCEPT ![k] = @ \ {s}]
    /\ IF sockets'[k] = {}
       THEN /\ ttls' = [ttls EXCEPT ![k] = 0]
            /\ timers' = Cleared(k)
       ELSE UNCHANGED <<ttls, timers>>
    /\ UNCHANGED clockVars

\* expireUser, expireCall, run by a timer that is due.
RunTimer(t) ==
    /\ t.at <= Age
    /\ timers' = timers \ {t}
    /\ sockets' = [sockets EXCEPT ![t.key] = {}]
    /\ ttls' = [ttls EXCEPT ![t.key] = 0]
    /\ UNCHANGED clockVars

\* onModuleDestroy.
OnModuleDestroy ==
    /\ timers' = {t \in timers : t.at # ttls[t.key]}
    /\ sockets' = [k \in Owners |-> {}]
    /\ ttls' = [k \in Owners |-> 0]
    /\ UNCHANGED clockVars

MemoryStep ==
    \/ \E k \in Owners, s \in Sockets :
          \/ \E ttl \in Ttls : Age + ttl <= MaxTime /\ MarkOnline(k, s, ttl)
          \/ MarkOffline(k, s)
    \/ \E t \in timers : RunTimer(t)
    \/ OnModuleDestroy

TimePasses == Tick /\ UNCHANGED <<sockets, ttls, timers>>

MemoryNext ==
    \/ MemoryStep
    \/ TimePasses
    \/ SetBack /\ UNCHANGED <<sockets, ttls, timers>>

MemorySpec == MemoryInit /\ [][MemoryNext]_memoryVars

\* Node runs the timers that are due.
TimersRun ==
    \A t \in [key : Owners, at : 1..MaxTime] : WF_memoryVars(t \in timers /\ RunTimer(t))

MemoryFairness == WF_memoryVars(TimePasses) /\ TimersRun

FairMemorySpec == MemorySpec /\ MemoryFairness

-----------------------------------------------------------------------------
(* Properties *)

\* The shape of the state; both maps have the same keys.
MemoryTypeOK ==
    /\ ClockTypeOK
    /\ now <= MaxTime /\ backs <= MaxBacks
    /\ sockets \in [Owners -> SUBSET Sockets]
    /\ ttls \in [Owners -> Nat]
    /\ \A k \in Owners : ttls[k] = 0 <=> sockets[k] = {}
    /\ timers \subseteq Timer

\* Every bucket somebody is in has exactly one timer to empty it, the one its
\* entry refers to, and no other timer is left: nobody stays for ever, and no
\* timer set for an earlier mark cuts a later one short.
OneTimerPerBucket ==
    timers = {[key |-> k, at |-> ttls[k]] : k \in {i \in Owners : sockets[i] # {}}}

\* The service does what PresenceService promises.
Promise == INSTANCE Presence WITH
    Keys <- Owners, bucket <- sockets, until <- ttls,
    now <- Age, MaxTime <- MaxTime + MaxBacks
ImplementsPresence == Promise!Spec

\* A socket that is not marked again is no longer present after a while, even
\* if nobody marks it offline (in the model marks end before MaxTime).
ForgottenInTheEnd ==
    \A k \in Owners, s \in Sockets : s \in sockets[k] ~> s \notin sockets[k]
=============================================================================
