----------------------------- MODULE RedisPresence -----------------------------
(***************************************************************************)
(* RedisPresenceService (src/presence/redis-presence.service.ts): presence *)
(* kept in Redis by several server processes.                              *)
(*                                                                         *)
(* A method sends one command, a MULTI transaction or SREM, and its        *)
(* promise settles with the reply.  The keys of a process's sockets are    *)
(* only written by that process, but buckets are shared.                   *)
(*                                                                         *)
(* Redis and its client (ioredis, src/presence/redis.client.ts) are        *)
(* external: commands of a connection are executed in order, each at once; *)
(* when the connection breaks, the commands without a reply, some of which *)
(* may have been executed, are sent again in order, or given up after some *)
(* retries.  What Redis had not read from the broken connection by then it *)
(* never executes: idealized, it might read on while the new connection is *)
(* in use.  Keys are gone at their time-out.                               *)
(*                                                                         *)
(* "wrong" marks plausible bugs that no action uses.                       *)
(***************************************************************************)
EXTENDS Naturals, Sequences

CONSTANTS
    Keys,        \* users and calls
    Sockets,
    Processes,
    Home,        \* the process a socket is connected to
    Ttls,
    MaxTime,     \* bound: the last moment of the model
    MaxCalls     \* bound: the number of calls of the service

VARIABLES
    now,
    members,     \* presence:user:<id>, presence:call:<id>: the sets ...
    deadline,    \* ... and when they expire, 0 for keys that are absent
    socketKeys,  \* presence:user-socket:<id>:<socket>: when they expire, or 0
    wire,        \* per process, commands without a reply
    executed,    \* how many of them, from the front, Redis has executed
    calls,       \* calls made so far
    intent,      \* history: the last call for a key and socket
    failed       \* history: keys and sockets with a call that failed

redisVars == <<now, members, deadline, socketKeys, wire, executed, calls, intent, failed>>

ASSUME RedisHomeAssumption == Home \in [Sockets -> Processes]
ASSUME RedisTtlsAssumption == Ttls \subseteq Nat \ {0}
ASSUME RedisBoundsAssumption == MaxTime \in Nat /\ MaxCalls \in Nat

Command ==
    [op : {"online"}, key : Keys, socket : Sockets, ttl : Ttls]
        \cup [op : {"offline"}, key : Keys, socket : Sockets]

-----------------------------------------------------------------------------
(* Redis *)

\* What SMEMBERS returns; a set that was emptied or has expired is no key.
SocketsOf(k) == IF now < deadline[k] THEN members[k] ELSE {}

RedisInit ==
    /\ now = 0
    /\ members = [k \in Keys |-> {}]
    /\ deadline = [k \in Keys |-> 0]
    /\ socketKeys = [k \in Keys |-> [s \in Sockets |-> 0]]
    /\ wire = [p \in Processes |-> <<>>]
    /\ executed = [p \in Processes |-> 0]
    /\ calls = 0
    /\ intent = [k \in Keys |-> [s \in Sockets |-> "none"]]
    /\ failed = {}

\* The transactions of markOnline and markOffline (and of trackCall and
\* untrackCall, which have no key per socket and do the rest alike).
ExecOnlineNoExpire(c) ==                                               \* wrong
    /\ c.op = "online"
    /\ members' = [members EXCEPT ![c.key] = SocketsOf(c.key) \cup {c.socket}]
    /\ socketKeys' = [socketKeys EXCEPT ![c.key][c.socket] = now + c.ttl]
    /\ UNCHANGED deadline
ExecOnlineExpireOnce(c) ==                                             \* wrong
    /\ c.op = "online"
    /\ members' = [members EXCEPT ![c.key] = SocketsOf(c.key) \cup {c.socket}]
    /\ deadline' = [deadline EXCEPT ![c.key] =
                       IF SocketsOf(c.key) = {} THEN now + c.ttl ELSE @]
    /\ socketKeys' = [socketKeys EXCEPT ![c.key][c.socket] = now + c.ttl]
ExecOnline(c) ==
    /\ c.op = "online"
    /\ members' = [members EXCEPT ![c.key] = SocketsOf(c.key) \cup {c.socket}]
    /\ deadline' = [deadline EXCEPT ![c.key] = now + c.ttl]
    /\ socketKeys' = [socketKeys EXCEPT ![c.key][c.socket] = now + c.ttl]

ExecOfflineKeyOnly(c) ==                                               \* wrong
    /\ c.op = "offline"
    /\ socketKeys' = [socketKeys EXCEPT ![c.key][c.socket] = 0]
    /\ UNCHANGED <<members, deadline>>
ExecOffline(c) ==
    /\ c.op = "offline"
    /\ members' = [members EXCEPT ![c.key] = SocketsOf(c.key) \ {c.socket}]
    /\ deadline' = [deadline EXCEPT ![c.key] = IF members'[c.key] = {} THEN 0 ELSE @]
    /\ socketKeys' = [socketKeys EXCEPT ![c.key][c.socket] = 0]

Execute(p) ==
    /\ executed[p] < Len(wire[p])
    /\ LET c == wire[p][executed[p] + 1] IN ExecOnline(c) \/ ExecOffline(c)
    /\ executed' = [executed EXCEPT ![p] = @ + 1]
    /\ UNCHANGED <<now, wire, calls, intent, failed>>

Reply(p) ==
    /\ executed[p] > 0
    /\ wire' = [wire EXCEPT ![p] = Tail(@)]
    /\ executed' = [executed EXCEPT ![p] = @ - 1]
    /\ UNCHANGED <<now, members, deadline, socketKeys, calls, intent, failed>>

\* The connection breaks; what has no reply is sent again, or given up.
Resend(p) ==
    /\ executed[p] > 0
    /\ executed' = [executed EXCEPT ![p] = 0]
    /\ UNCHANGED <<now, members, deadline, socketKeys, wire, calls, intent, failed>>

GiveUp(p) ==
    /\ wire[p] # <<>>
    /\ failed' = failed \cup {<<wire[p][i].key, wire[p][i].socket>> : i \in 1..Len(wire[p])}
    /\ wire' = [wire EXCEPT ![p] = <<>>]
    /\ executed' = [executed EXCEPT ![p] = 0]
    /\ UNCHANGED <<now, members, deadline, socketKeys, calls, intent>>

Pass ==
    /\ now < MaxTime
    /\ now' = now + 1
    /\ UNCHANGED <<members, deadline, socketKeys, wire, executed, calls, intent, failed>>

-----------------------------------------------------------------------------
(* The service *)

Send(c) ==
    /\ calls < MaxCalls
    /\ calls' = calls + 1
    /\ wire' = [wire EXCEPT ![Home[c.socket]] = Append(@, c)]
    /\ intent' = [intent EXCEPT ![c.key][c.socket] = c.op]
    /\ UNCHANGED <<now, members, deadline, socketKeys, executed, failed>>

\* markOnline, trackCall.
MarkOnline(k, s, ttl) == Send([op |-> "online", key |-> k, socket |-> s, ttl |-> ttl])

\* markOffline, untrackCall.
MarkOffline(k, s) == Send([op |-> "offline", key |-> k, socket |-> s])

\* whoIsOnline asks with one EXISTS over all keys, whose single reply is the
\* number of keys there are, and reads that reply as the first user's.
Count(users) == {i \in 1..Len(users) : SocketsOf(users[i]) # {}}

WhoIsOnline(users) == IF Count(users) # {} THEN {users[1]} ELSE {}

RedisNext ==
    \/ \E k \in Keys, s \in Sockets :
          \/ \E ttl \in Ttls : MarkOnline(k, s, ttl)
          \/ MarkOffline(k, s)
    \/ \E p \in Processes : Execute(p) \/ Reply(p) \/ Resend(p) \/ GiveUp(p)
    \/ Pass

RedisSpec == RedisInit /\ [][RedisNext]_redisVars

-----------------------------------------------------------------------------
(* Properties *)

\* The shape of the state.
RedisTypeOK ==
    /\ now \in 0..MaxTime
    /\ members \in [Keys -> SUBSET Sockets]
    /\ deadline \in [Keys -> Nat]
    /\ \A k \in Keys : deadline[k] = 0 <=> members[k] = {}
    /\ socketKeys \in [Keys -> [Sockets -> Nat]]
    /\ wire \in [Processes -> Seq(Command)]
    /\ executed \in [Processes -> Nat]
    /\ \A p \in Processes : executed[p] <= Len(wire[p])
    /\ calls \in 0..MaxCalls
    /\ intent \in [Keys -> [Sockets -> {"none", "online", "offline"}]]
    /\ failed \subseteq Keys \X Sockets

\* The commands of a call that have not been answered.
Unanswered(k, s) ==
    {i \in 1..Len(wire[Home[s]]) :
        wire[Home[s]][i].key = k /\ wire[Home[s]][i].socket = s}

\* Once every call for a socket has been answered, the last call decides: a
\* socket marked offline is neither in the bucket nor has a key of its own,
\* although broken connections had commands executed twice, and other
\* processes wrote the bucket in between.
OfflineStaysOffline ==
    \A k \in Keys, s \in Sockets :
        /\ Unanswered(k, s) = {}
        /\ <<k, s>> \notin failed
        /\ intent[k][s] # "online"
        => s \notin SocketsOf(k) /\ socketKeys[k][s] = 0

\* The service does what PresenceService promises, with exact time-outs.
Promise == INSTANCE Presence WITH
    bucket <- [k \in Keys |-> SocketsOf(k)],
    until <- [k \in Keys |-> IF now < deadline[k] THEN deadline[k] ELSE 0]
ImplementsPresence == Promise!Spec

\* whoIsOnline returns the users that are present.
WhoIsOnlineTellsAll ==
    \A u, v \in Keys : u # v =>
        WhoIsOnline(<<u, v>>) = {k \in {u, v} : SocketsOf(k) # {}}
=============================================================================
