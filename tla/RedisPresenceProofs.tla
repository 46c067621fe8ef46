------------------------- MODULE RedisPresenceProofs -------------------------
(***************************************************************************)
(* Theorems about RedisPresence, for any keys, sockets, processes,         *)
(* time-outs and bounds.                                                   *)
(***************************************************************************)
EXTENDS RedisPresence, SequenceTheorems, TLAPS

\* A command of c's kind for c's socket leaves Redis as the transaction does.
Executes(c) == ExecOnline(c) \/ ExecOffline(c)

LEMMA CommandOp ==
    ASSUME NEW c \in Command
    PROVE  /\ c.key \in Keys /\ c.socket \in Sockets
           /\ \/ c.op = "online" /\ c.ttl \in Ttls
              \/ c.op = "offline"
  BY DEF Command

\* What one command does to the sockets of a key.
LEMMA ExecutesBucket ==
    ASSUME RedisTypeOK, NEW c \in Command, Executes(c), now' = now
    PROVE  /\ members' \in [Keys -> SUBSET Sockets]
           /\ deadline' \in [Keys -> Nat]
           /\ \A k \in Keys : deadline'[k] = 0 <=> members'[k] = {}
           /\ socketKeys' \in [Keys -> [Sockets -> Nat]]
           /\ \A k \in Keys, s \in Sockets : <<k, s>> # <<c.key, c.socket>> =>
                 /\ s \in SocketsOf(k)' => s \in SocketsOf(k)
                 /\ socketKeys'[k][s] = socketKeys[k][s]
           /\ c.op = "offline" =>
                 c.socket \notin SocketsOf(c.key)' /\ socketKeys'[c.key][c.socket] = 0
<1>1. c.key \in Keys /\ c.socket \in Sockets /\ now \in Nat
  BY CommandOp, RedisBoundsAssumption DEF RedisTypeOK
<1>2. CASE ExecOnline(c)
  <2>1. c.op = "online" /\ c.ttl \in Nat \ {0}
    BY <1>2, CommandOp, RedisTtlsAssumption DEF ExecOnline
  <2>2. now + c.ttl \in Nat /\ now + c.ttl # 0
    BY <1>1, <2>1
  <2> QED BY <1>1, <1>2, <2>1, <2>2 DEF ExecOnline, RedisTypeOK, SocketsOf
<1>3. CASE ExecOffline(c)
  BY <1>1, <1>3 DEF ExecOffline, RedisTypeOK, SocketsOf
<1> QED BY <1>2, <1>3 DEF Executes

\* A step of the specification, by what it does to the commands on the wire.
LEMMA RedisStep ==
    ASSUME RedisTypeOK, RedisNext
    PROVE  \/ \E c \in Command : Send(c)
           \/ \E p \in Processes : Execute(p) \/ Reply(p) \/ Resend(p) \/ GiveUp(p)
           \/ Pass
<1>1. ASSUME NEW k \in Keys, NEW s \in Sockets, NEW ttl \in Ttls, MarkOnline(k, s, ttl)
      PROVE  \E c \in Command : Send(c)
  BY <1>1 DEF MarkOnline, Command
<1>2. ASSUME NEW k \in Keys, NEW s \in Sockets, MarkOffline(k, s)
      PROVE  \E c \in Command : Send(c)
  BY <1>2 DEF MarkOffline, Command
<1> QED BY <1>1, <1>2 DEF RedisNext

LEMMA RedisTypeStep ==
    ASSUME RedisTypeOK, [RedisNext]_redisVars
    PROVE  RedisTypeOK'
<1> USE RedisHomeAssumption, RedisBoundsAssumption
<1>1. ASSUME NEW c \in Command, Send(c) PROVE RedisTypeOK'
  <2>1. c.socket \in Sockets /\ c.key \in Keys /\ c.op \in {"online", "offline"}
    BY CommandOp
  <2>2. Home[c.socket] \in Processes
    BY <2>1
  <2>3. wire' \in [Processes -> Seq(Command)]
    BY <1>1, <2>2 DEF Send, RedisTypeOK
  <2>4. intent' \in [Keys -> [Sockets -> {"none", "online", "offline"}]]
    BY <1>1, <2>1 DEF Send, RedisTypeOK
  <2>5. \A p \in Processes : executed'[p] <= Len(wire'[p])
    BY <1>1, <2>2 DEF Send, RedisTypeOK
  <2> QED BY <1>1, <2>3, <2>4, <2>5 DEF Send, RedisTypeOK
<1>2. ASSUME NEW p \in Processes, Execute(p) PROVE RedisTypeOK'
  <2> DEFINE c == wire[p][executed[p] + 1]
  <2>1. c \in Command
    BY <1>2 DEF Execute, RedisTypeOK
  <2>2. Executes(c) /\ now' = now
    BY <1>2 DEF Execute, Executes
  <2>3. /\ members' \in [Keys -> SUBSET Sockets]
        /\ deadline' \in [Keys -> Nat]
        /\ \A k \in Keys : deadline'[k] = 0 <=> members'[k] = {}
        /\ socketKeys' \in [Keys -> [Sockets -> Nat]]
    <3> HIDE DEF c
    <3> QED BY <2>1, <2>2, ExecutesBucket
  <2>4. /\ executed' \in [Processes -> Nat]
        /\ \A q \in Processes : executed'[q] <= Len(wire'[q])
    BY <1>2 DEF Execute, RedisTypeOK
  <2> QED BY <1>2, <2>3, <2>4 DEF Execute, RedisTypeOK
<1>3. ASSUME NEW p \in Processes, Reply(p) PROVE RedisTypeOK'
  <2>1. /\ wire[p] \in Seq(Command) /\ wire[p] # <<>>
        /\ executed[p] \in Nat /\ executed[p] <= Len(wire[p])
    BY <1>3 DEF Reply, RedisTypeOK
  <2>2. Tail(wire[p]) \in Seq(Command) /\ Len(Tail(wire[p])) = Len(wire[p]) - 1
    BY <2>1
  <2>3. /\ wire' \in [Processes -> Seq(Command)]
        /\ executed' \in [Processes -> Nat]
        /\ \A q \in Processes : executed'[q] <= Len(wire'[q])
    BY <1>3, <2>1, <2>2 DEF Reply, RedisTypeOK
  <2> QED BY <1>3, <2>3 DEF Reply, RedisTypeOK
<1>4. ASSUME NEW p \in Processes, Resend(p) PROVE RedisTypeOK'
  BY <1>4 DEF Resend, RedisTypeOK
<1>5. ASSUME NEW p \in Processes, GiveUp(p) PROVE RedisTypeOK'
  <2>1. \A i \in 1..Len(wire[p]) : wire[p][i] \in Command
    BY DEF RedisTypeOK
  <2>2. \A i \in 1..Len(wire[p]) : wire[p][i].key \in Keys /\ wire[p][i].socket \in Sockets
    BY <2>1, CommandOp
  <2>3. failed' \subseteq Keys \X Sockets
    BY <1>5, <2>2 DEF GiveUp, RedisTypeOK
  <2>4. /\ wire' \in [Processes -> Seq(Command)]
        /\ executed' \in [Processes -> Nat]
        /\ \A q \in Processes : executed'[q] <= Len(wire'[q])
    BY <1>5 DEF GiveUp, RedisTypeOK
  <2> QED BY <1>5, <2>3, <2>4 DEF GiveUp, RedisTypeOK
<1>6. ASSUME Pass PROVE RedisTypeOK'
  BY <1>6 DEF Pass, RedisTypeOK
<1>7. ASSUME UNCHANGED redisVars PROVE RedisTypeOK'
  BY <1>7 DEF redisVars, RedisTypeOK
<1> QED BY <1>1, <1>2, <1>3, <1>4, <1>5, <1>6, <1>7, RedisStep

LEMMA RedisBase == RedisInit => RedisTypeOK
  BY RedisBoundsAssumption DEF RedisInit, RedisTypeOK

\* Redis keeps its shape whatever the processes send and the connections do.
THEOREM RedisTypeCorrect == RedisSpec => []RedisTypeOK
  BY RedisBase, RedisTypeStep, PTL DEF RedisSpec

-----------------------------------------------------------------------------
(* The last call decides *)

Gone(k, s) == s \notin SocketsOf(k) /\ socketKeys[k][s] = 0

\* Only its own process sends commands for a socket.
SentFromHome ==
    \A p \in Processes : \A i \in 1..Len(wire[p]) : Home[wire[p][i].socket] = p

\* The last command without a reply is the last call's.
LastIsIntent ==
    \A k \in Keys, s \in Sockets : \A i \in Unanswered(k, s) :
        (\A j \in Unanswered(k, s) : j <= i) => wire[Home[s]][i].op = intent[k][s]

\* When all commands for a socket have been executed, since the connection was
\* last made, the last call has had its effect.
ExecutedIsEffective ==
    \A k \in Keys, s \in Sockets :
        /\ <<k, s>> \notin failed
        /\ intent[k][s] # "online"
        /\ \A i \in Unanswered(k, s) : i <= executed[Home[s]]
        => Gone(k, s)

LastCallInv == SentFromHome /\ LastIsIntent /\ ExecutedIsEffective

LEMMA LastCallSend ==
    ASSUME RedisTypeOK, LastCallInv, NEW c \in Command, Send(c)
    PROVE  LastCallInv'
<1> USE RedisHomeAssumption
<1> DEFINE p == Home[c.socket]
<1>1. c.key \in Keys /\ c.socket \in Sockets /\ p \in Processes
  BY CommandOp
<1>2. /\ wire[p] \in Seq(Command) /\ executed[p] \in Nat /\ executed[p] <= Len(wire[p])
      /\ wire' = [wire EXCEPT ![p] = Append(wire[p], c)]
      /\ UNCHANGED <<members, deadline, socketKeys, now, executed, failed>>
  BY <1>1 DEF Send, RedisTypeOK
<1>3. SentFromHome'
  BY <1>1, <1>2 DEF LastCallInv, SentFromHome, RedisTypeOK
<1>4. \A k \in Keys, s \in Sockets : <<k, s>> # <<c.key, c.socket>> =>
          /\ Unanswered(k, s)' = Unanswered(k, s)
          /\ \A i \in Unanswered(k, s) : wire'[Home[s]][i] = wire[Home[s]][i]
          /\ intent'[k][s] = intent[k][s]
  <2> SUFFICES ASSUME NEW k \in Keys, NEW s \in Sockets, <<k, s>> # <<c.key, c.socket>>
               PROVE  /\ Unanswered(k, s)' = Unanswered(k, s)
                      /\ \A i \in Unanswered(k, s) : wire'[Home[s]][i] = wire[Home[s]][i]
                      /\ intent'[k][s] = intent[k][s]
    OBVIOUS
  <2>1. intent'[k][s] = intent[k][s]
    BY <1>1 DEF Send, RedisTypeOK
  <2>2. CASE Home[s] # p
    BY <1>1, <1>2, <2>1, <2>2 DEF RedisTypeOK, Unanswered
  <2>3. CASE Home[s] = p
    <3>1. /\ wire[p] \in Seq(Command) /\ wire'[p] = Append(wire[p], c)
          /\ Len(wire[p]) \in Nat
      <4>1. wire \in [Processes -> Seq(Command)]
        BY DEF RedisTypeOK
      <4>2. wire'[p] = Append(wire[p], c)
        BY <1>1, <1>2, <4>1
      <4>3. wire[p] \in Seq(Command)
        BY <1>2
      <4>4. Len(wire[p]) \in Nat
        BY <4>3
      <4> QED BY <4>2, <4>3, <4>4
    <3>2. /\ Len(wire'[p]) = Len(wire[p]) + 1 /\ wire'[p][Len(wire[p]) + 1] = c
          /\ \A i \in 1 .. Len(wire[p]) : wire'[p][i] = wire[p][i]
      BY <3>1
    <3>3. \A i \in 1 .. Len(wire'[p]) :
             i \in 1 .. Len(wire[p]) \/ i = Len(wire[p]) + 1
      BY <3>1, <3>2
    <3>4. ~ (c.key = k /\ c.socket = s)
      OBVIOUS
    <3>5. \A i \in 1 .. Len(wire[p]) : i \in 1 .. Len(wire'[p])
      BY <3>1, <3>2
    <3> HIDE DEF p
    <3>6. {i \in 1 .. Len(wire'[p]) : wire'[p][i].key = k /\ wire'[p][i].socket = s}
             = {i \in 1 .. Len(wire[p]) : wire[p][i].key = k /\ wire[p][i].socket = s}
      BY <3>2, <3>3, <3>4, <3>5
    <3>7. Unanswered(k, s)' = Unanswered(k, s)
      BY <2>3, <3>6 DEF Unanswered
    <3>8. \A i \in Unanswered(k, s) : wire'[p][i] = wire[p][i]
      BY <2>3, <3>2 DEF Unanswered
    <3> QED BY <2>1, <2>3, <3>7, <3>8
  <2> QED BY <2>2, <2>3, Zenon
<1>5. LET k == c.key
          s == c.socket
          n == Len(wire[p]) + 1
      IN  /\ n \in Unanswered(k, s)'
          /\ n > executed'[p]
          /\ \A i \in Unanswered(k, s)' : n <= i => wire'[p][i].op = intent'[k][s]
  <2> DEFINE n == Len(wire[p]) + 1
  <2>1. /\ wire'[p][n] = c /\ DOMAIN wire'[p] = 1 .. n /\ n \in Nat
        /\ intent'[c.key][c.socket] = c.op /\ n > executed'[p]
    BY <1>1, <1>2 DEF Send, RedisTypeOK
  <2>2. n \in Unanswered(c.key, c.socket)'
    BY <1>1, <1>2, <2>1 DEF Unanswered
  <2>3. \A i \in Unanswered(c.key, c.socket)' : n <= i => i = n
    BY <1>1, <1>2, <2>1 DEF Unanswered
  <2> HIDE DEF n
  <2>4. \A i \in Unanswered(c.key, c.socket)' :
           n <= i => wire'[p][i].op = intent'[c.key][c.socket]
    BY <2>1, <2>3
  <2> QED BY <2>1, <2>2, <2>4 DEF n
<1>6. LastIsIntent'
  BY <1>4, <1>5 DEF LastCallInv, LastIsIntent
<1>7. ExecutedIsEffective'
  <2>1. \A k \in Keys, s \in Sockets : Gone(k, s)' <=> Gone(k, s)
    BY <1>2 DEF Gone, SocketsOf
  <2>2. \A i \in Unanswered(c.key, c.socket)' : i \in Nat
    BY DEF Unanswered
  <2> SUFFICES ASSUME NEW k \in Keys, NEW s \in Sockets,
                      <<k, s>> \notin failed', intent'[k][s] # "online",
                      \A i \in Unanswered(k, s)' : i <= executed'[Home[s]]
               PROVE  Gone(k, s)
    BY <2>1 DEF ExecutedIsEffective
  <2>3. <<k, s>> # <<c.key, c.socket>>
    BY <1>2, <1>5, <2>2
  <2> QED BY <1>2, <1>4, <2>3 DEF LastCallInv, ExecutedIsEffective
<1> QED BY <1>3, <1>6, <1>7 DEF LastCallInv

LEMMA LastCallExecute ==
    ASSUME RedisTypeOK, LastCallInv, NEW p \in Processes, Execute(p)
    PROVE  LastCallInv'
<1> USE RedisHomeAssumption
<1>1. /\ executed[p] \in Nat /\ executed[p] < Len(wire[p])
      /\ executed' = [executed EXCEPT ![p] = executed[p] + 1]
      /\ UNCHANGED <<wire, intent, failed, now>>
  BY DEF Execute, RedisTypeOK
<1>2. PICK c \in Command : /\ c = wire[p][executed[p] + 1]
                           /\ Home[c.socket] = p
  <2>1. executed[p] + 1 \in 1..Len(wire[p]) /\ wire[p] \in Seq(Command)
    BY <1>1 DEF RedisTypeOK
  <2> QED BY <2>1 DEF LastCallInv, SentFromHome
<1>8. Executes(c)
  BY <1>2 DEF Execute, Executes
<1>3. /\ \A k \in Keys, s \in Sockets : <<k, s>> # <<c.key, c.socket>> =>
              (Gone(k, s) => Gone(k, s)')
      /\ c.op = "offline" => Gone(c.key, c.socket)'
  <2>1. now' = now
    BY <1>1
  <2>2. /\ \A k \in Keys, s \in Sockets : <<k, s>> # <<c.key, c.socket>> =>
              /\ s \in SocketsOf(k)' => s \in SocketsOf(k)
              /\ socketKeys'[k][s] = socketKeys[k][s]
        /\ c.op = "offline" =>
              c.socket \notin SocketsOf(c.key)' /\ socketKeys'[c.key][c.socket] = 0
    BY <1>8, <2>1, ExecutesBucket
  <2> QED BY <2>2 DEF Gone
<1>4. c.key \in Keys /\ c.socket \in Sockets /\ c.op \in {"online", "offline"}
  BY CommandOp
<1>5. \A k \in Keys, s \in Sockets : Unanswered(k, s)' = Unanswered(k, s)
  BY <1>1 DEF Unanswered
<1>6. ExecutedIsEffective'
  <2> SUFFICES ASSUME NEW k \in Keys, NEW s \in Sockets,
                      <<k, s>> \notin failed, intent[k][s] # "online",
                      \A i \in Unanswered(k, s) : i <= executed'[Home[s]]
               PROVE  Gone(k, s)'
    BY <1>1, <1>5 DEF ExecutedIsEffective
  <2>1. \A i \in Unanswered(k, s) : i \in Nat
    BY DEF Unanswered
  <2>2. CASE <<k, s>> = <<c.key, c.socket>>
    <3>0. c.key = k /\ c.socket = s
      BY <2>2
    <3>1. executed[p] + 1 \in Unanswered(k, s) /\ Home[s] = p
      BY <1>1, <1>2, <3>0 DEF Unanswered
    <3>2. \A i \in Unanswered(k, s) : i <= executed[p] + 1
      BY <1>1, <3>1 DEF RedisTypeOK
    <3>3. c.op = intent[k][s]
      <4>1. \A i \in Unanswered(k, s) :
               (\A j \in Unanswered(k, s) : j <= i) => wire[Home[s]][i].op = intent[k][s]
        BY DEF LastCallInv, LastIsIntent
      <4>2. wire[Home[s]][executed[p] + 1].op = intent[k][s]
        BY <4>1, <3>1, <3>2
      <4> QED BY <4>2, <3>1, <1>2
    <3>4. Gone(c.key, c.socket)'
      BY <1>3, <1>4, <3>3
    <3> QED BY <3>0, <3>4
  <2>3. CASE <<k, s>> # <<c.key, c.socket>>
    <3>1. \A i \in Unanswered(k, s) : i <= executed[Home[s]]
      <4>1. CASE Home[s] # p
        BY <1>1, <4>1 DEF RedisTypeOK
      <4>2. CASE Home[s] = p
        <5>1. executed'[p] = executed[p] + 1
          BY <1>1 DEF RedisTypeOK
        <5>2. executed[p] + 1 \notin Unanswered(k, s)
          BY <1>2, <2>3, <4>2 DEF Unanswered
        <5> QED BY <1>1, <2>1, <4>2, <5>1, <5>2
      <4> QED BY <4>1, <4>2
    <3> QED BY <1>3, <2>3, <3>1 DEF LastCallInv, ExecutedIsEffective
  <2> QED BY <2>2, <2>3
<1>7. SentFromHome' /\ LastIsIntent'
  BY <1>1, <1>5 DEF LastCallInv, SentFromHome, LastIsIntent
<1> QED BY <1>6, <1>7 DEF LastCallInv

LEMMA LastCallReply ==
    ASSUME RedisTypeOK, LastCallInv, NEW p \in Processes, Reply(p)
    PROVE  LastCallInv'
<1> USE RedisHomeAssumption
<1>1. /\ wire[p] \in Seq(Command) /\ wire[p] # <<>>
      /\ executed[p] \in Nat /\ executed[p] > 0
      /\ wire' = [wire EXCEPT ![p] = Tail(wire[p])]
      /\ executed' = [executed EXCEPT ![p] = executed[p] - 1]
      /\ UNCHANGED <<members, deadline, socketKeys, now, intent, failed>>
  BY DEF Reply, RedisTypeOK
<1>2. /\ wire'[p] = Tail(wire[p]) /\ executed'[p] = executed[p] - 1
      /\ \A q \in Processes : q # p => wire'[q] = wire[q] /\ executed'[q] = executed[q]
  BY <1>1 DEF RedisTypeOK
<1>3. /\ Len(Tail(wire[p])) = Len(wire[p]) - 1
      /\ \A i \in 1..Len(wire[p]) - 1 : Tail(wire[p])[i] = wire[p][i + 1]
  BY <1>1
<1>4. SentFromHome'
  BY <1>1, <1>2, <1>3 DEF LastCallInv, SentFromHome
<1>5. ASSUME NEW k \in Keys, NEW s \in Sockets, Home[s] = p
      PROVE  /\ \A i \in Unanswered(k, s) : i = 1 \/ i - 1 \in Unanswered(k, s)'
             /\ \A i \in Unanswered(k, s)' :
                   /\ i \in Nat /\ i + 1 \in Unanswered(k, s)
                   /\ wire'[p][i] = wire[p][i + 1]
  <2>1. Len(wire[p]) \in Nat /\ Len(wire[p]) > 0
    BY <1>1
  <2>2. \A i \in Unanswered(k, s)' : i \in 1..Len(wire[p]) - 1
    BY <1>2, <1>3, <1>5 DEF Unanswered
  <2>3. \A i \in Unanswered(k, s) : i \in 1..Len(wire[p])
    BY <1>5 DEF Unanswered
  <2>4. \A i \in Unanswered(k, s) : i = 1 \/ i - 1 \in Unanswered(k, s)'
    <3> SUFFICES ASSUME NEW i \in Unanswered(k, s), i # 1
                 PROVE  i - 1 \in Unanswered(k, s)'
      OBVIOUS
    <3>1. i - 1 \in 1..Len(wire[p]) - 1 /\ (i - 1) + 1 = i
      BY <2>1, <2>3
    <3>2. wire'[p][i - 1] = wire[p][i] /\ i - 1 \in 1..Len(wire'[p])
      BY <1>2, <1>3, <3>1
    <3> QED BY <1>5, <3>2 DEF Unanswered
  <2>5. \A i \in Unanswered(k, s)' :
           /\ i \in Nat /\ i + 1 \in Unanswered(k, s)
           /\ wire'[p][i] = wire[p][i + 1]
    <3> SUFFICES ASSUME NEW i \in Unanswered(k, s)'
                 PROVE  /\ i \in Nat /\ i + 1 \in Unanswered(k, s)
                        /\ wire'[p][i] = wire[p][i + 1]
      OBVIOUS
    <3>1. i \in 1..Len(wire[p]) - 1 /\ i + 1 \in 1..Len(wire[p])
      BY <2>1, <2>2
    <3>2. wire'[p][i] = wire[p][i + 1]
      BY <1>2, <1>3, <3>1
    <3> QED BY <1>5, <3>1, <3>2 DEF Unanswered
  <2> QED BY <2>4, <2>5
<1>6. ASSUME NEW k \in Keys, NEW s \in Sockets, Home[s] # p
      PROVE  /\ Unanswered(k, s)' = Unanswered(k, s)
             /\ wire'[Home[s]] = wire[Home[s]] /\ executed'[Home[s]] = executed[Home[s]]
  BY <1>1, <1>2, <1>6 DEF Unanswered
<1>7. \A k \in Keys, s \in Sockets : \A i \in Unanswered(k, s) : i \in Nat
  BY DEF Unanswered
<1>8. LastIsIntent'
  <2> SUFFICES ASSUME NEW k \in Keys, NEW s \in Sockets, NEW i \in Unanswered(k, s)',
                      \A j \in Unanswered(k, s)' : j <= i
               PROVE  wire'[Home[s]][i].op = intent[k][s]
    BY <1>1 DEF LastIsIntent
  <2>1. \A m \in Unanswered(k, s) :
            (\A j \in Unanswered(k, s) : j <= m) => wire[Home[s]][m].op = intent[k][s]
    BY DEF LastCallInv, LastIsIntent
  <2>2. CASE Home[s] = p
    <3>1. i \in Nat /\ i + 1 \in Unanswered(k, s) /\ wire'[p][i] = wire[p][i + 1]
      BY <1>5, <2>2
    <3>2. \A j \in Unanswered(k, s) : j <= i + 1
      BY <1>5, <1>7, <2>2, <3>1
    <3> QED BY <2>1, <2>2, <3>1, <3>2
  <2>3. CASE Home[s] # p
    BY <1>6, <2>1, <2>3
  <2> QED BY <2>2, <2>3
<1>9. ExecutedIsEffective'
  <2>1. \A k \in Keys, s \in Sockets : Gone(k, s)' <=> Gone(k, s)
    BY <1>1 DEF Gone, SocketsOf
  <2> SUFFICES ASSUME NEW k \in Keys, NEW s \in Sockets,
                      <<k, s>> \notin failed, intent[k][s] # "online",
                      \A i \in Unanswered(k, s)' : i <= executed'[Home[s]]
               PROVE  Gone(k, s)
    BY <1>1, <2>1 DEF ExecutedIsEffective
  <2>2. \A i \in Unanswered(k, s) : i <= executed[Home[s]]
    <3>1. CASE Home[s] = p
      BY <1>1, <1>2, <1>5, <1>7, <3>1
    <3>2. CASE Home[s] # p
      BY <1>6, <3>2
    <3> QED BY <3>1, <3>2
  <2> QED BY <2>2 DEF LastCallInv, ExecutedIsEffective
<1> QED BY <1>4, <1>8, <1>9 DEF LastCallInv

\* What a broken connection repeats ends with the last call again; what it
\* gives up are calls that fail.
LEMMA LastCallReconnect ==
    ASSUME RedisTypeOK, LastCallInv, NEW p \in Processes, Resend(p) \/ GiveUp(p)
    PROVE  LastCallInv'
<1> USE RedisHomeAssumption
<1>1. UNCHANGED <<members, deadline, socketKeys, now, intent>>
  BY DEF Resend, GiveUp
<1>2. \A k \in Keys, s \in Sockets : Gone(k, s)' <=> Gone(k, s)
  BY <1>1 DEF Gone, SocketsOf
<1>3. CASE Resend(p)
  <2>1. /\ UNCHANGED <<wire, failed>>
        /\ \A q \in Processes : executed'[q] \in Nat /\ executed[q] \in Nat
                                /\ executed'[q] <= executed[q]
    BY <1>3 DEF Resend, RedisTypeOK
  <2>2. \A k \in Keys, s \in Sockets :
            /\ Unanswered(k, s)' = Unanswered(k, s)
            /\ \A i \in Unanswered(k, s) : i \in Nat
    BY <2>1 DEF Unanswered
  <2>3. SentFromHome' /\ LastIsIntent'
    BY <1>1, <2>1, <2>2 DEF LastCallInv, SentFromHome, LastIsIntent
  <2>4. ExecutedIsEffective'
    <3> SUFFICES ASSUME NEW k \in Keys, NEW s \in Sockets,
                        <<k, s>> \notin failed, intent[k][s] # "online",
                        \A i \in Unanswered(k, s) : i <= executed'[Home[s]]
                 PROVE  Gone(k, s)
      BY <1>1, <1>2, <2>1, <2>2 DEF ExecutedIsEffective
    <3>1. Home[s] \in Processes
      OBVIOUS
    <3>2. \A i \in Unanswered(k, s) : i <= executed[Home[s]]
      BY <2>1, <2>2, <3>1
    <3> QED BY <3>2 DEF LastCallInv, ExecutedIsEffective
  <2> QED BY <2>3, <2>4 DEF LastCallInv
<1>4. CASE GiveUp(p)
  <2>1. /\ wire'[p] = <<>> /\ executed'[p] = 0
        /\ \A q \in Processes : q # p => wire'[q] = wire[q] /\ executed'[q] = executed[q]
    BY <1>4 DEF GiveUp, RedisTypeOK
  <2>2. \A k \in Keys, s \in Sockets : Home[s] = p =>
            /\ Unanswered(k, s)' = {}
            /\ <<k, s>> \notin failed' => Unanswered(k, s) = {}
    BY <1>1, <1>4, <2>1 DEF Unanswered, GiveUp
  <2>3. \A k \in Keys, s \in Sockets : Home[s] # p =>
            /\ Unanswered(k, s)' = Unanswered(k, s)
            /\ wire'[Home[s]] = wire[Home[s]] /\ executed'[Home[s]] = executed[Home[s]]
    BY <1>1, <2>1 DEF Unanswered
  <2>4. SentFromHome'
    BY <2>1 DEF LastCallInv, SentFromHome
  <2>5. LastIsIntent'
    <3> SUFFICES ASSUME NEW k \in Keys, NEW s \in Sockets, NEW i \in Unanswered(k, s)',
                        \A j \in Unanswered(k, s)' : j <= i
                 PROVE  wire'[Home[s]][i].op = intent[k][s]
      BY <1>1 DEF LastIsIntent
    <3>1. Home[s] # p
      BY <2>2
    <3> QED BY <2>3, <3>1 DEF LastCallInv, LastIsIntent
  <2>6. \A k \in Keys, s \in Sockets : <<k, s>> \notin failed' => <<k, s>> \notin failed
    BY <1>4 DEF GiveUp
  <2>7. ExecutedIsEffective'
    <3> SUFFICES ASSUME NEW k \in Keys, NEW s \in Sockets,
                        <<k, s>> \notin failed', intent[k][s] # "online",
                        \A i \in Unanswered(k, s)' : i <= executed'[Home[s]]
                 PROVE  Gone(k, s)
      BY <1>1, <1>2 DEF ExecutedIsEffective
    <3>1. \A i \in Unanswered(k, s) : i <= executed[Home[s]]
      BY <2>2, <2>3
    <3> QED BY <2>6, <3>1 DEF LastCallInv, ExecutedIsEffective
  <2> QED BY <2>4, <2>5, <2>7 DEF LastCallInv
<1> QED BY <1>3, <1>4

LEMMA LastCallElse ==
    ASSUME RedisTypeOK, LastCallInv, Pass \/ UNCHANGED redisVars
    PROVE  LastCallInv'
<1>1. /\ UNCHANGED <<members, deadline, socketKeys, wire, executed, intent, failed>>
      /\ now \in Nat /\ now' \in Nat /\ now <= now'
  BY RedisBoundsAssumption DEF Pass, redisVars, RedisTypeOK
<1>2. \A k \in Keys, s \in Sockets : Gone(k, s) => Gone(k, s)'
  BY <1>1 DEF Gone, SocketsOf, RedisTypeOK
<1>3. \A k \in Keys, s \in Sockets : Unanswered(k, s)' = Unanswered(k, s)
  BY <1>1 DEF Unanswered
<1> QED BY <1>1, <1>2, <1>3
        DEF LastCallInv, SentFromHome, LastIsIntent, ExecutedIsEffective

\* Resent and given-up commands included, the last call for a socket decides
\* what Redis says of it once all its calls are answered.
THEOREM LastCallDecides == RedisSpec => []OfflineStaysOffline
<1>1. RedisInit => LastCallInv
  <2> SUFFICES ASSUME RedisInit PROVE LastCallInv
    OBVIOUS
  <2>1. \A p \in Processes : Len(wire[p]) = 0
    BY DEF RedisInit
  <2>2. \A k \in Keys, s \in Sockets : Unanswered(k, s) = {} /\ Gone(k, s)
    BY <2>1, RedisHomeAssumption DEF RedisInit, Unanswered, Gone, SocketsOf
  <2> QED BY <2>1, <2>2
          DEF LastCallInv, SentFromHome, LastIsIntent, ExecutedIsEffective
<1>2. RedisTypeOK /\ LastCallInv /\ [RedisNext]_redisVars => LastCallInv'
  BY RedisStep, LastCallSend, LastCallExecute, LastCallReply, LastCallReconnect, LastCallElse
<1>3. LastCallInv => OfflineStaysOffline
  BY DEF LastCallInv, ExecutedIsEffective, Gone, OfflineStaysOffline
<1> QED BY <1>1, <1>2, <1>3, RedisTypeCorrect, PTL DEF RedisSpec

-----------------------------------------------------------------------------
(* Redis keeps the promise of PresenceService *)

Bucket(k) == SocketsOf(k)
Until(k) == IF now < deadline[k] THEN deadline[k] ELSE 0

\* A command is one Mark or Unmark at the moment it is executed.
LEMMA ExecuteImplements ==
    ASSUME RedisTypeOK, NEW p \in Processes, Execute(p)
    PROVE  Promise!Next
<1>1. PICK c \in Command : (ExecOnline(c) \/ ExecOffline(c)) /\ now' = now
  BY DEF Execute, RedisTypeOK
<1>2. c.key \in Keys /\ c.socket \in Sockets /\ now \in Nat
  BY CommandOp, RedisBoundsAssumption DEF RedisTypeOK
<1>3. CASE ExecOnline(c)
  <2>1. c.ttl \in Ttls /\ c.ttl \in Nat \ {0}
    BY <1>3, CommandOp, RedisTtlsAssumption DEF ExecOnline
  <2>2. \A k \in Keys : /\ Bucket(k)' = IF k = c.key THEN Bucket(k) \cup {c.socket} ELSE Bucket(k)
                        /\ Until(k)' = IF k = c.key THEN now + c.ttl ELSE Until(k)
    <3>1. /\ members'[c.key] = SocketsOf(c.key) \cup {c.socket}
          /\ deadline'[c.key] = now + c.ttl /\ now < now + c.ttl
          /\ \A k \in Keys : k # c.key => members'[k] = members[k] /\ deadline'[k] = deadline[k]
      BY <1>2, <1>3, <2>1 DEF ExecOnline, RedisTypeOK
    <3> QED BY <1>1, <3>1 DEF Bucket, Until, SocketsOf
  <2>3. Promise!Mark(c.key, c.socket, c.ttl)
    BY <1>1, <1>2, <2>2 DEF Promise!Mark, Bucket, Until
  <2> QED BY <1>2, <2>1, <2>3 DEF Promise!Next
<1>4. CASE ExecOffline(c)
  <2>1. \A k \in Keys :
            /\ Bucket(k)' = IF k = c.key THEN Bucket(k) \ {c.socket} ELSE Bucket(k)
            /\ Until(k)' = IF k = c.key /\ Bucket(k) \subseteq {c.socket} THEN 0 ELSE Until(k)
    BY <1>1, <1>2, <1>4 DEF ExecOffline, Bucket, Until, SocketsOf, RedisTypeOK
  <2>2. Promise!Unmark(c.key, c.socket)
    BY <1>1, <1>2, <2>1 DEF Promise!Unmark, Bucket, Until
  <2> QED BY <1>2, <2>2 DEF Promise!Next
<1> QED BY <1>1, <1>3, <1>4

\* When time passes exactly the keys whose time-out it is expire.
LEMMA PassImplements ==
    ASSUME RedisTypeOK, Pass
    PROVE  Promise!Next
<1>1. now \in Nat /\ now' = now + 1 /\ now < MaxTime /\ UNCHANGED <<members, deadline>>
  BY RedisBoundsAssumption DEF Pass, RedisTypeOK
<1>2. PICK due \in SUBSET Keys : due = {k \in Keys : Until(k) <= now + 1}
  OBVIOUS
<1>3. \A k \in Keys : /\ Bucket(k)' = IF k \in due THEN {} ELSE Bucket(k)
                      /\ Until(k)' = IF k \in due THEN 0 ELSE Until(k)
  BY <1>1, <1>2 DEF Bucket, Until, SocketsOf, RedisTypeOK
<1>4. Promise!Emptied(due)
  BY <1>3 DEF Promise!Emptied, Bucket, Until
<1>5. due \in SUBSET {k \in Keys : [i \in Keys |-> Until(i)][k] <= now'}
  BY <1>1, <1>2
<1>6. Promise!Tick
  BY <1>1, <1>4, <1>5 DEF Promise!Tick, Until
<1> QED BY <1>6 DEF Promise!Next

\* Several processes, lost connections and repeated commands keep the promise
\* of PresenceService, with time-outs that are exact.
THEOREM RedisImplementsPresence == RedisSpec => ImplementsPresence
<1>1. RedisInit => Promise!Init
  BY DEF RedisInit, Promise!Init, SocketsOf
<1>2. RedisTypeOK /\ [RedisNext]_redisVars => [Promise!Next]_(Promise!presenceVars)
  <2> SUFFICES ASSUME RedisTypeOK, [RedisNext]_redisVars
               PROVE  Promise!Next \/ UNCHANGED Promise!presenceVars
    OBVIOUS
  <2>1. ASSUME UNCHANGED <<now, members, deadline>>
        PROVE  UNCHANGED Promise!presenceVars
    BY <2>1 DEF Promise!presenceVars, SocketsOf
  <2>2. ASSUME NEW c \in Command, Send(c) PROVE UNCHANGED <<now, members, deadline>>
    BY <2>2 DEF Send
  <2>3. ASSUME NEW p \in Processes, Reply(p) \/ Resend(p) \/ GiveUp(p)
        PROVE  UNCHANGED <<now, members, deadline>>
    BY <2>3 DEF Reply, Resend, GiveUp
  <2>4. ASSUME UNCHANGED redisVars PROVE UNCHANGED <<now, members, deadline>>
    BY <2>4 DEF redisVars
  <2> QED BY <2>1, <2>2, <2>3, <2>4, RedisStep, ExecuteImplements, PassImplements
<1> QED BY <1>1, <1>2, RedisTypeCorrect, PTL DEF RedisSpec, ImplementsPresence, Promise!Spec
=============================================================================
