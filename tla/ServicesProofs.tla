---------------------------- MODULE ServicesProofs ----------------------------
(***************************************************************************)
(* Theorems about the services of module Services: presence in memory and  *)
(* the LiveKit probes (the others have modules of their own), and how the  *)
(* run that puts the services together relates to each of them.            *)
(***************************************************************************)
EXTENDS Services, RateLimitProofs, SignInProofs

-----------------------------------------------------------------------------
(* Presence in memory *)

\* The maps, the timers and their agreement.
MemoryInv == MemoryTypeOK /\ OneTimerPerBucket

\* How every step changes the buckets: as PresenceService promises.
LEMMA MemoryStepKeeps ==
    ASSUME MemoryInv, [MemoryNext]_memoryVars
    PROVE  MemoryInv' /\ [Promise!Next]_(Promise!presenceVars)
<1> USE DEF MemoryInv, Age, clockVars, ClockTypeOK
<1> USE MemoryTtlsAssumption, ClockAssumption
<1>1. ASSUME NEW k \in Owners, NEW s \in Sockets, NEW ttl \in Ttls,
             Age + ttl <= MaxTime, MarkOnline(k, s, ttl)
      PROVE  MemoryInv' /\ Promise!Mark(k, s, ttl)
  <2>1. MemoryTypeOK'
    BY <1>1 DEF MemoryTypeOK, MarkOnline, Cleared, Timer
  <2>2. OneTimerPerBucket'
    BY <1>1 DEF MemoryTypeOK, OneTimerPerBucket, MarkOnline, Cleared
  <2>3. Promise!Mark(k, s, ttl)
    BY <1>1 DEF MarkOnline, Promise!Mark
  <2> QED BY <2>1, <2>2, <2>3
<1>2. ASSUME NEW k \in Owners, NEW s \in Sockets, MarkOffline(k, s)
      PROVE  MemoryInv' /\ Promise!Unmark(k, s)
  <2>1. MemoryTypeOK'
    BY <1>2 DEF MemoryTypeOK, MarkOffline, Cleared, Timer
  <2>2. OneTimerPerBucket'
    BY <1>2 DEF MemoryTypeOK, OneTimerPerBucket, MarkOffline, Cleared
  <2>3. sockets'[k] = {} <=> sockets[k] \subseteq {s}
    BY <1>2 DEF MemoryTypeOK, MarkOffline
  <2>4. ttls' = [ttls EXCEPT ![k] = IF sockets[k] \subseteq {s} THEN 0 ELSE @]
    BY <1>2, <2>3 DEF MemoryTypeOK, MarkOffline
  <2>5. Promise!Unmark(k, s)
    BY <1>2, <2>4 DEF MarkOffline, Promise!Unmark
  <2> QED BY <2>1, <2>2, <2>5
<1>3. ASSUME NEW t \in timers, RunTimer(t)
      PROVE  MemoryInv' /\ Promise!Expire
  <2>1. t.key \in Owners /\ t.at = ttls[t.key] /\ t \in Timer
    BY DEF MemoryTypeOK, OneTimerPerBucket
  <2>2. MemoryTypeOK'
    BY <1>3, <2>1 DEF MemoryTypeOK, RunTimer, Timer
  <2>3. OneTimerPerBucket'
    BY <1>3, <2>1 DEF MemoryTypeOK, OneTimerPerBucket, RunTimer
  <2>4. {t.key} \in SUBSET {k \in Owners : ttls[k] <= Age}
    BY <1>3, <2>1 DEF RunTimer
  <2>5. Promise!Emptied({t.key})
    BY <1>3, <2>1 DEF MemoryTypeOK, RunTimer, Promise!Emptied
  <2> QED BY <1>3, <2>2, <2>3, <2>4, <2>5 DEF RunTimer, Promise!Expire
<1>4. ASSUME OnModuleDestroy
      PROVE  MemoryInv' /\ Promise!Stop
  <2>1. timers' = {}
    BY <1>4 DEF OneTimerPerBucket, OnModuleDestroy
  <2>2. MemoryTypeOK' /\ OneTimerPerBucket'
    BY <1>4, <2>1 DEF MemoryTypeOK, OneTimerPerBucket, OnModuleDestroy, Timer
  <2>3. Promise!Stop
    BY <1>4 DEF OnModuleDestroy, Promise!Stop, Promise!Emptied
  <2> QED BY <2>2, <2>3
<1>5. ASSUME TimePasses
      PROVE  MemoryInv' /\ Promise!Tick
  <2>1. MemoryTypeOK' /\ OneTimerPerBucket'
    BY <1>5 DEF MemoryTypeOK, OneTimerPerBucket, TimePasses, Tick, Timer
  <2>2. Promise!Emptied({})
    BY <1>5 DEF MemoryTypeOK, TimePasses, Promise!Emptied
  <2> QED BY <1>5, <2>1, <2>2 DEF TimePasses, Tick, MemoryTypeOK, Promise!Tick
<1>6. ASSUME SetBack, UNCHANGED <<sockets, ttls, timers>>
      PROVE  MemoryInv' /\ UNCHANGED Promise!presenceVars
  BY <1>6 DEF SetBack, MemoryTypeOK, OneTimerPerBucket, Timer, Promise!presenceVars
<1>7. ASSUME UNCHANGED memoryVars
      PROVE  MemoryInv' /\ UNCHANGED Promise!presenceVars
  BY <1>7 DEF memoryVars, MemoryTypeOK, OneTimerPerBucket, Promise!presenceVars
<1> QED BY <1>1, <1>2, <1>3, <1>4, <1>5, <1>6, <1>7 DEF MemoryNext, MemoryStep, Promise!Next

LEMMA MemoryBase == MemoryInit => MemoryInv /\ Promise!Init
  BY ClockAssumption
  DEF MemoryInit, ClockInit, Age, ClockTypeOK, MemoryInv, MemoryTypeOK, OneTimerPerBucket, Timer, Promise!Init

\* However marks, unmarks and late timers fall, every bucket in use has exactly
\* the timer its entry refers to (clearUserTtl and clearCallTtl miss none).
THEOREM OneTimer == MemorySpec => [](MemoryTypeOK /\ OneTimerPerBucket)
<1>1. MemorySpec => []MemoryInv
  <2>1. MemoryInv /\ [MemoryNext]_memoryVars => MemoryInv'
    BY MemoryStepKeeps
  <2> QED BY <2>1, MemoryBase, PTL DEF MemorySpec
<1> QED BY <1>1, PTL DEF MemoryInv

\* InMemoryPresenceService does what PresenceService promises: in particular
\* no socket is dropped before the time-out of the latest mark of its bucket.
THEOREM MemoryImplementsPresence == MemorySpec => ImplementsPresence
<1>1. MemorySpec => []MemoryInv
  BY OneTimer, PTL DEF MemoryInv
<1>2. MemoryInv /\ [MemoryNext]_memoryVars => [Promise!Next]_(Promise!presenceVars)
  BY MemoryStepKeeps
<1> QED
  BY <1>1, <1>2, MemoryBase, PTL DEF MemorySpec, ImplementsPresence, Promise!Spec

-----------------------------------------------------------------------------
(* LiveKit probes *)

ProbeTypeOK ==
    /\ ClockTypeOK
    /\ probe \in [Probes -> [at : {"none", "listing", "creating", "deleting"}, room : Nat]]

\* Inductive: the shape of the probes, and what is to be shown.
ProbeInv == ProbeTypeOK /\ LeftoversExcused

LEMMA ProbeBase == ClockInit /\ ProbeInit => ProbeInv
BY DEF ClockInit, ProbeInit, NoProbe, ProbeInv, ProbeTypeOK, ClockTypeOK, LeftoversExcused

\* Probe i goes on or ends, and so answers for no room but its own.
LEMMA OthersAnswer ==
    ASSUME ProbeInv, NEW i \in Probes, NEW to,
           probe' = [probe EXCEPT ![i] = to],
           NEW room \in rooms, room \notin excused,
           probe[i].at # "deleting" \/ probe[i].room # room
    PROVE  \E k \in Probes : probe'[k] = [at |-> "deleting", room |-> room]
<1>1. PICK k \in Probes : probe[k] = [at |-> "deleting", room |-> room]
  BY DEF ProbeInv, LeftoversExcused
<1>2. k # i
  BY <1>1
<1> QED BY <1>1, <1>2 DEF ProbeInv, ProbeTypeOK

LEMMA ProbeKeeps ==
    ASSUME ProbeInv, [ProbeNext]_<<clockVars, probeVars>>
    PROVE  ProbeInv'
<1> USE DEF ProbeInv, ProbeTypeOK, ClockTypeOK, clockVars
<1>1. ASSUME NEW i \in Probes, GetHealth(i) PROVE ProbeInv'
  <2>1. /\ probe[i].at = "none"
        /\ probe' = [probe EXCEPT ![i] = [at |-> "listing", room |-> now]]
        /\ UNCHANGED <<now, backs, rooms, excused>>
    BY <1>1 DEF GetHealth, NoProbe
  <2>2. LeftoversExcused'
    BY <2>1, OthersAnswer DEF LeftoversExcused
  <2> QED BY <2>1, <2>2
<1>2. ASSUME NEW i \in Probes, ListRooms(i) PROVE ProbeInv'
  <2>1. /\ probe[i].at = "listing"
        /\ probe' = [probe EXCEPT ![i] = [probe[i] EXCEPT !.at = "creating"]]
        /\ UNCHANGED <<now, backs, rooms, excused>>
    BY <1>2 DEF ListRooms, GoesOn
  <2>2. LeftoversExcused'
    BY <2>1, OthersAnswer DEF LeftoversExcused
  <2> QED BY <2>1, <2>2
<1>3. ASSUME NEW i \in Probes, CreateRoom(i) PROVE ProbeInv'
  <2>1. /\ probe[i].at = "creating"
        /\ rooms' = rooms \cup {probe[i].room}
        /\ UNCHANGED <<now, backs>>
    BY <1>3 DEF CreateRoom
  <2>2. CASE GoesOn(i, "deleting") /\ UNCHANGED excused
    <3>1. probe' = [probe EXCEPT ![i] = [probe[i] EXCEPT !.at = "deleting"]]
      BY <2>2 DEF GoesOn
    <3>2. probe'[i] = [at |-> "deleting", room |-> probe[i].room]
      BY <3>1
    <3>3. LeftoversExcused'
      BY <2>1, <2>2, <3>1, <3>2, OthersAnswer DEF LeftoversExcused
    <3> QED BY <2>1, <3>1, <3>3
  <2>3. CASE Ends(i) /\ excused' = excused \cup {probe[i].room}
    <3>1. probe' = [probe EXCEPT ![i] = NoProbe]
      BY <2>3 DEF Ends
    <3>2. LeftoversExcused'
      BY <2>1, <2>3, <3>1, OthersAnswer DEF LeftoversExcused
    <3> QED BY <2>1, <3>1, <3>2 DEF NoProbe
  <2> QED BY <1>3, <2>2, <2>3 DEF CreateRoom
<1>4. ASSUME NEW i \in Probes, CreateRefused(i) PROVE ProbeInv'
  <2>1. /\ probe[i].at = "creating"
        /\ probe' = [probe EXCEPT ![i] = NoProbe]
        /\ UNCHANGED <<now, backs, rooms, excused>>
    BY <1>4 DEF CreateRefused, Ends
  <2>2. LeftoversExcused'
    BY <2>1, OthersAnswer DEF LeftoversExcused
  <2> QED BY <2>1, <2>2 DEF NoProbe
<1>5. ASSUME NEW i \in Probes, DeleteRoom(i) PROVE ProbeInv'
  <2>1. /\ probe' = [probe EXCEPT ![i] = NoProbe]
        /\ rooms' = rooms \ {probe[i].room}
        /\ excused' = excused \ {probe[i].room}
        /\ UNCHANGED <<now, backs>>
    BY <1>5 DEF DeleteRoom, Without, Ends
  <2>2. LeftoversExcused'
    BY <2>1, OthersAnswer DEF LeftoversExcused
  <2> QED BY <2>1, <2>2 DEF NoProbe
<1>6. ASSUME NEW i \in Probes, DeleteFails(i) PROVE ProbeInv'
  <2>1. /\ probe' = [probe EXCEPT ![i] = NoProbe]
        /\ rooms' = rooms
        /\ excused' = excused \cup ({probe[i].room} \cap rooms)
        /\ UNCHANGED <<now, backs>>
    BY <1>6 DEF DeleteFails, Ends
  <2>2. LeftoversExcused'
    BY <2>1, OthersAnswer DEF LeftoversExcused
  <2> QED BY <2>1, <2>2 DEF NoProbe
<1>7. ASSUME StopProbes PROVE ProbeInv'
  BY <1>7 DEF StopProbes, NoProbe, LeftoversExcused
<1>8. ASSUME NEW room \in rooms, DropRoom(room) PROVE ProbeInv'
  BY <1>8 DEF DropRoom, Without, LeftoversExcused
<1>9. ASSUME Tick \/ SetBack, UNCHANGED probeVars PROVE ProbeInv'
  <2>1. ClockTypeOK'
    BY <1>9 DEF Tick, SetBack
  <2> QED BY <1>9, <2>1 DEF probeVars, LeftoversExcused
<1>10. ASSUME UNCHANGED <<clockVars, probeVars>> PROVE ProbeInv'
  BY <1>10 DEF probeVars, LeftoversExcused
<1> QED
  BY <1>1, <1>2, <1>3, <1>4, <1>5, <1>6, <1>7, <1>8, <1>9, <1>10 DEF ProbeNext, ProbeStep

\* A room is only left on the server by a request that failed or a process that
\* stopped, for any number of probes: whoever of those that share a room deletes
\* it first, the others have nothing left to answer for.
THEOREM ProbesCleanUp == ProbeSpec => []LeftoversExcused
<1>1. ProbeInv /\ [ProbeNext]_<<clockVars, probeVars>> => ProbeInv'
  BY ProbeKeeps
<1>2. ProbeInv => LeftoversExcused
  BY DEF ProbeInv
<1> QED BY <1>1, <1>2, ProbeBase, PTL DEF ProbeSpec

-----------------------------------------------------------------------------
(* The services together *)

\* The services leave the clock to Tick and SetBack, but for a token that is
\* issued while the clock advances: the others see it tick.
LEMMA ClockLeft ==
    /\ MemoryStep => UNCHANGED clockVars
    /\ ClockTypeOK /\ TokensStep => Tick \/ UNCHANGED clockVars
    /\ ProbeStep => UNCHANGED clockVars
<1>1. MemoryStep => UNCHANGED clockVars
  BY DEF MemoryStep, MarkOnline, MarkOffline, RunTimer, OnModuleDestroy
<1>2. ClockTypeOK /\ TokensStep => Tick \/ UNCHANGED clockVars
  <2> SUFFICES ASSUME ClockTypeOK, TokensStep PROVE Tick \/ UNCHANGED clockVars
    OBVIOUS
  <2>1. ASSUME NEW t \in held, NEW later \in {0, 1}, Issue(t, later)
        PROVE  Tick \/ UNCHANGED clockVars
    BY <2>1, ClockAssumption DEF Issue, Tick, clockVars, ClockTypeOK
  <2> QED BY <2>1 DEF TokensStep, LogIn, ConsumeToken, SweepTokens, RestartTokens
<1>3. ProbeStep => UNCHANGED clockVars
  BY DEF ProbeStep, GetHealth, ListRooms, CreateRoom, CreateRefused, DeleteRoom, DeleteFails,
         StopProbes, DropRoom
<1> QED BY <1>1, <1>2, <1>3

\* A step of the services together is a step of each of them, or none.
StepOfEach ==
    /\ [MemoryNext]_memoryVars
    /\ [ServiceNext]_<<clockVars, serviceVars>>
    /\ [GuardNext]_<<clockVars, guardVars>>
    /\ [AccountsNext]_accountsVars
    /\ [OAuthNext]_oauthVars
    /\ [TokensNext]_<<clockVars, tokensVars>>
    /\ [ProbeNext]_<<clockVars, probeVars>>

LEMMA EachStep ==
    ASSUME ClockTypeOK, [ServicesNext]_servicesVars
    PROVE  StepOfEach
<1> USE DEF presenceVars, memoryVars
<1>1. CASE UNCHANGED servicesVars
  BY <1>1 DEF servicesVars, StepOfEach
<1>2. CASE ClockStep
  <2>1. /\ Tick \/ SetBack
        /\ UNCHANGED presenceVars
        /\ UNCHANGED <<serviceVars, guardVars, accountsVars, oauthVars, tokensVars, probeVars>>
    BY <1>2 DEF ClockStep, OthersOf
  <2> QED
    BY <2>1 DEF StepOfEach, MemoryNext, TimePasses, ServiceNext, GuardNext, TokensNext, ProbeNext
<1>3. CASE StepOf(service) /\ OthersOf(service)
  <2>1. CASE service = "presence"
    <3>1. MemoryStep /\ UNCHANGED <<serviceVars, guardVars, accountsVars, oauthVars,
                                    tokensVars, probeVars>>
      BY <1>3, <2>1 DEF StepOf, OthersOf
    <3> QED BY <3>1, ClockLeft DEF StepOfEach, MemoryNext
  <2>2. CASE service = "limiter"
    <3>1. ServiceStep /\ UNCHANGED <<clockVars, presenceVars, guardVars, accountsVars, oauthVars,
                                     tokensVars, probeVars>>
      BY <1>3, <2>2 DEF StepOf, OthersOf
    <3> QED BY <3>1 DEF StepOfEach, ServiceNext
  <2>3. CASE service = "guard"
    <3>1. GuardStep /\ UNCHANGED <<clockVars, presenceVars, serviceVars, accountsVars, oauthVars,
                                   tokensVars, probeVars>>
      BY <1>3, <2>3 DEF StepOf, OthersOf
    <3> QED BY <3>1 DEF StepOfEach, GuardNext
  <2>4. CASE service = "accounts"
    <3>1. AccountsNext /\ UNCHANGED <<clockVars, presenceVars, serviceVars, guardVars, oauthVars,
                                      tokensVars, probeVars>>
      BY <1>3, <2>4 DEF StepOf, OthersOf
    <3> QED BY <3>1 DEF StepOfEach
  <2>5. CASE service = "oauth"
    <3>1. OAuthNext /\ UNCHANGED <<clockVars, presenceVars, serviceVars, guardVars, accountsVars,
                                   tokensVars, probeVars>>
      BY <1>3, <2>5 DEF StepOf, OthersOf
    <3> QED BY <3>1 DEF StepOfEach
  <2>6. CASE service = "tokens"
    <3>1. TokensStep /\ UNCHANGED <<presenceVars, serviceVars, guardVars, accountsVars, oauthVars,
                                    probeVars>>
      BY <1>3, <2>6 DEF StepOf, OthersOf
    <3>2. Tick \/ UNCHANGED clockVars
      BY <3>1, ClockLeft
    <3> QED
      BY <3>1, <3>2 DEF StepOfEach, TokensNext, MemoryNext, TimePasses, ServiceNext, GuardNext,
         ProbeNext
  <2>7. CASE service = "probe"
    <3>1. ProbeStep /\ UNCHANGED <<presenceVars, serviceVars, guardVars, accountsVars, oauthVars,
                                   tokensVars>>
      BY <1>3, <2>7 DEF StepOf, OthersOf
    <3> QED BY <3>1, ClockLeft DEF StepOfEach, ProbeNext
  <2> QED BY <1>3, <2>1, <2>2, <2>3, <2>4, <2>5, <2>6, <2>7 DEF StepOf
<1> QED BY <1>1, <1>2, <1>3 DEF ServicesNext

\* What the whole lets a service do, the service does: its share of a behaviour
\* of the whole is a behaviour of its own.  That the others stay as they are is
\* how OthersOf puts the whole together, and nothing that is shown here.
LEMMA SharesOfTheWhole ==
    ServicesSpec => /\ MemorySpec /\ ServiceSpec /\ GuardSpec /\ AccountsSpec
                    /\ OAuthSpec /\ TokensSpec /\ ProbeSpec
<1>1. ServicesInit => /\ MemoryInit /\ ClockInit /\ ServiceInit /\ GuardInit
                      /\ AccountsInit /\ OAuthInit /\ TokensInit /\ ProbeInit
  BY DEF ServicesInit, MemoryInit
<1>2. ClockTypeOK /\ [ServicesNext]_servicesVars =>
         /\ [MemoryNext]_memoryVars
         /\ [ServiceNext]_<<clockVars, serviceVars>>
         /\ [GuardNext]_<<clockVars, guardVars>>
         /\ [AccountsNext]_accountsVars
         /\ [OAuthNext]_oauthVars
         /\ [TokensNext]_<<clockVars, tokensVars>>
         /\ [ProbeNext]_<<clockVars, probeVars>>
  BY EachStep DEF StepOfEach
<1>3. ClockInit => ClockTypeOK
  BY DEF ClockInit, ClockTypeOK
<1>4. ClockTypeOK /\ [GuardNext]_<<clockVars, guardVars>> => ClockTypeOK'
  BY DEF ClockTypeOK, GuardNext, clockVars, Tick, SetBack
<1> QED
  BY <1>1, <1>2, <1>3, <1>4, PTL DEF ServicesSpec, MemorySpec, ServiceSpec, GuardSpec,
     AccountsSpec, OAuthSpec, TokensSpec, ProbeSpec

\* Conversely the whole lets the service it follows do whatever it does alone:
\* following one at a time, TLC misses no step of any.
StepAlone ==
    \/ service = "presence" /\ [MemoryNext]_memoryVars
    \/ service = "limiter" /\ [ServiceNext]_<<clockVars, serviceVars>>
    \/ service = "guard" /\ [GuardNext]_<<clockVars, guardVars>>
    \/ service = "accounts" /\ UNCHANGED clockVars /\ [AccountsNext]_accountsVars
    \/ service = "oauth" /\ UNCHANGED clockVars /\ [OAuthNext]_oauthVars
    \/ service = "tokens" /\ [TokensNext]_<<clockVars, tokensVars>>
    \/ service = "probe" /\ [ProbeNext]_<<clockVars, probeVars>>

LEMMA NothingLost ==
    ASSUME service' = service, OthersOf(service), StepAlone
    PROVE  [ServicesNext]_servicesVars
<1> USE DEF memoryVars, presenceVars
<1>1. CASE service = "presence" /\ [MemoryNext]_memoryVars
  BY <1>1 DEF OthersOf, StepOf, ClockStep, ServicesNext, servicesVars, MemoryNext, TimePasses, memoryVars
<1>2. CASE service = "limiter" /\ [ServiceNext]_<<clockVars, serviceVars>>
  BY <1>2 DEF OthersOf, StepOf, ClockStep, ServicesNext, servicesVars, ServiceNext
<1>3. CASE service = "guard" /\ [GuardNext]_<<clockVars, guardVars>>
  BY <1>3 DEF OthersOf, StepOf, ClockStep, ServicesNext, servicesVars, GuardNext
<1>4. CASE service = "accounts" /\ UNCHANGED clockVars /\ [AccountsNext]_accountsVars
  BY <1>4 DEF OthersOf, StepOf, ClockStep, ServicesNext, servicesVars
<1>5. CASE service = "oauth" /\ UNCHANGED clockVars /\ [OAuthNext]_oauthVars
  BY <1>5 DEF OthersOf, StepOf, ClockStep, ServicesNext, servicesVars
<1>6. CASE service = "tokens" /\ [TokensNext]_<<clockVars, tokensVars>>
  BY <1>6 DEF OthersOf, StepOf, ClockStep, ServicesNext, servicesVars, TokensNext
<1>7. CASE service = "probe" /\ [ProbeNext]_<<clockVars, probeVars>>
  BY <1>7 DEF OthersOf, StepOf, ClockStep, ServicesNext, servicesVars, ProbeNext
<1> QED BY <1>1, <1>2, <1>3, <1>4, <1>5, <1>6, <1>7 DEF StepAlone

\* The services' tables, buckets and tokens keep their shape.
THEOREM ServicesTypeCorrect == ServicesSpec => []ServicesTypeOK
<1>1. TokensInv => TokensTypeOK
  BY DEF TokensInv
<1> QED
  BY <1>1, SharesOfTheWhole, OneTimer, ServiceTypeCorrect, AccountsTypeCorrect,
     TokensInvHolds, PTL DEF ServicesTypeOK
=============================================================================
