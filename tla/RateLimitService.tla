--------------------------- MODULE RateLimitService ---------------------------
(***************************************************************************)
(* RateLimitService (src/security/rate-limit.service.ts): token buckets    *)
(* that are refilled when they are used and dropped by a sweep when they   *)
(* have not been used for a while.                                         *)
(*                                                                         *)
(* A key stands for a scope with a key.  Tokens, costs and rates are       *)
(* numbers of one small unit: the code's fractions are exact here.         *)
(*                                                                         *)
(* "wrong" marks plausible bugs that no action uses.                       *)
(***************************************************************************)
EXTENDS Clock

CONSTANTS
    Keys,
    Scopes,
    ScopeOf,     \* a key's scope
    Capacity,    \* per scope: burstSocket, burstUser, burstIp
    Rate,        \* per scope: socketPerSecond, userPerSecond, ipPerSecond
    Ttl,         \* when a bucket is swept: ttlMs
    Costs

VARIABLES
    known,       \* keys with a bucket
    tokens,      \* Bucket.tokens
    updatedAt,   \* Bucket.updatedAt
    answer,      \* what the last call did: acquire's answer, or reset
    retryAt,     \* history: when a refused key was told to try again ...
    retryCost,   \* ... for this cost; 0 when it was not refused
    spent,       \* history: tokens a key was allowed ...
    since        \* ... since this moment

serviceVars == <<known, tokens, updatedAt, answer, retryAt, retryCost, spent, since>>

ASSUME ServiceAssumption ==
    /\ ScopeOf \in [Keys -> Scopes]
    /\ Capacity \in [Scopes -> Nat]
    /\ Rate \in [Scopes -> Nat \ {0}]
    /\ Ttl \in Nat
    /\ Costs \subseteq Nat \ {0}

\* The configuration refills a bucket before it is swept.  The environment's
\* schema does not ask for it; the defaults do it several times over.
ASSUME RefilledBeforeSweep == \A sc \in Scopes : Capacity[sc] <= Ttl * Rate[sc]

\* limitsFor
Cap(k) == Capacity[ScopeOf[k]]
PerTick(k) == Rate[ScopeOf[k]]

-----------------------------------------------------------------------------
Elapsed(k) == IF updatedAt[k] < now THEN now - updatedAt[k] ELSE 0

\* What acquireDetailed would find; getOrCreateBucket creates a full bucket.
LevelUncapped(k) ==                                                    \* wrong
    IF k \in known THEN tokens[k] + Elapsed(k) * PerTick(k) ELSE Cap(k)
Level(k) ==
    IF k \in known /\ tokens[k] + Elapsed(k) * PerTick(k) <= Cap(k)
    THEN tokens[k] + Elapsed(k) * PerTick(k)
    ELSE Cap(k)

\* Math.ceil(deficit / rate)
RetryAfter(k, cost) == (cost - Level(k) + PerTick(k) - 1) \div PerTick(k)

ServiceInit ==
    /\ known = {}
    /\ tokens = [k \in Keys |-> 0]
    /\ updatedAt = [k \in Keys |-> 0]
    /\ answer = "none"
    /\ retryAt = [k \in Keys |-> 0]
    /\ retryCost = [k \in Keys |-> 0]
    /\ spent = [k \in Keys |-> 0]
    /\ since = [k \in Keys |-> 0]

\* acquireDetailed, with enough tokens ...
AllowWithoutTime(k, cost) ==                                           \* wrong
    /\ cost <= Level(k)
    /\ known' = known \cup {k}
    /\ tokens' = [tokens EXCEPT ![k] = Level(k) - cost]
    /\ updatedAt' = IF k \in known THEN updatedAt ELSE [updatedAt EXCEPT ![k] = now]
    /\ answer' = "allowed"
    /\ spent' = [spent EXCEPT ![k] = @ + cost]
    /\ retryCost' = [retryCost EXCEPT ![k] = 0]
    /\ retryAt' = [retryAt EXCEPT ![k] = 0]
    /\ UNCHANGED since
Allow(k, cost) ==
    /\ cost <= Level(k)
    /\ known' = known \cup {k}
    /\ tokens' = [tokens EXCEPT ![k] = Level(k) - cost]
    /\ updatedAt' = [updatedAt EXCEPT ![k] = now]
    /\ answer' = "allowed"
    /\ spent' = [spent EXCEPT ![k] = @ + cost]
    /\ retryCost' = [retryCost EXCEPT ![k] = 0]
    /\ retryAt' = [retryAt EXCEPT ![k] = 0]
    /\ UNCHANGED since

\* ... and without.
RefuseAndLose(k, cost) ==                                              \* wrong
    /\ Level(k) < cost
    /\ known' = known \cup {k}
    /\ tokens' = [tokens EXCEPT ![k] = IF k \in known THEN @ ELSE Cap(k)]
    /\ updatedAt' = [updatedAt EXCEPT ![k] = now]
    /\ answer' = "refused"
    /\ retryCost' = [retryCost EXCEPT ![k] = cost]
    /\ retryAt' = [retryAt EXCEPT ![k] = now + RetryAfter(k, cost)]
    /\ UNCHANGED <<spent, since>>
Refuse(k, cost) ==
    /\ Level(k) < cost
    /\ known' = known \cup {k}
    /\ tokens' = [tokens EXCEPT ![k] = Level(k)]
    /\ updatedAt' = [updatedAt EXCEPT ![k] = now]
    /\ answer' = "refused"
    /\ retryCost' = [retryCost EXCEPT ![k] = cost]
    /\ retryAt' = [retryAt EXCEPT ![k] = now + RetryAfter(k, cost)]
    /\ UNCHANGED <<spent, since>>

SweepUsed ==                                                           \* wrong
    /\ known' = {k \in known : now <= updatedAt[k]}
    /\ UNCHANGED <<tokens, updatedAt, answer, retryAt, retryCost, spent, since>>
Sweep ==
    /\ known' = {k \in known : now <= updatedAt[k] + Ttl}
    /\ UNCHANGED <<tokens, updatedAt, answer, retryAt, retryCost, spent, since>>

\* reset: everything, a scope or one key of it.
Resettable ==
    {Keys} \cup {{k \in Keys : ScopeOf[k] = sc} : sc \in Scopes} \cup {{k} : k \in Keys}

Reset(keys) ==
    /\ known' = known \ keys
    /\ spent' = [k \in Keys |-> IF k \in keys THEN 0 ELSE spent[k]]
    /\ since' = [k \in Keys |-> IF k \in keys THEN Age ELSE since[k]]
    /\ answer' = "reset"
    /\ UNCHANGED <<tokens, updatedAt, retryAt, retryCost>>

\* History: a key's budget is watched from now on.
Watch(k) ==
    /\ spent' = [spent EXCEPT ![k] = 0]
    /\ since' = [since EXCEPT ![k] = Age]
    /\ UNCHANGED <<known, tokens, updatedAt, answer, retryAt, retryCost>>

ServiceStep ==
    \/ \E k \in Keys, cost \in Costs : Allow(k, cost) \/ Refuse(k, cost)
    \/ Sweep
    \/ \E keys \in Resettable : Reset(keys)
    \/ \E k \in Keys : Watch(k)

ServiceNext ==
    \/ ServiceStep /\ UNCHANGED clockVars
    \/ (Tick \/ SetBack) /\ UNCHANGED serviceVars

ServiceSpec == ClockInit /\ ServiceInit /\ [][ServiceNext]_<<clockVars, serviceVars>>

-----------------------------------------------------------------------------
(* Properties *)

\* The shape of the state: no bucket ever holds more than its capacity.
ServiceTypeOK ==
    /\ ClockTypeOK
    /\ known \subseteq Keys
    /\ tokens \in [Keys -> Nat]
    /\ \A k \in known : tokens[k] <= Cap(k)
    /\ updatedAt \in [Keys -> Nat]
    /\ answer \in {"none", "allowed", "refused", "reset"}
    /\ retryAt \in [Keys -> Nat]
    /\ retryCost \in [Keys -> Nat]
    /\ spent \in [Keys -> Nat]
    /\ since \in [Keys -> Nat]

\* In any period, a key is allowed no more than a full bucket and what its
\* rate earns in the time that really passed, although buckets are dropped and
\* created full again and the clock is set back.
WithinBudget == \A k \in Keys : spent[k] <= Cap(k) + (Age - since[k]) * PerTick(k)

\* A caller that waits as long as acquireDetailed told it, by the clock, and
\* is alone in using its key, is allowed what it was refused, if the bucket
\* can hold as much.
RetryAfterSuffices ==
    \A k \in Keys :
        /\ retryCost[k] # 0
        /\ retryCost[k] <= Cap(k)
        /\ retryAt[k] <= now
        => retryCost[k] <= Level(k)

\* Refilling lazily and sweeping cannot be told from buckets that are always
\* there and are refilled all the time.
Always == INSTANCE TokenBucket WITH
    Full <- [k \in Keys |-> Cap(k)], Refill <- [k \in Keys |-> PerTick(k)],
    level <- [k \in Keys |-> Level(k)], exact <- (backs = 0)
ImplementsTokenBucket == Always!Spec
=============================================================================
