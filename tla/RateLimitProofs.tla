--------------------------- MODULE RateLimitProofs ---------------------------
(***************************************************************************)
(* Theorems about RateLimitService, for any keys, scopes, costs and        *)
(* limits that refill a bucket before it is swept, and about               *)
(* RateLimitGuard, for any sockets, allowance and window.                  *)
(***************************************************************************)
EXTENDS RateLimitService, RateLimitGuard, TLAPS

-----------------------------------------------------------------------------
(* Arithmetic of what a bucket earns *)

LEMMA Products ==
    ASSUME NEW a \in Nat, NEW r \in Nat
    PROVE  /\ a * r \in Nat /\ 0 * r = 0
           /\ (a + 1) * r = a * r + r
  OBVIOUS

LEMMA ProductsGrow ==
    ASSUME NEW a \in Nat, NEW b \in Nat, NEW r \in Nat, a <= b
    PROVE  a * r <= b * r
<1>1. PICK d \in Nat : b = a + d
  <2>1. b - a \in Nat /\ b = a + (b - a)
    OBVIOUS
  <2> QED BY <2>1
<1>2. b * r = a * r + d * r
  BY <1>1
<1>3. a * r \in Nat /\ d * r \in Nat
  BY <1>1, Products
<1> QED BY <1>2, <1>3

\* The tokens of a key's limits.
LEMMA Limits ==
    ASSUME NEW k \in Keys
    PROVE  Cap(k) \in Nat /\ PerTick(k) \in Nat \ {0} /\ Cap(k) <= Ttl * PerTick(k)
  BY ServiceAssumption, RefilledBeforeSweep DEF Cap, PerTick

\* What a bucket has earned since it was used.
Earned(k) == Elapsed(k) * PerTick(k)

LEMMA LevelBounds ==
    ASSUME ServiceTypeOK, NEW k \in Keys
    PROVE  /\ Elapsed(k) \in Nat /\ Earned(k) \in Nat
           /\ Level(k) \in Nat /\ Level(k) <= Cap(k)
           /\ k \in known => tokens[k] <= Level(k)
<1>1. Elapsed(k) \in Nat
  BY DEF Elapsed, ServiceTypeOK, ClockTypeOK
<1>2. Earned(k) \in Nat
  BY <1>1, Limits, Products DEF Earned
<1>3. Level(k) = IF k \in known /\ tokens[k] + Earned(k) <= Cap(k)
                 THEN tokens[k] + Earned(k) ELSE Cap(k)
  BY DEF Level, Earned
<1> QED BY <1>1, <1>2, <1>3, Limits DEF ServiceTypeOK

-----------------------------------------------------------------------------
(* What the steps do to the levels *)

\* A bucket that was just used holds its tokens.
LEMMA LevelWhenUsed ==
    ASSUME NEW k \in Keys, k \in known', updatedAt'[k] = now', now' \in Nat,
           tokens'[k] \in Nat, tokens'[k] <= Cap(k)
    PROVE  Level(k)' = tokens'[k]
<1>1. Elapsed(k)' = 0
  BY DEF Elapsed
<1>2. Elapsed(k)' * PerTick(k) = 0
  BY <1>1, Limits, Products
<1> QED BY <1>2 DEF Level, PerTick, Cap

LEMMA Ceiling ==
    ASSUME NEW a \in Nat, NEW r \in Nat \ {0}
    PROVE  /\ (a + r - 1) \div r \in Nat
           /\ a <= ((a + r - 1) \div r) * r
  OBVIOUS

LEMMA RetryAfterBound ==
    ASSUME ServiceTypeOK, NEW k \in Keys, NEW cost \in Costs, Level(k) < cost
    PROVE  RetryAfter(k, cost) \in Nat /\ cost <= Level(k) + RetryAfter(k, cost) * PerTick(k)
<1>1. cost \in Nat /\ Level(k) \in Nat /\ PerTick(k) \in Nat \ {0}
  BY LevelBounds, Limits, ServiceAssumption
<1>2. PICK d \in Nat : d = cost - Level(k)
  BY <1>1
<1>3. RetryAfter(k, cost) = (d + PerTick(k) - 1) \div PerTick(k)
  BY <1>2 DEF RetryAfter
<1>4. RetryAfter(k, cost) \in Nat /\ d <= RetryAfter(k, cost) * PerTick(k)
  BY <1>1, <1>3, Ceiling
<1>5. RetryAfter(k, cost) * PerTick(k) \in Nat
  BY <1>1, <1>4, Products
<1> QED BY <1>1, <1>2, <1>4, <1>5

\* acquireDetailed changes the level of its key only, and by the cost.
LEMMA AcquireLevel ==
    ASSUME ServiceTypeOK, NEW k \in Keys, NEW cost \in Costs,
           Allow(k, cost) \/ Refuse(k, cost), UNCHANGED clockVars
    PROVE  /\ ServiceTypeOK'
           /\ Allow(k, cost) => Level(k)' = Level(k) - cost
           /\ Refuse(k, cost) => Level(k)' = Level(k)
           /\ \A i \in Keys : i # k => Level(i)' = Level(i)
<1>1. /\ cost \in Nat \ {0} /\ now \in Nat /\ now' = now
      /\ Level(k) \in Nat /\ Level(k) <= Cap(k) /\ Cap(k) \in Nat
  BY LevelBounds, Limits, ServiceAssumption DEF ServiceTypeOK, ClockTypeOK, clockVars
<1>2. PICK n \in Nat : /\ n <= Cap(k)
                       /\ known' = known \cup {k}
                       /\ tokens' = [tokens EXCEPT ![k] = n]
                       /\ updatedAt' = [updatedAt EXCEPT ![k] = now]
                       /\ Allow(k, cost) => n = Level(k) - cost
                       /\ Refuse(k, cost) => n = Level(k)
  <2>1. CASE Allow(k, cost)
    <3>1. Level(k) - cost \in Nat /\ Level(k) - cost <= Cap(k) /\ ~Refuse(k, cost)
      BY <1>1, <2>1 DEF Allow, Refuse
    <3> QED BY <2>1, <3>1 DEF Allow
  <2>2. CASE Refuse(k, cost)
    <3>1. ~Allow(k, cost)
      BY <1>1, <2>2 DEF Allow, Refuse
    <3> QED BY <1>1, <2>2, <3>1 DEF Refuse
  <2> QED BY <2>1, <2>2
<1>3. Level(k)' = n
  BY <1>1, <1>2, LevelWhenUsed DEF ServiceTypeOK
<1>4. \A i \in Keys : i # k => Level(i)' = Level(i)
  BY <1>1, <1>2 DEF Level, Elapsed, PerTick, Cap, ServiceTypeOK
<1>5. ServiceTypeOK'
  <2>1. /\ ClockTypeOK' /\ known' \subseteq Keys /\ tokens' \in [Keys -> Nat]
        /\ updatedAt' \in [Keys -> Nat]
        /\ \A i \in known' : tokens'[i] <= Cap(i)
    BY <1>1, <1>2 DEF ServiceTypeOK, ClockTypeOK, clockVars
  <2>2. CASE Allow(k, cost)
    BY <1>1, <2>1, <2>2 DEF Allow, ServiceTypeOK, Cap
  <2>3. CASE Refuse(k, cost)
    <3>1. RetryAfter(k, cost) \in Nat
      BY <2>3, RetryAfterBound DEF Refuse
    <3> QED BY <1>1, <2>1, <2>3, <3>1 DEF Refuse, ServiceTypeOK, Cap
  <2> QED BY <2>2, <2>3
<1> QED BY <1>2, <1>3, <1>4, <1>5

LEMMA SweepLevel ==
    ASSUME ServiceTypeOK, Sweep, now' = now, NEW k \in Keys
    PROVE  Level(k)' = Level(k)
<1>1. UNCHANGED <<tokens, updatedAt, now>>
  BY DEF Sweep
<1>2. CASE k \in known' \/ k \notin known
  BY <1>1, <1>2 DEF Sweep, Level, Elapsed
<1>3. CASE k \in known /\ k \notin known'
  <2>1. Ttl \in Nat /\ Elapsed(k) \in Nat /\ Ttl <= Elapsed(k)
    BY <1>3, ServiceAssumption DEF Sweep, Elapsed, ServiceTypeOK, ClockTypeOK
  <2>2. Ttl * PerTick(k) <= Earned(k) /\ Ttl * PerTick(k) \in Nat
    BY <2>1, Limits, ProductsGrow, Products DEF Earned
  <2>3. Earned(k) \in Nat /\ Cap(k) \in Nat /\ Cap(k) <= Earned(k)
    BY <2>2, Limits, LevelBounds
  <2>4. Level(k) = Cap(k)
    BY <2>3, <1>3 DEF Level, Earned, ServiceTypeOK
  <2>5. Level(k)' = Cap(k)
    BY <1>3 DEF Level, Cap
  <2> QED BY <2>4, <2>5
<1> QED BY <1>2, <1>3

LEMMA TickLevel ==
    ASSUME ServiceTypeOK, Tick, UNCHANGED serviceVars, NEW k \in Keys
    PROVE  /\ Level(k)' \in Nat /\ Level(k)' <= Cap(k)
           /\ Level(k) <= Level(k)'
           /\ Level(k)' <= Level(k) + PerTick(k)
           /\ updatedAt[k] <= now \/ k \notin known =>
                 Level(k)' = IF Level(k) + PerTick(k) <= Cap(k)
                             THEN Level(k) + PerTick(k) ELSE Cap(k)
<1>1. now \in Nat /\ now' = now + 1 /\ UNCHANGED <<known, tokens, updatedAt>>
  BY DEF Tick, serviceVars, ServiceTypeOK, ClockTypeOK
<1>2. /\ Cap(k) \in Nat /\ PerTick(k) \in Nat /\ Earned(k) \in Nat /\ Elapsed(k) \in Nat
      /\ updatedAt[k] \in Nat /\ (k \in known => tokens[k] \in Nat /\ tokens[k] <= Cap(k))
  BY Limits, LevelBounds DEF ServiceTypeOK
<1>3. /\ Level(k) = IF k \in known /\ tokens[k] + Earned(k) <= Cap(k)
                    THEN tokens[k] + Earned(k) ELSE Cap(k)
      /\ Level(k)' = IF k \in known /\ tokens[k] + Earned(k)' <= Cap(k)
                     THEN tokens[k] + Earned(k)' ELSE Cap(k)
  BY <1>1 DEF Level, Earned, PerTick, Cap
<1>4. CASE updatedAt[k] <= now
  <2>1. Elapsed(k)' = Elapsed(k) + 1
    BY <1>1, <1>2, <1>4 DEF Elapsed
  <2>2. Earned(k)' = Earned(k) + PerTick(k)
    BY <2>1, <1>2, Products DEF Earned, PerTick
  <2> QED BY <1>2, <1>3, <1>4, <2>2
<1>5. CASE ~(updatedAt[k] <= now)
  <2>1. Elapsed(k)' = Elapsed(k)
    BY <1>1, <1>2, <1>5 DEF Elapsed
  <2>2. Earned(k)' = Earned(k)
    BY <2>1 DEF Earned, PerTick
  <2> QED BY <1>2, <1>3, <1>5, <2>2
<1> QED BY <1>4, <1>5

LEMMA SetBackLevel ==
    ASSUME ServiceTypeOK, SetBack, UNCHANGED serviceVars, NEW k \in Keys
    PROVE  Level(k)' \in Nat /\ Level(k)' <= Level(k)
<1>1. now \in Nat /\ now > 0 /\ now' = now - 1 /\ UNCHANGED <<known, tokens, updatedAt>>
  BY DEF SetBack, serviceVars, ServiceTypeOK, ClockTypeOK
<1>2. /\ Cap(k) \in Nat /\ PerTick(k) \in Nat /\ Earned(k) \in Nat /\ Elapsed(k) \in Nat
      /\ updatedAt[k] \in Nat /\ (k \in known => tokens[k] \in Nat /\ tokens[k] <= Cap(k))
  BY Limits, LevelBounds DEF ServiceTypeOK
<1>3. Elapsed(k)' \in Nat /\ Elapsed(k)' <= Elapsed(k)
  BY <1>1, <1>2 DEF Elapsed
<1>4. Earned(k)' \in Nat /\ Earned(k)' <= Earned(k)
  BY <1>2, <1>3, Products, ProductsGrow DEF Earned, PerTick
<1> QED BY <1>1, <1>2, <1>4 DEF Level, Earned, PerTick, Cap

LEMMA ResetLevel ==
    ASSUME ServiceTypeOK, NEW keys \in Resettable, Reset(keys), UNCHANGED clockVars
    PROVE  /\ ServiceTypeOK'
           /\ \A k \in Keys : Level(k)' = IF k \in keys THEN Cap(k) ELSE Level(k)
<1>1. UNCHANGED <<now, tokens, updatedAt>> /\ known' = known \ keys
  BY DEF Reset, clockVars
<1>2. \A k \in Keys : Level(k)' = IF k \in keys THEN Cap(k) ELSE Level(k)
  BY <1>1 DEF Level, Elapsed, PerTick, Cap
<1>3. Age \in Nat
  BY DEF ServiceTypeOK, ClockTypeOK, Age
<1>4. ServiceTypeOK'
  BY <1>3 DEF Reset, ServiceTypeOK, ClockTypeOK, clockVars, Cap
<1> QED BY <1>2, <1>4

LEMMA SweepType ==
    ASSUME ServiceTypeOK, Sweep, UNCHANGED clockVars
    PROVE  ServiceTypeOK'
  BY DEF Sweep, ServiceTypeOK, ClockTypeOK, clockVars, Cap

LEMMA WatchLevel ==
    ASSUME ServiceTypeOK, NEW k \in Keys, Watch(k), UNCHANGED clockVars
    PROVE  /\ ServiceTypeOK'
           /\ \A i \in Keys : Level(i)' = Level(i)
<1>1. UNCHANGED <<now, known, tokens, updatedAt>>
  BY DEF Watch, clockVars
<1>2. \A i \in Keys : Level(i)' = Level(i)
  BY <1>1 DEF Level, Elapsed, PerTick, Cap
<1>3. Age \in Nat
  BY DEF ServiceTypeOK, ClockTypeOK, Age
<1>4. ServiceTypeOK'
  BY <1>3 DEF Watch, ServiceTypeOK, ClockTypeOK, clockVars, Cap
<1> QED BY <1>2, <1>4

LEMMA ClockType ==
    ASSUME ServiceTypeOK, Tick \/ SetBack, UNCHANGED serviceVars
    PROVE  ServiceTypeOK'
  BY DEF Tick, SetBack, ServiceTypeOK, ClockTypeOK, serviceVars, Cap

-----------------------------------------------------------------------------
(* The invariant *)

\* What a key was allowed and what its bucket holds are covered by its budget.
BudgetInv ==
    \A k \in Keys :
        /\ since[k] <= Age
        /\ spent[k] + Level(k) <= Cap(k) + (Age - since[k]) * PerTick(k)

\* At the time a key was told, what its bucket holds will be enough.
RetryInv ==
    \A k \in known :
        retryCost[k] # 0 =>
            /\ updatedAt[k] <= retryAt[k]
            /\ retryCost[k] <= tokens[k] + (retryAt[k] - updatedAt[k]) * PerTick(k)

\* Buckets are from the future only after the clock was set back.
FreshInv == backs = 0 => \A k \in known : updatedAt[k] <= now

ServiceInv == ServiceTypeOK /\ BudgetInv /\ RetryInv /\ FreshInv

LEMMA ServiceBase == ClockInit /\ ServiceInit => ServiceInv
<1> SUFFICES ASSUME ClockInit, ServiceInit PROVE ServiceInv
  OBVIOUS
<1>1. ServiceTypeOK /\ RetryInv /\ FreshInv
  BY DEF ClockInit, ServiceInit, ServiceTypeOK, ClockTypeOK, RetryInv, FreshInv
<1>2. BudgetInv
  <2> SUFFICES ASSUME NEW k \in Keys
               PROVE  /\ since[k] <= Age
                      /\ spent[k] + Level(k) <= Cap(k) + (Age - since[k]) * PerTick(k)
    BY DEF BudgetInv
  <2>1. since[k] = 0 /\ Age = 0 /\ spent[k] = 0 /\ Level(k) = Cap(k)
    BY DEF ClockInit, ServiceInit, Age, Level
  <2> QED BY <2>1, Limits, Products
<1> QED BY <1>1, <1>2 DEF ServiceInv

LEMMA AllowInv ==
    ASSUME ServiceInv, NEW k \in Keys, NEW cost \in Costs, Allow(k, cost),
           UNCHANGED clockVars
    PROVE  ServiceInv'
<1>1. /\ ServiceTypeOK /\ ServiceTypeOK' /\ cost \in Nat /\ cost <= Level(k)
      /\ Level(k)' = Level(k) - cost
      /\ \A i \in Keys : i # k => Level(i)' = Level(i)
      /\ \A i \in Keys : Level(i) \in Nat
  BY AcquireLevel, LevelBounds, ServiceAssumption DEF ServiceInv, Allow
<1>2. /\ Age' = Age /\ UNCHANGED <<now, backs, since>>
      /\ known' = known \cup {k}
      /\ updatedAt' = [updatedAt EXCEPT ![k] = now]
      /\ spent' = [spent EXCEPT ![k] = spent[k] + cost]
      /\ retryCost' = [retryCost EXCEPT ![k] = 0]
      /\ retryAt' = [retryAt EXCEPT ![k] = 0]
      /\ \A i \in Keys : i # k => tokens'[i] = tokens[i]
  BY <1>1 DEF Allow, clockVars, Age, ServiceTypeOK
<1>3. \A i \in Keys : spent'[i] + Level(i)' = spent[i] + Level(i)
  BY <1>1, <1>2 DEF ServiceTypeOK
<1>4. BudgetInv'
  BY <1>2, <1>3 DEF ServiceInv, BudgetInv, Cap, PerTick
<1>5. RetryInv'
  BY <1>1, <1>2 DEF ServiceInv, RetryInv, ServiceTypeOK, PerTick
<1>6. FreshInv'
  BY <1>1, <1>2 DEF ServiceInv, FreshInv, ServiceTypeOK, ClockTypeOK
<1> QED BY <1>1, <1>4, <1>5, <1>6 DEF ServiceInv

LEMMA RefuseInv ==
    ASSUME ServiceInv, NEW k \in Keys, NEW cost \in Costs, Refuse(k, cost),
           UNCHANGED clockVars
    PROVE  ServiceInv'
<1>1. /\ ServiceTypeOK /\ ServiceTypeOK' /\ cost \in Nat /\ Level(k) < cost
      /\ \A i \in Keys : Level(i)' = Level(i)
      /\ \A i \in Keys : Level(i) \in Nat
  BY AcquireLevel, LevelBounds, ServiceAssumption DEF ServiceInv, Refuse
<1>2. /\ Age' = Age /\ UNCHANGED <<now, backs, since, spent>>
      /\ known' = known \cup {k}
      /\ tokens' = [tokens EXCEPT ![k] = Level(k)]
      /\ updatedAt' = [updatedAt EXCEPT ![k] = now]
      /\ retryCost' = [retryCost EXCEPT ![k] = cost]
      /\ retryAt' = [retryAt EXCEPT ![k] = now + RetryAfter(k, cost)]
  BY DEF Refuse, clockVars, Age
<1>3. BudgetInv'
  BY <1>1, <1>2 DEF ServiceInv, BudgetInv, Cap, PerTick
<1>4. RetryAfter(k, cost) \in Nat /\ cost <= Level(k) + RetryAfter(k, cost) * PerTick(k)
  BY <1>1, RetryAfterBound
<1>5. /\ tokens'[k] = Level(k) /\ updatedAt'[k] = now /\ retryCost'[k] = cost
      /\ retryAt'[k] = now + RetryAfter(k, cost)
      /\ \A i \in Keys : i # k =>
            /\ tokens'[i] = tokens[i] /\ updatedAt'[i] = updatedAt[i]
            /\ retryCost'[i] = retryCost[i] /\ retryAt'[i] = retryAt[i]
  BY <1>2 DEF ServiceTypeOK, ServiceInv
<1>6. RetryInv'
  <2> SUFFICES ASSUME NEW i \in known', retryCost'[i] # 0
               PROVE  /\ updatedAt'[i] <= retryAt'[i]
                      /\ retryCost'[i] <= tokens'[i] + (retryAt'[i] - updatedAt'[i]) * PerTick(i)
    BY DEF RetryInv, PerTick
  <2>1. CASE i = k
    <3>1. now \in Nat /\ (now + RetryAfter(k, cost)) - now = RetryAfter(k, cost)
      BY <1>1, <1>4 DEF ServiceTypeOK, ClockTypeOK
    <3> QED BY <1>4, <1>5, <2>1, <3>1
  <2>2. CASE i # k
    BY <1>2, <1>5, <2>2 DEF ServiceInv, RetryInv, ServiceTypeOK
  <2> QED BY <2>1, <2>2
<1>7. FreshInv'
  BY <1>1, <1>2 DEF ServiceInv, FreshInv, ServiceTypeOK, ClockTypeOK
<1> QED BY <1>1, <1>3, <1>6, <1>7 DEF ServiceInv

LEMMA RenewInv ==
    ASSUME ServiceInv, UNCHANGED clockVars,
           \/ Sweep
           \/ \E keys \in Resettable : Reset(keys)
           \/ \E k \in Keys : Watch(k)
    PROVE  ServiceInv'
<1>1. Age' = Age /\ UNCHANGED <<now, backs>> /\ Age \in Nat
  BY DEF clockVars, Age, ServiceInv, ServiceTypeOK, ClockTypeOK
<1>2. /\ known' \subseteq known
      /\ UNCHANGED <<tokens, updatedAt, retryAt, retryCost>>
  BY DEF Sweep, Reset, Watch
<1>3. RetryInv' /\ FreshInv'
  BY <1>1, <1>2 DEF ServiceInv, RetryInv, FreshInv, PerTick
<1>4. ServiceTypeOK'
  BY SweepType, ResetLevel, WatchLevel DEF ServiceInv
<1> DEFINE Same(k) == Level(k)' = Level(k) /\ spent'[k] = spent[k] /\ since'[k] = since[k]
           Renewed(k) == Level(k)' <= Cap(k) /\ spent'[k] = 0 /\ since'[k] = Age
<1>5. \A k \in Keys : Same(k) \/ Renewed(k)
  <2>1. CASE Sweep
    <3>1. \A k \in Keys : Level(k)' = Level(k)
      BY <1>1, <2>1, SweepLevel DEF ServiceInv
    <3> QED BY <2>1, <3>1 DEF Sweep
  <2>2. ASSUME NEW keys \in Resettable, Reset(keys)
        PROVE  \A k \in Keys : Same(k) \/ Renewed(k)
    <3>1. \A k \in Keys : Level(k)' = IF k \in keys THEN Cap(k) ELSE Level(k)
      BY <2>2, ResetLevel DEF ServiceInv
    <3>2. \A k \in Keys : /\ spent'[k] = IF k \in keys THEN 0 ELSE spent[k]
                          /\ since'[k] = IF k \in keys THEN Age ELSE since[k]
      BY <2>2 DEF Reset
    <3> QED BY <3>1, <3>2, Limits
  <2>3. ASSUME NEW i \in Keys, Watch(i)
        PROVE  \A k \in Keys : Same(k) \/ Renewed(k)
    <3>1. \A k \in Keys : Level(k)' = Level(k) /\ Level(k) <= Cap(k)
      BY <2>3, WatchLevel, LevelBounds DEF ServiceInv
    <3>2. \A k \in Keys : /\ spent'[k] = IF k = i THEN 0 ELSE spent[k]
                          /\ since'[k] = IF k = i THEN Age ELSE since[k]
      BY <2>3 DEF Watch, ServiceInv, ServiceTypeOK
    <3> QED BY <3>1, <3>2
  <2> QED BY <2>1, <2>2, <2>3
<1>6. BudgetInv'
  <2> SUFFICES ASSUME NEW k \in Keys
               PROVE  /\ since'[k] <= Age
                      /\ spent'[k] + Level(k)' <= Cap(k) + (Age - since'[k]) * PerTick(k)
    BY <1>1 DEF BudgetInv, Cap, PerTick
  <2>1. CASE Same(k)
    BY <2>1 DEF ServiceInv, BudgetInv
  <2>2. CASE Renewed(k)
    <3>1. Age - Age = 0 /\ (Age - Age) * PerTick(k) = 0 /\ Level(k)' \in Nat /\ Cap(k) \in Nat
      <4>1. Level(k)' \in Nat
        BY <1>5, <2>2, LevelBounds, Limits, <1>2, <1>4, <1>1
        DEF Level, Elapsed, ServiceTypeOK, ServiceInv
      <4>2. Age - Age = 0
        BY <1>1
      <4> QED BY <4>1, <4>2, Limits, Products
    <3> QED BY <1>1, <2>2, <3>1
  <2> QED BY <1>5, <2>1, <2>2
<1> QED BY <1>3, <1>4, <1>6 DEF ServiceInv

LEMMA ClockInv ==
    ASSUME ServiceInv, Tick \/ SetBack, UNCHANGED serviceVars
    PROVE  ServiceInv'
<1>1. /\ ServiceTypeOK /\ ServiceTypeOK' /\ now \in Nat /\ backs \in Nat
      /\ UNCHANGED <<known, tokens, updatedAt, retryAt, retryCost, spent, since>>
  BY ClockType DEF ServiceInv, ServiceTypeOK, ClockTypeOK, serviceVars
<1>2. RetryInv'
  BY <1>1 DEF ServiceInv, RetryInv, PerTick
<1>3. FreshInv'
  BY <1>1 DEF ServiceInv, FreshInv, Tick, SetBack, ServiceTypeOK
<1>4. BudgetInv'
  <2> SUFFICES ASSUME NEW k \in Keys
               PROVE  /\ since[k] <= Age'
                      /\ spent[k] + Level(k)' <= Cap(k) + (Age' - since[k]) * PerTick(k)
    BY <1>1 DEF BudgetInv, Cap, PerTick
  <2>1. /\ since[k] \in Nat /\ spent[k] \in Nat /\ Age \in Nat /\ since[k] <= Age
        /\ spent[k] + Level(k) <= Cap(k) + (Age - since[k]) * PerTick(k)
        /\ Level(k) \in Nat /\ Level(k)' \in Nat
        /\ Cap(k) \in Nat /\ PerTick(k) \in Nat
    <3>1. Level(k)' \in Nat
      BY <1>1, TickLevel, SetBackLevel
    <3> QED BY <1>1, <3>1, LevelBounds, Limits
            DEF ServiceInv, BudgetInv, ServiceTypeOK, ClockTypeOK, Age
  <2>2. PICK e \in Nat : e = Age - since[k] /\ e * PerTick(k) \in Nat
    <3>1. Age - since[k] \in Nat
      BY <2>1
    <3> QED BY <2>1, <3>1, Products
  <2>3. CASE Tick
    <3>1. Level(k)' <= Level(k) + PerTick(k)
      BY <1>1, <2>3, TickLevel
    <3>2. Age' = Age + 1 /\ Age' - since[k] = e + 1
      BY <1>1, <2>1, <2>2, <2>3 DEF Tick, Age
    <3>3. (e + 1) * PerTick(k) = e * PerTick(k) + PerTick(k)
      BY <2>1, Products
    <3> QED BY <2>1, <2>2, <3>1, <3>2, <3>3
  <2>4. CASE SetBack
    <3>1. Level(k)' <= Level(k)
      BY <1>1, <2>4, SetBackLevel
    <3>2. Age' = Age
      BY <1>1, <2>4 DEF SetBack, Age
    <3> QED BY <2>1, <2>2, <3>1, <3>2
  <2> QED BY <2>3, <2>4
<1> QED BY <1>1, <1>2, <1>3, <1>4 DEF ServiceInv

LEMMA ServiceInvStep ==
    ASSUME ServiceInv, [ServiceNext]_<<clockVars, serviceVars>>
    PROVE  ServiceInv'
<1>1. CASE UNCHANGED <<clockVars, serviceVars>>
  <2>1. UNCHANGED <<now, backs, known, tokens, updatedAt, answer, retryAt, retryCost, spent, since>>
    BY <1>1 DEF clockVars, serviceVars
  <2>2. \A k \in Keys : Level(k)' = Level(k)
    BY <2>1 DEF Level, Elapsed, PerTick, Cap
  <2> QED BY <2>1, <2>2 DEF ServiceInv, ServiceTypeOK, ClockTypeOK, BudgetInv, RetryInv,
                            FreshInv, Age, Cap, PerTick
<1>2. CASE ServiceStep /\ UNCHANGED clockVars
  BY <1>2, AllowInv, RefuseInv, RenewInv DEF ServiceStep
<1>3. CASE (Tick \/ SetBack) /\ UNCHANGED serviceVars
  BY <1>3, ClockInv
<1> QED BY <1>1, <1>2, <1>3 DEF ServiceNext

LEMMA ServiceInvariant == ServiceSpec => []ServiceInv
  BY ServiceBase, ServiceInvStep, PTL DEF ServiceSpec

-----------------------------------------------------------------------------

\* No bucket ever holds more than its capacity.
THEOREM ServiceTypeCorrect == ServiceSpec => []ServiceTypeOK
  BY ServiceInvariant, PTL DEF ServiceInv

\* Sweeps and clocks set back do not let a key spend more than its rate earns
\* in the time that really passed.
THEOREM BudgetKept == ServiceSpec => []WithinBudget
<1>1. ServiceInv => WithinBudget
  <2> SUFFICES ASSUME ServiceInv, NEW k \in Keys
               PROVE  spent[k] <= Cap(k) + (Age - since[k]) * PerTick(k)
    BY DEF WithinBudget
  <2>1. spent[k] + Level(k) <= Cap(k) + (Age - since[k]) * PerTick(k)
    BY DEF ServiceInv, BudgetInv
  <2>2. /\ since[k] \in Nat /\ Age \in Nat /\ since[k] <= Age /\ spent[k] \in Nat
        /\ Level(k) \in Nat /\ Cap(k) \in Nat
    BY LevelBounds, Limits DEF ServiceInv, BudgetInv, ServiceTypeOK, ClockTypeOK, Age
  <2>3. (Age - since[k]) * PerTick(k) \in Nat
    <3>1. Age - since[k] \in Nat
      BY <2>2
    <3> QED BY <3>1, Limits, Products
  <2> QED BY <2>1, <2>2, <2>3
<1> QED BY <1>1, ServiceInvariant, PTL

\* The time acquireDetailed tells a refused caller to wait is long enough.
THEOREM RetryAfterCorrect == ServiceSpec => []RetryAfterSuffices
<1>1. ServiceInv => RetryAfterSuffices
  <2> SUFFICES ASSUME ServiceInv, NEW k \in Keys, retryCost[k] # 0,
                      retryCost[k] <= Cap(k), retryAt[k] <= now
               PROVE  retryCost[k] <= Level(k)
    BY DEF RetryAfterSuffices
  <2>1. CASE k \notin known
    BY <2>1 DEF Level
  <2>2. CASE k \in known
    <3>1. /\ updatedAt[k] \in Nat /\ retryAt[k] \in Nat /\ now \in Nat
          /\ tokens[k] \in Nat /\ retryCost[k] \in Nat /\ Cap(k) \in Nat
          /\ updatedAt[k] <= retryAt[k]
          /\ retryCost[k] <= tokens[k] + (retryAt[k] - updatedAt[k]) * PerTick(k)
      BY <2>2, Limits DEF ServiceInv, ServiceTypeOK, ClockTypeOK, RetryInv
    <3>2. PICK a \in Nat : a = retryAt[k] - updatedAt[k]
      BY <3>1
    <3>3. Elapsed(k) \in Nat /\ a <= Elapsed(k)
      BY <3>1, <3>2 DEF Elapsed
    <3>4. a * PerTick(k) <= Elapsed(k) * PerTick(k) /\ a * PerTick(k) \in Nat
          /\ Elapsed(k) * PerTick(k) \in Nat
      BY <3>3, Limits, ProductsGrow, Products
    <3>5. retryCost[k] <= tokens[k] + Elapsed(k) * PerTick(k)
      BY <3>1, <3>2, <3>4
    <3> QED BY <3>1, <3>4, <3>5 DEF Level
  <2> QED BY <2>1, <2>2
<1> QED BY <1>1, ServiceInvariant, PTL

\* Callers cannot tell the service from buckets that are always there.
THEOREM LimiterImplemented == ServiceSpec => ImplementsTokenBucket
<1> DEFINE level == [k \in Keys |-> Level(k)]
<1>1. ClockInit /\ ServiceInit => Always!Init
  BY DEF ClockInit, ServiceInit, Always!Init, Level
<1>2. ServiceInv /\ [ServiceNext]_<<clockVars, serviceVars>>
          => [Always!Next]_(Always!bucketVars)
  <2> SUFFICES ASSUME ServiceInv, [ServiceNext]_<<clockVars, serviceVars>>
               PROVE  Always!Next \/ UNCHANGED Always!bucketVars
    OBVIOUS
  <2>0. ServiceTypeOK /\ FreshInv
    BY DEF ServiceInv
  <2>1. ASSUME NEW k \in Keys, NEW cost \in Costs, Allow(k, cost), UNCHANGED clockVars
        PROVE  Always!Next
    <3>1. /\ Level(k)' = Level(k) - cost
          /\ \A i \in Keys : i # k => Level(i)' = Level(i)
      BY <2>0, <2>1, AcquireLevel
    <3>2. cost <= Level(k) /\ answer' = "allowed" /\ UNCHANGED <<now, backs>>
      BY <2>1 DEF Allow, clockVars
    <3>3. Always!Allow(k, cost)
      BY <3>1, <3>2 DEF Always!Allow
    <3> QED BY <3>3 DEF Always!Next
  <2>2. ASSUME NEW k \in Keys, NEW cost \in Costs, Refuse(k, cost), UNCHANGED clockVars
        PROVE  Always!Next
    <3>1. \A i \in Keys : Level(i)' = Level(i)
      BY <2>0, <2>2, AcquireLevel
    <3>2. Level(k) < cost /\ answer' = "refused" /\ UNCHANGED <<now, backs>>
      BY <2>2 DEF Refuse, clockVars
    <3>3. Always!Refuse(k, cost)
      BY <3>1, <3>2 DEF Always!Refuse
    <3> QED BY <3>3 DEF Always!Next
  <2>3. ASSUME Sweep \/ (\E k \in Keys : Watch(k)), UNCHANGED clockVars
        PROVE  UNCHANGED Always!bucketVars
    <3>1. \A i \in Keys : Level(i)' = Level(i)
      BY <2>0, <2>3, SweepLevel, WatchLevel DEF clockVars
    <3>2. UNCHANGED <<now, backs, answer>>
      BY <2>3 DEF Sweep, Watch, clockVars
    <3> QED BY <3>1, <3>2 DEF Always!bucketVars
  <2>4. ASSUME NEW keys \in Resettable, Reset(keys), UNCHANGED clockVars
        PROVE  Always!Next
    <3>1. \A k \in Keys : Level(k)' = IF k \in keys THEN Cap(k) ELSE Level(k)
      BY <2>0, <2>4, ResetLevel
    <3>2. answer' = "reset" /\ UNCHANGED <<now, backs>> /\ keys \in SUBSET Keys
      BY <2>4 DEF Reset, clockVars, Resettable
    <3>3. Always!Forgive(keys)
      BY <3>1, <3>2 DEF Always!Forgive
    <3> QED BY <3>2, <3>3 DEF Always!Next
  <2>5. ASSUME Tick, UNCHANGED serviceVars PROVE Always!Next
    <3> DEFINE refilled(k) == IF Level(k) + PerTick(k) <= Cap(k)
                              THEN Level(k) + PerTick(k) ELSE Cap(k)
    <3>1. \A k \in Keys : /\ Level(k)' \in Nat
                          /\ Level(k) <= Level(k)' /\ Level(k)' <= refilled(k)
                          /\ backs = 0 => Level(k)' = refilled(k)
      <4> SUFFICES ASSUME NEW k \in Keys
                   PROVE  /\ Level(k)' \in Nat
                          /\ Level(k) <= Level(k)' /\ Level(k)' <= refilled(k)
                          /\ backs = 0 => Level(k)' = refilled(k)
        OBVIOUS
      <4>1. /\ Level(k)' \in Nat /\ Level(k)' <= Cap(k)
            /\ Level(k) <= Level(k)' /\ Level(k)' <= Level(k) + PerTick(k)
            /\ updatedAt[k] <= now \/ k \notin known => Level(k)' = refilled(k)
        BY <2>0, <2>5, TickLevel
      <4> QED BY <2>0, <4>1 DEF FreshInv
    <3>2. now' = now + 1 /\ UNCHANGED <<answer, backs>>
      BY <2>5 DEF Tick, serviceVars
    <3>3. Always!TimePasses
      BY <3>1, <3>2 DEF Always!TimePasses, Always!Refilled
    <3> QED BY <3>3 DEF Always!Next
  <2>6. ASSUME SetBack, UNCHANGED serviceVars PROVE Always!Next
    <3>1. \A k \in Keys : Level(k)' \in Nat /\ Level(k)' <= Level(k)
      BY <2>0, <2>6, SetBackLevel
    <3>2. now' = now - 1 /\ (backs' = 0) = FALSE /\ UNCHANGED answer
      BY <2>0, <2>6 DEF SetBack, serviceVars, ServiceTypeOK, ClockTypeOK
    <3>3. Always!ClockSetBack
      BY <3>1, <3>2 DEF Always!ClockSetBack
    <3> QED BY <3>3 DEF Always!Next
  <2>7. ASSUME UNCHANGED <<clockVars, serviceVars>>
        PROVE  UNCHANGED Always!bucketVars
    <3>1. UNCHANGED <<now, backs, known, tokens, updatedAt, answer>>
      BY <2>7 DEF clockVars, serviceVars
    <3> QED BY <3>1 DEF Always!bucketVars, Level, Elapsed, PerTick, Cap
  <2> QED BY <2>1, <2>2, <2>3, <2>4, <2>5, <2>6, <2>7 DEF ServiceNext, ServiceStep
<1> QED BY <1>1, <1>2, ServiceInvariant, PTL DEF ServiceSpec, ImplementsTokenBucket, Always!Spec

-----------------------------------------------------------------------------
(* The guard's windows *)

\* Its passes are numbers.
LEMMA PassAt ==
    ASSUME NEW log \in Seq(Nat), NEW i \in 1 .. Len(log)
    PROVE  log[i] \in Nat
  OBVIOUS

\* Where the window of the last passes begins in the log.
LEMMA BeginsInside ==
    ASSUME NEW l \in Nat, NEW a \in Nat, NEW f \in Nat, f < a, l - (a - f) + 1 >= 1
    PROVE  l - (a - f) + 1 \in 1 .. l
  OBVIOUS

\* The log of a socket's passes, when one more is noted.
LEMMA PassNoted ==
    ASSUME NEW log \in Seq(Nat), NEW a \in Nat, NEW most \in Nat \ {0}, Len(log) <= most
    PROVE  LET all == Append(log, a)
               new == IF Len(all) > most THEN Tail(all) ELSE all
           IN  \E d \in {0, 1} :
                  /\ new \in Seq(Nat) /\ Len(new) = Len(log) + 1 - d
                  /\ Len(new) <= most
                  /\ new[Len(new)] = a
                  /\ \A i \in 1 .. Len(new) - 1 : new[i] = log[i + d]
                  /\ d = 1 => Len(log) = most
<1> DEFINE all == Append(log, a)
<1>1. /\ all \in Seq(Nat) /\ Len(all) = Len(log) + 1 /\ Len(log) \in Nat
      /\ \A i \in 1 .. Len(log) : all[i] = log[i]
      /\ all[Len(log) + 1] = a
  OBVIOUS
<1> HIDE DEF all
<1>2. CASE ~(Len(all) > most)
  BY <1>1, <1>2 DEF all
<1>3. CASE Len(all) > most
  <2>1. /\ all # <<>>
        /\ Tail(all) \in Seq(Nat) /\ Len(Tail(all)) = Len(log)
        /\ \A i \in 1 .. Len(log) : Tail(all)[i] = all[i + 1]
    BY <1>1, <1>3
  <2>2. Len(log) = most
    BY <1>1, <1>3
  <2>3. most \in 1 .. Len(log) /\ Tail(all)[most] = a
    BY <1>1, <2>1, <2>2
  <2>4. \A i \in 1 .. most - 1 : Tail(all)[i] = log[i + 1]
    <3> SUFFICES ASSUME NEW i \in 1 .. most - 1 PROVE Tail(all)[i] = log[i + 1]
      OBVIOUS
    <3>1. i \in 1 .. Len(log) /\ i + 1 \in 1 .. Len(log)
      BY <2>2
    <3>2. Tail(all)[i] = all[i + 1]
      BY <2>1, <3>1
    <3>3. all[i + 1] = log[i + 1]
      BY <1>1, <3>1
    <3> QED BY <3>2, <3>3
  <2> DEFINE new == Tail(all)
             d == 1
  <2>5. /\ d \in {0, 1} /\ new \in Seq(Nat) /\ Len(new) = Len(log) + 1 - d
        /\ Len(new) <= most /\ new[Len(new)] = a
        /\ \A i \in 1 .. Len(new) - 1 : new[i] = log[i + d]
        /\ d = 1 => Len(log) = most
    <3>1. d \in {0, 1} /\ Len(new) = most /\ Len(log) + 1 - d = most
      BY <2>1, <2>2
    <3> HIDE DEF new
    <3>2. \A i \in 1 .. Len(new) - 1 : new[i] = log[i + d]
      BY <2>4, <3>1 DEF new
    <3> QED BY <2>1, <2>2, <2>3, <3>1, <3>2 DEF new
  <2> HIDE DEF d
  <2> QED BY <1>3, <2>5 DEF all
<1> QED BY <1>2, <1>3

\* Inductive.  The passes are noted in order.  The last ones, as many as
\* tokens are missing, belong to the window that was opened last; it opened
\* when the first of them passed, by a clock that may have been set back
\* since.  What passed before the window before it is a window's length older.
Opened(s) == Len(passes[s]) - (Allowance - left[s]) + 1

Ordered(s) ==
    /\ passes[s] \in Seq(Nat) /\ Len(passes[s]) <= Remembered
    /\ \A i \in 1 .. Len(passes[s]) : passes[s][i] <= Age
    /\ \A i, j \in 1 .. Len(passes[s]) : i <= j => passes[s][i] <= passes[s][j]

LastWindow(s) ==
    /\ left[s] < Allowance
    /\ Opened(s) >= 1
    /\ refilledAt[s] <= passes[s][Opened(s)]
    /\ passes[s][Opened(s)] <= refilledAt[s] + backs
    /\ \A i \in 1 .. Len(passes[s]) :
          i + Allowance < Opened(s) => passes[s][i] + Window <= passes[s][Opened(s)]

Windows(s) ==
    /\ Ordered(s)
    /\ s \notin counted => passes[s] = <<>>
    /\ s \in counted => LastWindow(s)

GuardTypeOK ==
    /\ ClockTypeOK
    /\ counted \subseteq Clients
    /\ left \in [Clients -> Nat]
    /\ refilledAt \in [Clients -> Nat]
    /\ passes \in [Clients -> Seq(Nat)]

GuardInv == GuardTypeOK /\ \A s \in Clients : Windows(s)

LEMMA Bounds ==
    /\ Allowance \in Nat \ {0} /\ Window \in Nat \ {0}
    /\ Remembered \in Nat \ {0} /\ Remembered = 2 * Allowance + 1
  BY GuardAssumption DEF Remembered

\* What one more pass leaves of a socket's log.
LEMMA PassKeepsOrder ==
    ASSUME GuardInv, NEW s \in Clients, Pass(s), UNCHANGED clockVars
    PROVE  /\ passes' \in [Clients -> Seq(Nat)]
           /\ \A r \in Clients : r # s => passes'[r] = passes[r]
           /\ Ordered(s)'
           /\ \E d \in {0, 1} :
                 /\ Len(passes'[s]) = Len(passes[s]) + 1 - d
                 /\ passes'[s][Len(passes'[s])] = Age
                 /\ \A i \in 1 .. Len(passes'[s]) - 1 : passes'[s][i] = passes[s][i + d]
                 /\ d = 1 => Len(passes[s]) = Remembered
<1>1. /\ now \in Nat /\ backs \in Nat /\ Age \in Nat /\ Age' = Age
      /\ passes \in [Clients -> Seq(Nat)] /\ Ordered(s)
  BY DEF GuardInv, GuardTypeOK, ClockTypeOK, clockVars, Age, Windows
<1>2. passes[s] \in Seq(Nat) /\ Len(passes[s]) <= Remembered /\ Len(passes[s]) \in Nat
  BY <1>1 DEF Ordered
<1> DEFINE log == passes[s]
           all == Append(log, Age)
           new == IF Len(all) > Remembered THEN Tail(all) ELSE all
<1>3. PICK d \in {0, 1} :
         /\ new \in Seq(Nat) /\ Len(new) = Len(log) + 1 - d
         /\ Len(new) <= Remembered
         /\ new[Len(new)] = Age
         /\ \A i \in 1 .. Len(new) - 1 : new[i] = log[i + d]
         /\ d = 1 => Len(log) = Remembered
  <2> HIDE DEF log
  <2>1. log \in Seq(Nat) /\ Len(log) <= Remembered
    BY <1>2 DEF log
  <2>2. Age \in Nat /\ Remembered \in Nat \ {0}
    BY <1>1, Bounds
  <2> QED BY <2>1, <2>2, PassNoted
<1>4. passes' = [passes EXCEPT ![s] = new]
  BY DEF Pass
<1> HIDE DEF new
<1>5. /\ passes'[s] = new /\ passes' \in [Clients -> Seq(Nat)]
      /\ \A r \in Clients : r # s => passes'[r] = passes[r]
  BY <1>1, <1>3, <1>4
<1>6. \A i \in 1 .. Len(new) : new[i] <= Age
  <2>1. \A i \in 1 .. Len(log) : log[i] <= Age
    BY <1>1 DEF Ordered
  <2>2. \A i \in 1 .. Len(new) - 1 : i + d \in 1 .. Len(log)
    BY <1>2, <1>3
  <2> SUFFICES ASSUME NEW i \in 1 .. Len(new) PROVE new[i] <= Age
    OBVIOUS
  <2>3. CASE i = Len(new)
    BY <1>1, <1>3, <2>3
  <2>4. CASE i # Len(new)
    <3>1. i \in 1 .. Len(new) - 1
      BY <1>3, <2>4
    <3> QED BY <1>3, <2>1, <2>2, <3>1
  <2> QED BY <2>3, <2>4
<1>7. \A i, j \in 1 .. Len(new) : i <= j => new[i] <= new[j]
  <2> SUFFICES ASSUME NEW i \in 1 .. Len(new), NEW j \in 1 .. Len(new), i <= j
               PROVE  new[i] <= new[j]
    OBVIOUS
  <2>1. CASE j = Len(new)
    BY <1>3, <1>6, <2>1
  <2>2. CASE j # Len(new)
    <3>0. Len(new) \in Nat /\ d \in Nat /\ Len(new) = Len(log) + 1 - d
      BY <1>2, <1>3
    <3>1. /\ i \in 1 .. Len(new) - 1 /\ j \in 1 .. Len(new) - 1
          /\ i + d \in 1 .. Len(log) /\ j + d \in 1 .. Len(log) /\ i + d <= j + d
      BY <1>2, <2>2, <3>0
    <3>2. log[i + d] <= log[j + d]
      BY <1>1, <3>1 DEF Ordered
    <3> QED BY <1>3, <3>1, <3>2
  <2> QED BY <2>1, <2>2
<1>8. Ordered(s)'
  BY <1>1, <1>3, <1>5, <1>6, <1>7 DEF Ordered, Remembered
<1> QED BY <1>3, <1>5, <1>8

\* The sockets a step does not serve.
LEMMA OtherWindows ==
    ASSUME NEW r, Windows(r), UNCHANGED clockVars, (r \in counted)' <=> r \in counted,
           passes'[r] = passes[r], left'[r] = left[r], refilledAt'[r] = refilledAt[r]
    PROVE  Windows(r)'
  BY DEF Windows, Ordered, LastWindow, Opened, Age, clockVars, Remembered

\* What passed in a window that is over is a window's length old.
LEMMA WindowOver ==
    ASSUME NEW x \in Nat, NEW o \in Nat, NEW r \in Nat, NEW n \in Nat, NEW b \in Nat,
           NEW w \in Nat, x <= o, o <= r + b, n >= r + w
    PROVE  x + w <= n + b
  OBVIOUS

LEMMA OpenKeeps ==
    ASSUME GuardInv, NEW s \in Clients, OpenWindow(s), UNCHANGED clockVars
    PROVE  GuardInv'
<1>1. /\ now \in Nat /\ backs \in Nat /\ Age = now + backs /\ Age' = Age
      /\ now' = now /\ backs' = backs
      /\ left \in [Clients -> Nat] /\ refilledAt \in [Clients -> Nat]
      /\ Windows(s)
  BY DEF GuardInv, GuardTypeOK, ClockTypeOK, clockVars, Age
<1>2. /\ s \in counted' /\ counted' = counted \cup {s}
      /\ left'[s] = Allowance - 1 /\ refilledAt'[s] = now
      /\ left' = [left EXCEPT ![s] = Allowance - 1]
      /\ refilledAt' = [refilledAt EXCEPT ![s] = now]
      /\ Pass(s)
  BY <1>1 DEF OpenWindow
<1>3. /\ passes' \in [Clients -> Seq(Nat)]
      /\ \A r \in Clients : r # s => passes'[r] = passes[r]
      /\ Ordered(s)'
  BY <1>2, PassKeepsOrder
<1>4. PICK d \in {0, 1} :
         /\ Len(passes'[s]) = Len(passes[s]) + 1 - d
         /\ passes'[s][Len(passes'[s])] = Age
         /\ \A i \in 1 .. Len(passes'[s]) - 1 : passes'[s][i] = passes[s][i + d]
         /\ d = 1 => Len(passes[s]) = Remembered
  BY <1>2, PassKeepsOrder
<1>5. Len(passes[s]) \in Nat /\ Len(passes'[s]) \in Nat /\ Len(passes'[s]) >= 1
  BY <1>1, <1>4, Bounds DEF Windows, Ordered
<1>6. Opened(s)' = Len(passes'[s])
  BY <1>2, <1>5, Bounds DEF Opened
<1>7. ASSUME NEW i \in 1 .. Len(passes'[s]), i + Allowance < Len(passes'[s])
      PROVE  passes'[s][i] + Window <= Age
  <2>1. /\ i \in 1 .. Len(passes'[s]) - 1 /\ i + d \in 1 .. Len(passes[s])
        /\ passes'[s][i] = passes[s][i + d]
    BY <1>4, <1>5, <1>7, Bounds
  <2>2. s \in counted
    BY <1>1, <2>1 DEF Windows
  <2>3. /\ LastWindow(s) /\ now >= refilledAt[s] + Window
        /\ left[s] \in Nat /\ refilledAt[s] \in Nat
    BY <1>1, <2>2, Bounds DEF Windows, OpenWindow, InWindow
  <2>4. /\ Opened(s) \in 1 .. Len(passes[s]) /\ i + d <= Opened(s)
        /\ passes[s][Opened(s)] <= refilledAt[s] + backs
    <3>1. /\ Opened(s) = Len(passes[s]) - (Allowance - left[s]) + 1
          /\ left[s] < Allowance /\ Opened(s) >= 1
          /\ passes[s][Opened(s)] <= refilledAt[s] + backs
      BY <2>3 DEF LastWindow, Opened
    <3>2. d \in Nat /\ Len(passes'[s]) = Len(passes[s]) + 1 - d
      BY <1>4
    <3>3. i + d + Allowance <= Len(passes[s])
      BY <1>5, <1>7, <3>2, Bounds
    <3>4. \A l, a, f, k \in Nat : f < a /\ l - (a - f) + 1 >= 1 /\ k + a <= l
             => l - (a - f) + 1 \in 1 .. l /\ k <= l - (a - f) + 1
      OBVIOUS
    <3>5. i + d \in Nat /\ Len(passes[s]) \in Nat /\ Allowance \in Nat /\ left[s] \in Nat
      BY <1>5, <2>3, <3>2, Bounds
    <3>6. Opened(s) \in 1 .. Len(passes[s]) /\ i + d <= Opened(s)
      BY <3>1, <3>3, <3>4, <3>5
    <3> QED BY <3>1, <3>6
  <2>5. passes[s][i + d] <= passes[s][Opened(s)]
    BY <1>1, <2>1, <2>4 DEF Windows, Ordered
  <2>6. passes[s][i + d] \in Nat /\ passes[s][Opened(s)] \in Nat
    <3>1. passes[s] \in Seq(Nat)
      BY <1>1 DEF Windows, Ordered
    <3> QED BY <2>1, <2>4, <3>1, PassAt
  <2>7. passes[s][i + d] + Window <= now + backs
    <3>1. now >= refilledAt[s] + Window /\ refilledAt[s] \in Nat /\ Window \in Nat
      BY <2>3, Bounds
    <3> QED BY <1>1, <2>4, <2>5, <2>6, <3>1, WindowOver
  <2> QED BY <1>1, <2>1, <2>7
<1>8. LastWindow(s)'
  <2>1. left'[s] < Allowance /\ Opened(s)' >= 1
    BY <1>2, <1>5, <1>6, Bounds
  <2>2. passes'[s][Len(passes'[s])] = now + backs /\ refilledAt'[s] = now
    BY <1>1, <1>2, <1>4
  <2>3. /\ refilledAt'[s] <= passes'[s][Len(passes'[s])]
        /\ passes'[s][Len(passes'[s])] <= refilledAt'[s] + backs'
    BY <1>1, <2>2
  <2>4. \A i \in 1 .. Len(passes'[s]) :
           i + Allowance < Len(passes'[s])
             => passes'[s][i] + Window <= passes'[s][Len(passes'[s])]
    BY <1>1, <1>7, <2>2
  <2> QED BY <1>6, <2>1, <2>3, <2>4 DEF LastWindow
<1>9. Windows(s)'
  BY <1>2, <1>3, <1>8 DEF Windows
<1>10. \A r \in Clients : r # s => Windows(r)'
  BY <1>1, <1>2, <1>3, OtherWindows DEF GuardInv
<1>11. GuardTypeOK'
  <2>1. ClockTypeOK' /\ counted' \subseteq Clients
    BY <1>1, <1>2 DEF GuardInv, GuardTypeOK, ClockTypeOK
  <2>2. left' \in [Clients -> Nat] /\ refilledAt' \in [Clients -> Nat]
    BY <1>1, <1>2, Bounds
  <2> QED BY <1>3, <2>1, <2>2 DEF GuardTypeOK
<1> QED BY <1>9, <1>10, <1>11 DEF GuardInv

LEMMA ConsumeKeeps ==
    ASSUME GuardInv, NEW s \in Clients, Consume(s), UNCHANGED clockVars
    PROVE  GuardInv'
<1>1. /\ now \in Nat /\ backs \in Nat /\ Age = now + backs /\ Age' = Age
      /\ now' = now /\ backs' = backs
      /\ left \in [Clients -> Nat] /\ refilledAt \in [Clients -> Nat]
      /\ Windows(s)
  BY DEF GuardInv, GuardTypeOK, ClockTypeOK, clockVars, Age
<1>2. /\ s \in counted /\ UNCHANGED <<counted, refilledAt>>
      /\ left[s] > 0 /\ left' = [left EXCEPT ![s] = left[s] - 1] /\ left'[s] = left[s] - 1
      /\ Pass(s)
  BY <1>1 DEF Consume, InWindow
<1>3. /\ passes' \in [Clients -> Seq(Nat)]
      /\ \A r \in Clients : r # s => passes'[r] = passes[r]
      /\ Ordered(s)'
  BY <1>2, PassKeepsOrder
<1>4. PICK d \in {0, 1} :
         /\ Len(passes'[s]) = Len(passes[s]) + 1 - d
         /\ passes'[s][Len(passes'[s])] = Age
         /\ \A i \in 1 .. Len(passes'[s]) - 1 : passes'[s][i] = passes[s][i + d]
         /\ d = 1 => Len(passes[s]) = Remembered
  BY <1>2, PassKeepsOrder
<1>5. /\ LastWindow(s) /\ Len(passes[s]) \in Nat /\ left[s] \in Nat
      /\ Len(passes'[s]) \in Nat /\ refilledAt[s] \in Nat
  BY <1>1, <1>2, <1>3 DEF Windows, Ordered
<1>6. /\ Opened(s)' = Opened(s) - d
      /\ Opened(s)' \in 1 .. Len(passes'[s]) - 1
  <2>1. Opened(s)' = Opened(s) - d
    <3>1. d \in Nat /\ Len(passes'[s]) = Len(passes[s]) + 1 - d /\ left'[s] = left[s] - 1
      BY <1>2, <1>4
    <3>2. Len(passes'[s]) - (Allowance - left'[s]) + 1
            = (Len(passes[s]) - (Allowance - left[s]) + 1) - d
      <4>1. \A m, a, l \in Int :
               (m + 1 - d) - (a - (l - 1)) + 1 = (m - (a - l) + 1) - d
        BY <3>1
      <4>2. Len(passes[s]) \in Int /\ Allowance \in Int /\ left[s] \in Int
        BY <1>5, Bounds
      <4>3. (Len(passes[s]) + 1 - d) - (Allowance - (left[s] - 1)) + 1
              = (Len(passes[s]) - (Allowance - left[s]) + 1) - d
        BY <4>1, <4>2
      <4>4. Len(passes'[s]) = Len(passes[s]) + 1 - d /\ left'[s] = left[s] - 1
        BY <3>1
      <4> QED BY <4>3, <4>4, Zenon
    <3> QED BY <3>2 DEF Opened
  <2>2. d = 1 => Opened(s) >= 2
    BY <1>4, <1>5, Bounds DEF Opened, LastWindow
  <2>3. Opened(s) >= 1 /\ Opened(s) <= Len(passes[s])
    BY <1>5, Bounds DEF Opened, LastWindow
  <2>4. Opened(s) \in Int
    BY <1>5, Bounds DEF Opened
  <2>5. \A m, o \in Int : o >= 1 /\ o <= m /\ (d = 1 => o >= 2)
                            => o - d \in 1 .. (m + 1 - d) - 1
    BY <1>4
  <2>6. Opened(s) - d \in 1 .. (Len(passes[s]) + 1 - d) - 1
    <3>1. Len(passes[s]) \in Int
      BY <1>5
    <3> QED BY <2>2, <2>3, <2>4, <2>5, <3>1, Zenon
  <2>7. Len(passes'[s]) - 1 = (Len(passes[s]) + 1 - d) - 1
    BY <1>4
  <2> QED BY <2>1, <2>6, <2>7, Zenon
<1>7. passes'[s][Opened(s)'] = passes[s][Opened(s)]
  <2>1. (Opened(s) - d) + d = Opened(s)
    BY <1>5, Bounds DEF Opened
  <2> QED BY <1>4, <1>6, <2>1
<1>8. ASSUME NEW i \in 1 .. Len(passes'[s]), i + Allowance < Opened(s)'
      PROVE  passes'[s][i] + Window <= passes'[s][Opened(s)']
  <2>1. /\ i \in 1 .. Len(passes'[s]) - 1 /\ i + d \in 1 .. Len(passes[s])
        /\ passes'[s][i] = passes[s][i + d]
        /\ (i + d) + Allowance < Opened(s)
    <3>1. d \in Nat /\ Len(passes'[s]) = Len(passes[s]) + 1 - d
      BY <1>4
    <3>2. Opened(s)' = Opened(s) - d /\ Opened(s) \in Int /\ Opened(s)' <= Len(passes'[s]) - 1
      BY <1>5, <1>6, Bounds DEF Opened
    <3>3. i < Opened(s)'
      BY <1>5, <1>8, <3>1, <3>2, Bounds
    <3>4. /\ i \in 1 .. Len(passes'[s]) - 1 /\ i + d \in 1 .. Len(passes[s])
          /\ (i + d) + Allowance < Opened(s)
      BY <1>5, <1>8, <3>1, <3>2, <3>3, Bounds
    <3> QED BY <1>4, <3>4
  <2> QED BY <1>5, <1>7, <2>1 DEF LastWindow
<1>9. LastWindow(s)'
  <2>1. /\ left[s] < Allowance /\ refilledAt[s] <= passes[s][Opened(s)]
        /\ passes[s][Opened(s)] <= refilledAt[s] + backs
    BY <1>5 DEF LastWindow
  <2>2. left'[s] < Allowance
    BY <1>2, <1>5, <2>1, Bounds
  <2>3. /\ refilledAt'[s] <= passes'[s][Opened(s)']
        /\ passes'[s][Opened(s)'] <= refilledAt'[s] + backs'
    BY <1>1, <1>2, <1>7, <2>1
  <2>4. Opened(s)' >= 1
    BY <1>5, <1>6
  <2> QED BY <1>8, <2>2, <2>3, <2>4 DEF LastWindow
<1>10. Windows(s)'
  BY <1>2, <1>3, <1>9 DEF Windows
<1>11. \A r \in Clients : r # s => Windows(r)'
  BY <1>1, <1>2, <1>3, OtherWindows DEF GuardInv
<1>12. GuardTypeOK'
  <2>1. ClockTypeOK' /\ counted' \subseteq Clients /\ refilledAt' \in [Clients -> Nat]
    BY <1>1, <1>2 DEF GuardInv, GuardTypeOK, ClockTypeOK
  <2>2. left[s] - 1 \in Nat
    BY <1>2, <1>5
  <2>3. left' \in [Clients -> Nat]
    BY <1>1, <1>2, <2>2
  <2> QED BY <1>3, <2>1, <2>3 DEF GuardTypeOK
<1> QED BY <1>10, <1>11, <1>12 DEF GuardInv

\* Time that passes, and a clock that is set back, age every pass alike.
LEMMA ClockKeepsWindows ==
    ASSUME GuardInv, Tick \/ SetBack, UNCHANGED guardVars
    PROVE  GuardInv'
<1>1. /\ now \in Nat /\ backs \in Nat /\ now' \in Nat /\ backs' \in Nat
      /\ backs <= backs' /\ Age <= Age' /\ Age \in Nat /\ Age' \in Nat
      /\ UNCHANGED <<counted, left, refilledAt, passes>>
  BY DEF GuardInv, GuardTypeOK, ClockTypeOK, Tick, SetBack, Age, guardVars
<1>2. GuardTypeOK'
  BY <1>1 DEF GuardInv, GuardTypeOK, ClockTypeOK
<1> SUFFICES ASSUME NEW s \in Clients
             PROVE  Windows(s)'
  BY <1>2 DEF GuardInv
<1>3. Windows(s) /\ refilledAt[s] \in Nat /\ left[s] \in Nat
  BY DEF GuardInv, GuardTypeOK
<1>4. Ordered(s)'
  <2>1. ASSUME NEW i \in 1 .. Len(passes[s])
        PROVE  passes[s][i] \in Nat /\ passes[s][i] <= Age'
    <3>1. passes[s] \in Seq(Nat) /\ passes[s][i] <= Age
      BY <1>3 DEF Windows, Ordered
    <3>2. passes[s][i] \in Nat
      BY <3>1, PassAt
    <3> QED BY <1>1, <3>1, <3>2
  <2> QED BY <1>1, <1>3, <2>1 DEF Windows, Ordered, Remembered
<1>5. s \in counted => LastWindow(s)'
  <2> SUFFICES ASSUME s \in counted PROVE LastWindow(s)'
    OBVIOUS
  <2>1. LastWindow(s) /\ Len(passes[s]) \in Nat /\ passes[s] \in Seq(Nat)
    BY <1>3 DEF Windows, Ordered
  <2>2. Opened(s)' = Opened(s) /\ Opened(s) \in 1 .. Len(passes[s])
    <3>1. Opened(s)' = Opened(s)
      BY <1>1 DEF Opened
    <3>2. left[s] < Allowance /\ Len(passes[s]) - (Allowance - left[s]) + 1 >= 1
      BY <2>1 DEF LastWindow, Opened
    <3> QED BY <1>3, <2>1, <3>1, <3>2, Bounds, BeginsInside DEF Opened
  <2>3. passes[s][Opened(s)] \in Nat
    BY <2>1, <2>2, PassAt
  <2>4. passes[s][Opened(s)] <= refilledAt[s] + backs'
    BY <1>1, <1>3, <2>1, <2>3 DEF LastWindow
  <2> QED BY <1>1, <2>1, <2>2, <2>4 DEF LastWindow
<1> QED BY <1>1, <1>3, <1>4, <1>5 DEF Windows

LEMMA GuardInvariant == GuardSpec => []GuardInv
<1>1. ClockInit /\ GuardInit => GuardInv
  BY Bounds DEF ClockInit, GuardInit, GuardInv, GuardTypeOK, ClockTypeOK, Windows, Ordered
<1>2. GuardInv /\ [GuardNext]_<<clockVars, guardVars>> => GuardInv'
  <2> SUFFICES ASSUME GuardInv, [GuardNext]_<<clockVars, guardVars>> PROVE GuardInv'
    OBVIOUS
  <2>1. CASE UNCHANGED <<clockVars, guardVars>>
    <3>1. UNCHANGED <<now, backs, counted, left, refilledAt, passes>>
      BY <2>1 DEF clockVars, guardVars
    <3>2. GuardTypeOK'
      BY <3>1 DEF GuardInv, GuardTypeOK, ClockTypeOK
    <3>3. \A s \in Clients : Windows(s)'
      BY <2>1, <3>1, OtherWindows DEF GuardInv
    <3> QED BY <3>2, <3>3 DEF GuardInv
  <2>2. CASE GuardStep /\ UNCHANGED clockVars
    BY <2>2, OpenKeeps, ConsumeKeeps DEF GuardStep
  <2>3. CASE (Tick \/ SetBack) /\ UNCHANGED guardVars
    BY <2>3, ClockKeepsWindows
  <2> QED BY <2>1, <2>2, <2>3 DEF GuardNext
<1> QED BY <1>1, <1>2, PTL DEF GuardSpec

\* Whatever the clock does, one pass more than twice the allowance takes at
\* least a window's length.
THEOREM PassesBounded == GuardSpec => []AtMostTwice
<1>1. GuardInv => AtMostTwice
  <2> SUFFICES ASSUME GuardInv, NEW s \in Clients, Len(passes[s]) = Remembered
               PROVE  Last(passes[s]) - Head(passes[s]) >= Window
    BY DEF AtMostTwice
  <2>1. /\ Windows(s) /\ passes[s] \in Seq(Nat) /\ left[s] \in Nat
    BY DEF GuardInv, GuardTypeOK
  <2>2. s \in counted
    BY <2>1, Bounds DEF Windows
  <2>3. LastWindow(s)
    BY <2>1, <2>2 DEF Windows
  <2>4. /\ Opened(s) \in 1 .. Len(passes[s]) /\ 1 + Allowance < Opened(s)
        /\ 1 \in 1 .. Len(passes[s]) /\ Len(passes[s]) \in 1 .. Len(passes[s])
    <3>1. Opened(s) = Len(passes[s]) - (Allowance - left[s]) + 1 /\ left[s] < Allowance
      BY <2>3 DEF LastWindow, Opened
    <3>2. Len(passes[s]) = 2 * Allowance + 1
      BY Bounds
    <3>3. \A a, f \in Nat : f < a =>
             LET l == 2 * a + 1
                 o == l - (a - f) + 1
             IN  o \in 1 .. l /\ 1 + a < o /\ 1 \in 1 .. l /\ l \in 1 .. l
      OBVIOUS
    <3> QED BY <2>1, <3>1, <3>2, <3>3, Bounds
  <2>5. passes[s][1] + Window <= passes[s][Opened(s)]
    BY <2>3, <2>4 DEF LastWindow
  <2>6. passes[s][Opened(s)] <= passes[s][Len(passes[s])]
    BY <2>1, <2>4 DEF Windows, Ordered
  <2>7. Last(passes[s]) = passes[s][Len(passes[s])] /\ Head(passes[s]) = passes[s][1]
    BY <2>1, <2>4 DEF Last
  <2>8. /\ passes[s][1] \in Nat /\ passes[s][Opened(s)] \in Nat
        /\ passes[s][Len(passes[s])] \in Nat
    BY <2>1, <2>4, PassAt
  <2> QED BY <2>5, <2>6, <2>7, <2>8, Bounds
<1> QED BY <1>1, GuardInvariant, PTL

\* A socket is refused only when its whole allowance has passed within a
\* window's length and what the clock was set back.
THEOREM RefusalsJustified == GuardSpec => []RefusesOnlyBusy
<1>1. GuardInv => RefusesOnlyBusy
  <2> SUFFICES ASSUME GuardInv, NEW s \in Clients, InWindow(s), left[s] = 0
               PROVE  /\ Len(passes[s]) >= Allowance
                      /\ Age - passes[s][Len(passes[s]) - Allowance + 1] < Window + backs
    BY DEF RefusesOnlyBusy
  <2>1. /\ Windows(s) /\ passes[s] \in Seq(Nat) /\ refilledAt[s] \in Nat
        /\ now \in Nat /\ backs \in Nat /\ Age = now + backs
    BY DEF GuardInv, GuardTypeOK, ClockTypeOK, Age
  <2>2. s \in counted /\ now < refilledAt[s] + Window
    BY DEF InWindow
  <2>3. LastWindow(s)
    BY <2>1, <2>2 DEF Windows
  <2>4. /\ Opened(s) = Len(passes[s]) - Allowance + 1
        /\ Opened(s) \in 1 .. Len(passes[s])
    <3>1. Opened(s) = Len(passes[s]) - (Allowance - left[s]) + 1 /\ Opened(s) >= 1
      BY <2>3 DEF LastWindow, Opened
    <3>2. Len(passes[s]) \in Nat
      BY <2>1
    <3> QED BY <3>1, <3>2, Bounds
  <2>5. passes[s][Opened(s)] \in Nat /\ refilledAt[s] <= passes[s][Opened(s)]
    BY <2>1, <2>3, <2>4 DEF LastWindow
  <2>6. Len(passes[s]) \in Nat /\ Len(passes[s]) - Allowance + 1 >= 1 /\ Window \in Nat
    BY <2>1, <2>4, Bounds
  <2>7. Len(passes[s]) >= Allowance
    BY <2>6, Bounds
  <2>8. \A p, r, w, n, b \in Nat : r <= p /\ n < r + w => n + b - p < w + b
    OBVIOUS
  <2>9. Age - passes[s][Opened(s)] < Window + backs
    BY <2>1, <2>2, <2>5, <2>6, <2>8
  <2> QED BY <2>4, <2>7, <2>9
<1> QED BY <1>1, GuardInvariant, PTL
=============================================================================
