----------------------------- MODULE TokenBucket -----------------------------
(***************************************************************************)
(* What RateLimitService promises (src/security/rate-limit.service.ts): a  *)
(* bucket of tokens for every key, refilled as time passes, however the    *)
(* service stores the buckets and whichever it has dropped.  Once the      *)
(* clock has been set back, buckets may hold less, never more.             *)
(***************************************************************************)
EXTENDS Integers

CONSTANTS
    Keys,
    Costs,
    Full,        \* what a key's bucket holds when full
    Refill       \* what it gets in a tick

VARIABLES
    now,
    level,       \* tokens of a key
    answer,      \* what the last call did
    exact        \* the clock has never been set back

bucketVars == <<now, level, answer, exact>>

Init ==
    /\ now = 0
    /\ level = [k \in Keys |-> Full[k]]
    /\ answer = "none"
    /\ exact = TRUE

Allow(k, cost) ==
    /\ cost <= level[k]
    /\ level' = [level EXCEPT ![k] = @ - cost]
    /\ answer' = "allowed"
    /\ UNCHANGED <<now, exact>>

Refuse(k, cost) ==
    /\ level[k] < cost
    /\ answer' = "refused"
    /\ UNCHANGED <<now, level, exact>>

\* A level after a tick: a refill, without spilling.
Refilled(k) == IF level[k] + Refill[k] <= Full[k] THEN level[k] + Refill[k] ELSE Full[k]

TimePasses ==
    /\ now' = now + 1
    /\ level' \in [Keys -> Nat]
    /\ \A k \in Keys :
          /\ level[k] <= level'[k] /\ level'[k] <= Refilled(k)
          /\ exact => level'[k] = Refilled(k)
    /\ UNCHANGED <<answer, exact>>

ClockSetBack ==
    /\ now' = now - 1
    /\ level' \in [Keys -> Nat]
    /\ \A k \in Keys : level'[k] <= level[k]
    /\ exact' = FALSE
    /\ UNCHANGED answer

Forgive(forgiven) ==
    /\ level' = [k \in Keys |-> IF k \in forgiven THEN Full[k] ELSE level[k]]
    /\ answer' = "reset"
    /\ UNCHANGED <<now, exact>>

Next ==
    \/ \E k \in Keys, cost \in Costs : Allow(k, cost) \/ Refuse(k, cost)
    \/ TimePasses
    \/ ClockSetBack
    \/ \E forgiven \in SUBSET Keys : Forgive(forgiven)

Spec == Init /\ [][Next]_bucketVars
=============================================================================
