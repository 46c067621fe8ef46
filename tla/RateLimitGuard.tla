---------------------------- MODULE RateLimitGuard ----------------------------
(***************************************************************************)
(* RateLimitGuard (src/signaling/rate-limit.guard.ts): the messages of a   *)
(* socket are counted in windows; one opens with the first message after   *)
(* the last has ended.  Buckets are never removed.                         *)
(*                                                                         *)
(* "wrong" marks plausible bugs that no action uses.                       *)
(***************************************************************************)
EXTENDS Clock, Sequences, SequencesExt

CONSTANTS
    Clients,     \* sockets
    Allowance,   \* options.capacity
    Window       \* options.windowMs

VARIABLES
    counted,     \* sockets with a bucket
    left,        \* TokenBucket.tokens
    refilledAt,  \* TokenBucket.refilledAt
    passes       \* history: when a socket's latest messages passed

guardVars == <<counted, left, refilledAt, passes>>

ASSUME GuardAssumption == Allowance \in Nat \ {0} /\ Window \in Nat \ {0}

\* History: one pass more than two windows allow is remembered.
Remembered == 2 * Allowance + 1

GuardInit ==
    /\ counted = {}
    /\ left = [s \in Clients |-> 0]
    /\ refilledAt = [s \in Clients |-> 0]
    /\ passes = [s \in Clients |-> <<>>]

InWindow(s) == s \in counted /\ now < refilledAt[s] + Window

Pass(s) ==
    passes' = [passes EXCEPT ![s] =
                  LET all == Append(@, Age)
                  IN  IF Len(all) > Remembered THEN Tail(all) ELSE all]

\* tryConsume: a new bucket or a new window ...
OpenWindowFull(s) ==                                                   \* wrong
    /\ ~InWindow(s)
    /\ counted' = counted \cup {s}
    /\ left' = [left EXCEPT ![s] = Allowance]
    /\ refilledAt' = [refilledAt EXCEPT ![s] = now]
    /\ Pass(s)
OpenWindow(s) ==
    /\ ~InWindow(s)
    /\ counted' = counted \cup {s}
    /\ left' = [left EXCEPT ![s] = Allowance - 1]
    /\ refilledAt' = [refilledAt EXCEPT ![s] = now]
    /\ Pass(s)

\* ... or one of the tokens that are left; without one nothing changes.
ConsumeAndWait(s) ==                                                   \* wrong
    /\ InWindow(s)
    /\ left[s] > 0
    /\ left' = [left EXCEPT ![s] = @ - 1]
    /\ refilledAt' = [refilledAt EXCEPT ![s] = now]
    /\ Pass(s)
    /\ UNCHANGED counted
Consume(s) ==
    /\ InWindow(s)
    /\ left[s] > 0
    /\ left' = [left EXCEPT ![s] = @ - 1]
    /\ Pass(s)
    /\ UNCHANGED <<counted, refilledAt>>

GuardStep == \E s \in Clients : OpenWindow(s) \/ Consume(s)

GuardNext ==
    \/ GuardStep /\ UNCHANGED clockVars
    \/ (Tick \/ SetBack) /\ UNCHANGED guardVars

GuardSpec == ClockInit /\ GuardInit /\ [][GuardNext]_<<clockVars, guardVars>>

-----------------------------------------------------------------------------
(* Properties *)

\* Windows are not aligned with the periods a client chooses: twice the
\* allowance may pass within one window's length, but never more, whatever the
\* clock does.
AtMostTwice ==
    \A s \in Clients :
        Len(passes[s]) = Remembered => Last(passes[s]) - Head(passes[s]) >= Window

\* A socket is refused only if its whole allowance passed within a window's
\* length, or in the time by which the clock was set back.
RefusesOnlyBusy ==
    \A s \in Clients :
        InWindow(s) /\ left[s] = 0 =>
            /\ Len(passes[s]) >= Allowance
            /\ Age - passes[s][Len(passes[s]) - Allowance + 1] < Window + backs
=============================================================================
