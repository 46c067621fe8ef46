-------------------------------- MODULE Clock --------------------------------
(***************************************************************************)
(* Date.now, the clock of the rate limiters, tokens, credentials and       *)
(* probes: it advances, and may be set back.  A tick stands for any unit   *)
(* of time.  Node's timers follow Age, which nobody sets back.             *)
(***************************************************************************)
EXTENDS Naturals

CONSTANTS
    MaxTime,     \* bound: the last moment of the model
    MaxBacks     \* bound: how often the clock is set back

VARIABLES
    now,
    backs        \* history: how often the clock was set back

clockVars == <<now, backs>>

ASSUME ClockAssumption == MaxTime \in Nat /\ MaxBacks \in Nat

\* How much time has really passed.
Age == now + backs

ClockInit == now = 0 /\ backs = 0

Tick ==
    /\ now < MaxTime
    /\ now' = now + 1
    /\ UNCHANGED backs

SetBack ==
    /\ backs < MaxBacks
    /\ now > 0
    /\ now' = now - 1
    /\ backs' = backs + 1

ClockTypeOK == now \in Nat /\ backs \in Nat
=============================================================================
