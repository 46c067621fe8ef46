---------------------------- MODULE MCSignaling ----------------------------
(***************************************************************************)
(* Small instances of Signaling for TLC.                                   *)
(***************************************************************************)
EXTENDS Signaling

CONSTANTS alice, bob, s1, s2, s3, p1, p2

\* Alice has two sockets, say two tabs; in the instances with two processes
\* Bob is connected to the other one.
MCUserOf == [s \in Sockets |-> IF s = s3 THEN bob ELSE alice]

MCHome == [s \in Sockets |-> IF s = s3 /\ p2 \in Processes THEN p2 ELSE p1]

\* Every client may ask for every call of the instance.
MCCallsOf == [s \in Sockets |-> CallIds]
=============================================================================
