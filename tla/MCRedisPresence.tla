--------------------------- MODULE MCRedisPresence ---------------------------
(***************************************************************************)
(* Small instances of RedisPresence for TLC.                               *)
(***************************************************************************)
EXTENDS RedisPresence

CONSTANTS s1, s2, p1, p2

\* Two sockets on two processes.
MCHome == [s \in Sockets |-> IF s = s1 THEN p1 ELSE p2]
=============================================================================
