---------------------------- MODULE MCCallEvents ----------------------------
(***************************************************************************)
(* Small instances of CallEvents for TLC: a socket of Alice's and one of   *)
(* Bob's in one call.                                                      *)
(***************************************************************************)
EXTENDS CallEvents

CONSTANTS alice, bob, s1, s2, p1, c1, m1, m2, m3, i1

MCUserOf == (s1 :> alice @@ s2 :> bob)

MCHome == [s \in Sockets |-> p1]

MCCallsOf == [s \in Sockets |-> CallIds]

\* Alice sends two events, Bob one.
MCSender == [m \in Messages |-> IF m = m3 THEN s2 ELSE s1]

MCAbout == [m \in Messages |-> c1]

\* Alice invites Bob and, by mistake, herself.
MCInviteOf == [i \in Invites |-> [socket |-> s1, call |-> c1, to |-> <<bob, alice>>]]
=============================================================================
