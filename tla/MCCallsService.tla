--------------------------- MODULE MCCallsService ---------------------------
(***************************************************************************)
(* Small instances of CallsService for TLC.                                *)
(***************************************************************************)
EXTENDS CallsService, TLC

CONSTANTS u1, u2, u3

\* Nobody, one user, the same user twice with another one in between, so that
\* the creator and duplicates occur.
MCInviteeLists == {<<>>, <<u1>>, <<u1, u2, u1>>}

MCSymmetry == Permutations(CallIds) \cup Permutations(Codes)
=============================================================================
