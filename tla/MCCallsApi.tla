------------------------------ MODULE MCCallsApi ------------------------------
(***************************************************************************)
(* Small instances of CallsApi for TLC.                                    *)
(***************************************************************************)
EXTENDS CallsApi, TLC

\* Invitations are requests of their own here.
MCInviteeLists == {<<>>}

MCSymmetry == Permutations(CallIds) \cup Permutations(Users)
=============================================================================
