-------------------------------- MODULE MCTurn --------------------------------
(***************************************************************************)
(* A small instance of TurnCredentials for TLC.                            *)
(***************************************************************************)
EXTENDS TurnCredentials
=============================================================================
