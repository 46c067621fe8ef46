------------------------------ MODULE MCServices ------------------------------
(***************************************************************************)
(* Services on small instances for TLC: one key and one scope for the      *)
(* security limiter, two of nearly everything else (see MCServices.cfg).   *)
(***************************************************************************)
EXTENDS Services

MCScopeOf == [k \in Keys |-> "user"]
MCCapacity == [sc \in Scopes |-> 2]
MCRate == [sc \in Scopes |-> 1]
=============================================================================
