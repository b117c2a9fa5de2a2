----------------------------- MODULE MCKeepers ------------------------------
(***************************************************************************)
(* Two keepers, one DCAPolicy contract and one coordinator.                *)
(***************************************************************************)
EXTENDS Keepers

DCASchedules == {Resource(id) : id \in 1..MaxPolicies}

=============================================================================
