-------------------------- MODULE MCScheduleVault ---------------------------
(***************************************************************************)
(* ScheduleVault on a small instance.  Two users are enough for an owner   *)
(* who is not the recipient, and for a transfer of ownership both to the   *)
(* recipient and to oneself; they are interchangeable, as nothing but      *)
(* equality is asked of an address.                                        *)
(***************************************************************************)
EXTENDS ScheduleVault

Symmetry == Permutations(Users)

=============================================================================
