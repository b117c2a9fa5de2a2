---------------------------- MODULE MCDCAPolicy -----------------------------
(***************************************************************************)
(* DCAPolicy on small instances: two policies of one owner that share a    *)
(* router and its allowance, and a single policy with a receiver of its    *)
(* own and top-ups of any size.                                            *)
(***************************************************************************)
EXTENDS DCAPolicy

=============================================================================
