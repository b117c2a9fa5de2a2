-------------------------- MODULE MCStreamHistory ---------------------------
(* Model checking one stream with the history of its running time.          *)
EXTENDS StreamHistory, TLC

Symmetry == Permutations(Users)

=============================================================================
