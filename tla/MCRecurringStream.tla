------------------------- MODULE MCRecurringStream --------------------------
(* Model checking RecurringStream with several streams.                     *)
EXTENDS RecurringStream, TLC

Symmetry == Permutations(Users)

\* Bound: of the streams one at most is paused, or was.
OnePaused ==
  Cardinality({id \in Ids : streams[id].status = "Paused" \/ streams[id].paused_ledgers > 0}) <= 1

=============================================================================
