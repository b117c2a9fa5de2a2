------------------------------- MODULE Totals -------------------------------
(***************************************************************************)
(* Sums: of the first n values of a function on 1..n, and of its values    *)
(* over a finite set.  The contracts never compute them: they are what     *)
(* "the contract holds enough to settle everything it owes" means.  Total  *)
(* is a LET-bound recursive function and not a RECURSIVE operator, so that *)
(* BookkeepingTheorems can reason about it.                                *)
(***************************************************************************)
EXTENDS Integers, FiniteSets, SequencesExt

Total(f, n) ==
  LET partial[i \in 0..n] == IF i = 0 THEN 0 ELSE partial[i - 1] + f[i]
  IN  partial[n]

\* The sum of the values of a function over a finite set, counted up in some order.
TotalOver(f, S) ==
  LET list == SetToSeq(S)
  IN  Total([i \in 1..Cardinality(S) |-> f[list[i]]], Cardinality(S))

=============================================================================
