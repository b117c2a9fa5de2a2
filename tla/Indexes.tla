------------------------------ MODULE Indexes -------------------------------
(***************************************************************************)
(* The secondary indexes of the contracts: a Vec<u64> of ids per address.  *)
(* push_back is Append; first_index_of followed by remove is RemoveFirst;  *)
(* the loop that copies every id but one is Without.                       *)
(***************************************************************************)
EXTENDS Sequences, SequencesExt

\* The list has every element of S once, and nothing else.
ListsOnce(list, S) == IsInjective(list) /\ Range(list) = S

\* The element is in the list, at one place.
Once(list, x) == \E k \in 1..Len(list) : \A i \in 1..Len(list) : list[i] = x <=> i = k

\* A copy of the list, made from the front, that leaves x out.  A recursive
\* function and not SelectSeq, so that BookkeepingTheorems can reason about it.
Without(list, x) ==
  LET copy[i \in 0..Len(list)] ==
        IF i = 0 THEN <<>>
        ELSE IF list[i] = x THEN copy[i - 1] ELSE Append(copy[i - 1], list[i])
  IN  copy[Len(list)]

=============================================================================
