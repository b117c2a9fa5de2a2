---------------------------- MODULE MCEventStore ----------------------------
(***************************************************************************)
(* Two requests that overlap, three events and room for two of them.       *)
(***************************************************************************)
EXTENDS EventStore

CONSTANTS a, b, c

\* Nothing new, one event twice, two events, and one that evicts another.
SomeBatches == {<<>>, <<a, a>>, <<a, b>>, <<c>>}

=============================================================================
