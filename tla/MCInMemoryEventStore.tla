------------------------ MODULE MCInMemoryEventStore ------------------------
(* Instances of InMemoryEventStore for TLC.                                *)
EXTENDS InMemoryEventStore, TLC

\* Workers and aggregates are interchangeable in every safety property.
Symmetry == Permutations(Workers) \union Permutations(Aggregates)
=============================================================================
