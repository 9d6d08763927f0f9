---------------------------- MODULE MCEventStore ----------------------------
(* Instances of EventStore for TLC.                                        *)
EXTENDS EventStore, TLC

\* Workers and aggregates are interchangeable in every safety property.
Symmetry == Permutations(Workers) \union Permutations(Aggregates)
=============================================================================
