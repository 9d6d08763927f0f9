------------------------- MODULE MCFileDocumentStore -------------------------
(***************************************************************************)
(* Model-checking instance of FileDocumentStore: two threads, two keys and *)
(* a document that is shorter than the other.                              *)
(***************************************************************************)
EXTENDS FileDocumentStore, TLC

CONSTANTS c1, c2, k1, k2

MCClients == {c1, c2}
MCKeys == {k1, k2}
MCValues == {"Xyz", "Abcdefghijklmn"}
MCLength == [v \in MCValues |-> IF v = "Xyz" THEN 1 ELSE 2]

Symmetry == Permutations(MCClients) \union Permutations(MCKeys)
=============================================================================
