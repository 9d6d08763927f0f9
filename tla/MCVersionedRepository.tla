------------------------ MODULE MCVersionedRepository ------------------------
(***************************************************************************)
(* Model-checking instance of VersionedRepository.  The clients are        *)
(* interchangeable: no definition names one.                               *)
(***************************************************************************)
EXTENDS VersionedRepository, TLC

Symmetry == Permutations(Clients)
=============================================================================
