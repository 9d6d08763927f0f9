--------------------------- MODULE MCEventDelivery ---------------------------
(***************************************************************************)
(* Model-checking instance of EventDelivery.  The subscribers are          *)
(* interchangeable: no definition names one.                               *)
(***************************************************************************)
EXTENDS EventDelivery

Symmetry == Permutations(Subscribers)
=============================================================================
