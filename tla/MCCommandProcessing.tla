------------------------- MODULE MCCommandProcessing -------------------------
(***************************************************************************)
(* Model-checking instance of CommandProcessing: a forum is created and    *)
(* updated, a second one is created after it.                              *)
(***************************************************************************)
EXTENDS CommandProcessing

MCCommands == {"create f", "update f", "create g"}
MCCreates == {"create f", "create g"}
MCAggregates == {"f", "g"}
MCTarget == [c \in MCCommands |-> IF c = "create g" THEN "g" ELSE "f"]
=============================================================================
