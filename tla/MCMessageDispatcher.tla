------------------------- MODULE MCMessageDispatcher -------------------------
(***************************************************************************)
(* Model-checking instance of MessageDispatcher: two message types of the  *)
(* test ItInvokesMessageHandlersOrderedByInheritance, with handlers in two *)
(* assemblies, one of which has a second handler of the base type.         *)
(***************************************************************************)
EXTENDS MessageDispatcher

MCTypes == {"Base", "Inherited1"}
MCInherits == {<<"Inherited1", "Base">>}
MCHandlers == {"base", "audit", "inh1"}
MCParameter == [h \in MCHandlers |-> IF h = "inh1" THEN "Inherited1" ELSE "Base"]
MCHandlerIn == [h \in MCHandlers |-> IF h = "audit" THEN "A" ELSE "B"]
MCMessages == <<"Inherited1", "Base">>

OneAssembly == [t \in MCTypes |-> "A"]
TwoAssemblies == [t \in MCTypes |-> IF t = "Inherited1" THEN "B" ELSE "A"]
SeenInHeir == [h \in MCHandlers |-> IF h = "audit" THEN 2 ELSE 1]
=============================================================================
