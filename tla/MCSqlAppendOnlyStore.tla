------------------------- MODULE MCSqlAppendOnlyStore -------------------------
(***************************************************************************)
(* Model-checking instances of SqlAppendOnlyStore: a process with one      *)
(* message thread, and two of the parallel workers of the store's test.    *)
(***************************************************************************)
EXTENDS SqlAppendOnlyStore

OneThread == {"t1"}
TwoThreads == {"t1", "t2"}
MCCommands == {"a", "b"}
OneQueue == [t \in OneThread |-> <<"a", "b">>]
TwoQueues == [t \in TwoThreads |-> IF t = "t1" THEN <<"a">> ELSE <<"b">>]
=============================================================================
