--------------------------- MODULE DocumentRegister ---------------------------
(***************************************************************************)
(* What IDocumentStore promises its clients: for each key one document, or *)
(* none; every call takes effect in one step or fails and changes nothing. *)
(* A Put that is torn (the serializer throws, the process dies) leaves the *)
(* old document, the new one, or one that nobody can read.  Clear deletes  *)
(* one document after the other.                                           *)
(***************************************************************************)
CONSTANTS Clients, Keys, Values

VARIABLES
  doc,    \* the document of each key
  answer  \* what the last call of each client returned, or that it has not yet

vars == <<doc, answer>>

None == "none"
Corrupt == "corrupt"

Answers ==
  Values \union {None, Corrupt, "called", "clearing", "done", "deleted", "absent", "failed"}

TypeOK ==
  /\ doc \in [Keys -> Values \union {None, Corrupt}]
  /\ answer \in [Clients -> Answers]

Init ==
  /\ doc = [k \in Keys |-> None]
  /\ answer = [c \in Clients |-> "done"]

Answer(c, a) == answer' = [answer EXCEPT ![c] = a]

\* A client calls, and has forgotten the last answer.
Call(c) == Answer(c, "called") /\ UNCHANGED doc

Put(c, k, v) == doc' = [doc EXCEPT ![k] = v] /\ Answer(c, "done")

TearPut(c, k, v) ==
  /\ \E d \in {doc[k], v, Corrupt} : doc' = [doc EXCEPT ![k] = d]
  /\ Answer(c, "failed")

TryGet(c, k) == Answer(c, doc[k]) /\ UNCHANGED doc

\* Of two clients that delete one document both may be told that they did.
TryDelete(c, k) == doc' = [doc EXCEPT ![k] = None] /\ Answer(c, "deleted")

NothingToDelete(c, k) == doc[k] = None /\ Answer(c, "absent") /\ UNCHANGED doc

BeginClear(c) == Answer(c, "clearing") /\ UNCHANGED doc

ClearOne(k) == doc' = [doc EXCEPT ![k] = None] /\ UNCHANGED answer

\* Only Clear can return with nothing left to do.
EndClear(c) == answer[c] = "clearing" /\ Answer(c, "done") /\ UNCHANGED doc

Fail(c) == Answer(c, "failed") /\ UNCHANGED doc

Next ==
  \/ \E c \in Clients, k \in Keys :
       \/ \E v \in Values : Put(c, k, v) \/ TearPut(c, k, v)
       \/ TryGet(c, k) \/ TryDelete(c, k) \/ NothingToDelete(c, k)
  \/ \E k \in Keys : ClearOne(k)
  \/ \E c \in Clients : Call(c) \/ BeginClear(c) \/ EndClear(c) \/ Fail(c)

Spec == Init /\ [][Next]_vars
=============================================================================
