-------------------------- MODULE MessageDispatcher --------------------------
(***************************************************************************)
(* MessageDispatcher behind a message source: the handler methods found in *)
(* the assemblies are registered for the type of their parameter and the   *)
(* types that inherit from it, sorted so that handlers of base types come  *)
(* first, and run one after the other for every message.  If one throws    *)
(* the message stays in the queue and all of them run again.               *)
(*                                                                         *)
(* `attempt' (the handlers that have returned since the message was        *)
(* peeked) and `runs' are history.                                         *)
(***************************************************************************)
EXTENDS Integers, Sequences, FiniteSets, SequencesExt

CONSTANTS
  Types,        \* the message types
  Inherits,     \* the pairs <<t, b>> of a type and each of its base types
  AssemblyOf,   \* the assembly of each message type
  Handlers,     \* the methods that are message handlers by the convention
  Parameter,    \* the type of the parameter of each
  HandlerIn,    \* the assembly of each
  SeenBy,       \* how many classes there have the method, heirs included
  SortsAll,     \* the overload used sorts (that with assembly and convention does not)
  Messages,     \* the messages sent, as a sequence of types
  MaxRegistrations,  \* bound on the calls of RegisterMessageHandlers
  MaxFailures   \* bound on handlers that throw and processes that die

Assemblies == {HandlerIn[h] : h \in Handlers}

ASSUME DispatcherAssumption ==
  /\ Inherits \subseteq Types \X Types
  /\ IsFiniteSet(Handlers)
  /\ Parameter \in [Handlers -> Types]
  /\ SeenBy \in [Handlers -> Nat \ {0}]
  /\ SortsAll \in BOOLEAN
  /\ Messages \in Seq(Types)
  /\ MaxRegistrations \in Nat
  /\ MaxFailures \in Nat

VARIABLES
  index,       \* MessageHandlerIndex
  registered,  \* how often each assembly was registered since the process started
  host,        \* "stopped", "waiting" (for a message) or "dispatching"
  head,        \* the number of the message at the head of the queue
  place,       \* how many registrations the foreach of Dispatch has behind it
  attempt, runs, failures

dispatcherVars == <<index, registered, host, head, place, attempt, runs, failures>>
history == <<attempt, runs>>

\* The variables keep their types; a list of the index holds only handlers that
\* take its message type.
DispatcherTypeOK ==
  /\ index \in [Types -> Seq(Handlers)]
  /\ registered \in [Assemblies -> Nat]
  /\ host \in {"stopped", "waiting", "dispatching"}
  /\ head \in 1..Len(Messages) + 1
  /\ place \in Nat
  /\ attempt \in Seq(Handlers)
  /\ runs \in [1..Len(Messages) -> [Handlers -> Nat]]
  /\ failures \in 0..MaxFailures
  /\ host = "dispatching" => head <= Len(Messages) /\ place <= Len(index[Messages[head]])
  /\ \A t \in Types : \A h \in Range(index[t]) : t = Parameter[h] \/ <<t, Parameter[h]>> \in Inherits

NoHandlers == [t \in Types |-> <<>>]
NotRegistered == [a \in Assemblies |-> 0]

DispatcherInit ==
  /\ index = NoHandlers
  /\ registered = NotRegistered
  /\ host = "stopped"
  /\ head = 1
  /\ place = 0
  /\ attempt = <<>>
  /\ runs = [m \in 1..Len(Messages) |-> [h \in Handlers |-> 0]]
  /\ failures = 0

-----------------------------------------------------------------------------
\* GetAllInheritedClasses, which looks in one assembly.
GetAllInheritedClasses(h) ==
  {Parameter[h]} \union
  {t \in Types : <<t, Parameter[h]>> \in Inherits /\ AssemblyOf[t] = AssemblyOf[Parameter[h]]}

\* How often each handler of assembly a is added for message type t.
Found(a, t) == [h \in Handlers |->
  IF HandlerIn[h] = a /\ t \in GetAllInheritedClasses(h) THEN SeenBy[h] ELSE 0]

Occurrences(list, h) == Cardinality({i \in DOMAIN list : list[i] = h})

\* The ways to put the old list of a type, and what was found, into one list.
\* The types of an assembly come in the order of its metadata, Sort is not stable.
Lists(old, found) ==
  LET count(h) == Occurrences(old, h) + found[h]
      length == Cardinality(UNION {{h} \X (1..count(h)) : h \in Handlers})
  IN {list \in [1..length -> {h \in Handlers : count(h) > 0}] :
        \A h \in Handlers : Occurrences(list, h) = count(h)}

\* What InheritanceComparerer makes of a list: base types first.
InBaseOrder(list) ==
  \A i, j \in DOMAIN list : i < j => <<Parameter[list[i]], Parameter[list[j]]>> \notin Inherits

\* Mutant: what was registered before is not sorted again.
AppendedSorted(old, found) ==
  {list \in Lists(old, found) : IsPrefix(old, list) /\ InBaseOrder(SubSeq(list, Len(old) + 1, Len(list)))}

\* What the registration adds to the end of a list, or makes of it.
Registrations(old, found) ==
  IF SortsAll THEN {list \in Lists(old, found) : InBaseOrder(list)}
  ELSE {list \in Lists(old, found) : IsPrefix(old, list)}

TimesRegistered == FoldFunction(+, 0, registered)

(* RegisterMessageHandlers with assembly a, before the host is started.    *)
RegisterMessageHandlers(a) ==
  /\ host = "stopped"
  /\ TimesRegistered < MaxRegistrations
  /\ registered' = [registered EXCEPT ![a] = @ + 1]
  /\ \E new \in [Types -> UNION {Registrations(index[t], Found(a, t)) : t \in Types}] :
       /\ \A t \in Types : new[t] \in Registrations(index[t], Found(a, t))
       /\ index' = new
  /\ UNCHANGED <<host, head, place, history, failures>>

(* MessageBusHost.Start, with the handlers of all assemblies.              *)
StartHost ==
  /\ host = "stopped"
  /\ \A a \in Assemblies : registered[a] > 0
  /\ host' = "waiting"
  /\ UNCHANGED <<index, registered, head, place, history, failures>>

(* A message is received and dispatched.                                   *)
Receive ==
  /\ host = "waiting"
  /\ head <= Len(Messages)
  /\ host' = "dispatching"
  /\ place' = 0
  /\ attempt' = <<>>
  /\ UNCHANGED <<index, registered, head, runs, failures>>

Registered == index[Messages[head]]

(* The next handler is invoked and returns.                                *)
Invoke ==
  /\ host = "dispatching"
  /\ place < Len(Registered)
  /\ place' = place + 1
  /\ attempt' = Append(attempt, Registered[place + 1])
  /\ runs' = [runs EXCEPT ![head][Registered[place + 1]] = @ + 1]
  /\ UNCHANGED <<index, registered, host, head, failures>>

(* Dispatch returns, with or without a handler; the message is removed.    *)
RemoveMessage ==
  /\ host = "dispatching"
  /\ place = Len(Registered)
  /\ head' = head + 1
  /\ host' = "waiting"
  /\ UNCHANGED <<index, registered, place, history, failures>>

(* Mutant: the exception of a handler is logged, the foreach goes on.      *)
ThrowAndGoOn ==
  /\ host = "dispatching"
  /\ place < Len(Registered)
  /\ failures < MaxFailures
  /\ failures' = failures + 1
  /\ place' = place + 1
  /\ UNCHANGED <<index, registered, host, head, history>>

(* A handler throws: the message stays, "Failure - try again".             *)
HandlerThrows ==
  /\ host = "dispatching"
  /\ place < Len(Registered)
  /\ failures < MaxFailures
  /\ failures' = failures + 1
  /\ host' = "waiting"
  /\ UNCHANGED <<index, registered, head, place, history>>

(* The process dies.  It will register its handlers again.                 *)
HostCrashes ==
  /\ host # "stopped"
  /\ failures < MaxFailures
  /\ failures' = failures + 1
  /\ host' = "stopped"
  /\ index' = NoHandlers
  /\ registered' = NotRegistered
  /\ UNCHANGED <<head, place, history>>

Dispatch == Receive \/ Invoke \/ RemoveMessage

DispatcherNext ==
  \/ \E a \in Assemblies : RegisterMessageHandlers(a)
  \/ StartHost \/ Dispatch \/ HandlerThrows \/ HostCrashes

DispatcherSpec == DispatcherInit /\ [][DispatcherNext]_dispatcherVars
-----------------------------------------------------------------------------
\* "ItInvokesMessageHandlersOrderedByInheritance": in one attempt no handler
\* runs after one of a type that inherits from its own.
BaseFirst ==
  \A i, j \in DOMAIN attempt : i < j =>
     <<Parameter[attempt[i]], Parameter[attempt[j]]>> \notin Inherits

\* A message that is gone has been handled by every handler of its type and of
\* the types it inherits from ("all other messages that inherit from the handlers
\* message parameter"), however often one of them threw.
RemovedMeansHandled ==
  \A m \in 1..head - 1 : \A h \in Handlers :
     Messages[m] = Parameter[h] \/ <<Messages[m], Parameter[h]>> \in Inherits => runs[m][h] > 0

=============================================================================
