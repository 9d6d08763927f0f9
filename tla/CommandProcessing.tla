-------------------------- MODULE CommandProcessing --------------------------
(***************************************************************************)
(* The message thread of a process: commands wait in its recoverable queue *)
(* and MSMQMessageSource peeks at the first, has it handled, and removes   *)
(* it when that succeeded.  A message whose handler throws stays where it  *)
(* is and is handled again.  The handler loads the aggregate and appends   *)
(* the events of the command one by one, so that a retry may find some of  *)
(* them stored already.  Other processes append to the same streams.       *)
(*                                                                         *)
(* The stores are reduced to what EventStore shows of them: a stream ends  *)
(* where it is appended to, and an append that expects another end throws. *)
(***************************************************************************)
EXTENDS Integers, Sequences, FiniteSets, SequencesExt

CONSTANTS
  Commands,    \* the commands that are sent, each of them once
  Creates,     \* those of them that create their aggregate
  Aggregates,  \* aggregate identities
  Target,      \* the aggregate of every command
  Parts,       \* the number of events each command publishes
  MaxForeign,  \* bound on the events other processes store
  MaxFaults    \* bound on the exceptions and crashes

ASSUME ProcessingAssumption ==
  /\ Creates \subseteq Commands
  /\ Target \in [Commands -> Aggregates]
  /\ Parts \in Nat \ {0}
  /\ MaxForeign \in Nat
  /\ MaxFaults \in Nat

VARIABLES
  sent,     \* the commands sent so far, oldest first
  queue,    \* the input queue
  stream,   \* for every aggregate its events
  handler,  \* what the message thread does with the head of the queue
  foreign,  \* events stored by other processes so far
  faults    \* exceptions and crashes so far

vars == <<sent, queue, stream, handler, foreign, faults>>

Other == "other process"

ASSUME OtherAssumption == Other \notin Commands

Event == [cmd : Commands \union {Other}, part : 0..Parts]

Peeking == [pc |-> "peek", expected |-> 0, part |-> 0]
Down == [pc |-> "down", expected |-> 0, part |-> 0]

\* The queue, the streams and the thread keep their types.
TypeOK ==
  /\ sent \in Seq(Commands)
  /\ queue \in Seq(Commands)
  /\ stream \in [Aggregates -> Seq(Event)]
  /\ handler \in [pc : {"down", "peek", "append", "handled"}, expected : Nat, part : 0..Parts]
  /\ foreign \in 0..MaxForeign
  /\ faults \in 0..MaxFaults
  /\ handler.pc \in {"append", "handled"} => queue # <<>>

Init ==
  /\ sent = <<>>
  /\ queue = <<>>
  /\ stream = [a \in Aggregates |-> <<>>]
  /\ handler = Down
  /\ foreign = 0
  /\ faults = 0

-----------------------------------------------------------------------------
(* MSMQMessageSink.Send in some process.                                   *)
Send(c) ==
  /\ ~Contains(sent, c)
  /\ sent' = Append(sent, c)
  /\ queue' = Append(queue, c)
  /\ UNCHANGED <<stream, handler, foreign, faults>>

(* A handler in another process stores an event.                           *)
ForeignAppend(a) ==
  /\ foreign < MaxForeign
  /\ foreign' = foreign + 1
  /\ stream' = [stream EXCEPT ![a] = Append(@, [cmd |-> Other, part |-> 0])]
  /\ UNCHANGED <<sent, queue, handler, faults>>

(* The process starts: BeginPeek.                                          *)
Start ==
  /\ handler.pc = "down"
  /\ handler' = Peeking
  /\ UNCHANGED <<sent, queue, stream, foreign, faults>>

\* VerifyCommand of the head, on an aggregate restored from its stream.
Accepted ==
  /\ queue # <<>>
  /\ (Head(queue) \in Creates) <=> (stream[Target[Head(queue)]] = <<>>)

(* The head is peeked and dispatched, its aggregate loaded and the command *)
(* accepted.                                                               *)
Load ==
  /\ handler.pc = "peek"
  /\ Accepted
  /\ handler' = [pc |-> "append", expected |-> Len(stream[Target[Head(queue)]]), part |-> 1]
  /\ UNCHANGED <<sent, queue, stream, foreign, faults>>

(* VerifyCommand throws, the message stays and is peeked again.            *)
Reject ==
  /\ handler.pc = "peek"
  /\ queue # <<>> /\ ~Accepted
  /\ UNCHANGED vars

(* One turn of the loop of EventStoreDB.Append.                            *)
StoreNext ==
  LET c == Head(queue) a == Target[c] IN
  /\ handler.pc = "append"
  /\ handler.expected = Len(stream[a])
  /\ stream' = [stream EXCEPT ![a] = Append(@, [cmd |-> c, part |-> handler.part])]
  /\ handler' = IF handler.part = Parts
                  THEN [handler EXCEPT !.pc = "handled"]
                  ELSE [handler EXCEPT !.expected = @ + 1, !.part = @ + 1]
  /\ UNCHANGED <<sent, queue, foreign, faults>>

(* Mutant: BeginPeek is called on success only.                            *)
ConflictStops ==
  /\ handler.pc = "append"
  /\ handler.expected # Len(stream[Target[Head(queue)]])
  /\ handler' = [handler EXCEPT !.pc = "stopped"]
  /\ UNCHANGED <<sent, queue, stream, foreign, faults>>

(* VersionConflictException: "Failure - try again".                        *)
Conflict ==
  /\ handler.pc = "append"
  /\ handler.expected # Len(stream[Target[Head(queue)]])
  /\ handler' = Peeking
  /\ UNCHANGED <<sent, queue, stream, foreign, faults>>

(* Mutant: the message goes to the end of the queue.                       *)
ThrowRequeues ==
  /\ handler.pc \in {"append", "handled"}
  /\ faults < MaxFaults
  /\ faults' = faults + 1
  /\ handler' = Peeking
  /\ queue' = Append(Tail(queue), Head(queue))
  /\ UNCHANGED <<sent, stream, foreign>>

(* Mutant: the message is removed although its handler threw.              *)
ThrowRemoves ==
  /\ handler.pc \in {"append", "handled"}
  /\ faults < MaxFaults
  /\ faults' = faults + 1
  /\ handler' = Peeking
  /\ queue' = Tail(queue)
  /\ UNCHANGED <<sent, stream, foreign>>

(* Any other exception, of a statement or of ReceiveById: on SQL Server    *)
(* the publisher's open reader on the same connection will do.             *)
Throw ==
  /\ handler.pc \in {"append", "handled"}
  /\ faults < MaxFaults
  /\ faults' = faults + 1
  /\ handler' = Peeking
  /\ UNCHANGED <<sent, queue, stream, foreign>>

\* Mutant: the success is forgotten, the message stays.
ReceiveNothing ==
  /\ handler.pc = "handled"
  /\ handler' = Peeking
  /\ UNCHANGED <<sent, queue, stream, foreign, faults>>

(* "Success - remove message".                                             *)
ReceiveById ==
  /\ handler.pc = "handled"
  /\ queue' = Tail(queue)
  /\ handler' = Peeking
  /\ UNCHANGED <<sent, stream, foreign, faults>>

(* The process dies.  The queue is recoverable, events stored are stored.  *)
Crash ==
  /\ handler.pc # "down"
  /\ faults < MaxFaults
  /\ faults' = faults + 1
  /\ handler' = Down
  /\ UNCHANGED <<sent, queue, stream, foreign>>

Handle == Start \/ Load \/ StoreNext \/ Conflict \/ ReceiveById

Next ==
  \/ \E c \in Commands : Send(c)
  \/ \E a \in Aggregates : ForeignAppend(a)
  \/ Handle \/ Reject \/ Throw \/ Crash

Spec == Init /\ [][Next]_vars

\* The thread keeps running, a process that died is started again, and only
\* MaxFaults things go wrong.
FairSpec == Spec /\ WF_vars(Handle)

-----------------------------------------------------------------------------
\* Where in the stream of its target the last event of c was stored.
Completions(c) ==
  {k \in 1..Len(stream[Target[c]]) : stream[Target[c]][k] = [cmd |-> c, part |-> Parts]}

Begun(c) == \E k \in 1..Len(stream[Target[c]]) : stream[Target[c]][k].cmd = c

\* A command that is gone from the queue has all its events in the stream, one
\* after the other: no exception, conflict or crash makes one disappear.
RemovedMeansStored ==
  \A c \in Commands : Contains(sent, c) /\ ~Contains(queue, c) =>
     \E k \in Completions(c) : \A p \in 1..Parts :
        stream[Target[c]][k - Parts + p] = [cmd |-> c, part |-> p]

\* Commands take effect in the order in which they were sent, over all
\* aggregates: nothing of a command is stored while an earlier one waits.
StoredInQueueOrder ==
  \A i, j \in 1..Len(sent) : i < j /\ Begun(sent[j]) => ~Contains(queue, sent[i])

\* The events of a command are stored completely a second time only after an
\* exception or crash that came between the last event and ReceiveById.
CompletedTwiceNeedsFaults ==
  \A c \in Commands : Cardinality(Completions(c)) <= 1 + faults

\* The head is one that its aggregate refuses: it stops the whole queue.
Blocked == handler.pc = "peek" /\ queue # <<>> /\ ~Accepted

\* Every command is handled, unless from some time on the queue is stopped by a
\* head that is refused again and again.
HandledUnlessBlocked ==
  \A c \in Commands : Contains(sent, c) ~> (~Contains(queue, c) \/ []Blocked)
=============================================================================
