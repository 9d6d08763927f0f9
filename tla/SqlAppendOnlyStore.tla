-------------------------- MODULE SqlAppendOnlyStore --------------------------
(***************************************************************************)
(* One SqlAppendOnlyStore used by all threads of a process: some handle    *)
(* commands (Load, then Append for each event), the publisher loop reads   *)
(* new rows.  They share one SqlConnection, which without MARS executes    *)
(* nothing while a SqlDataReader is open on it, and one SqlCommand with    *)
(* its parameters per operation.                                           *)
(*                                                                         *)
(* Commands are accepted by their aggregates and no other process writes   *)
(* to the table: see CommandProcessing and EventStore for both.            *)
(***************************************************************************)
EXTENDS Integers, Sequences

CONSTANTS
  Threads,    \* the threads that handle messages
  Messages,   \* the messages in the queues, each of them a command
  QueueOf,    \* what each thread finds in its queue, in order
  Parts,      \* the number of events of a command
  BatchSize,  \* the count Run passes to PublishEvents
  MaxRows,    \* bound on the rows of the table
  MaxFaults   \* bound on the exceptions out of IEventPublisher.Publish

ASSUME SqlAssumption ==
  /\ QueueOf \in [Threads -> Seq(Messages)]
  /\ Parts \in Nat \ {0}
  /\ BatchSize \in Nat \ {0}
  /\ MaxRows \in Nat
  /\ MaxFaults \in Nat

VARIABLES
  table,      \* the rows of EventStore
  params,     \* AppendCommand.Parameters
  loadName,   \* LoadCommand.Parameters["@name"]
  readers,    \* the threads with an open SqlDataReader
  queue,      \* the queue of each thread
  thread,     \* each thread's place in its command
  publisher,  \* the loop: last, and the cursor and count of PublishEvents
  faults      \* exceptions of Publish so far

sqlVars == <<table, params, loadName, readers, queue, thread, publisher, faults>>
connectionVars == <<table, params, loadName, readers>>

Publisher == "publisher"

ASSUME ThreadAssumption == Publisher \notin Threads

\* Every command has a stream of its own, named like it.
Data == [cmd : Messages, part : 1..Parts]
NoData == [cmd |-> "none", part |-> 0]
Call == [name : Messages, data : Data, version : 1..MaxRows + 1]
NoCall == [name |-> "none", data |-> NoData, version |-> 0]

Waiting == [pc |-> "idle", part |-> 0, expected |-> 0]

\* The variables keep their types, and a reader belongs to a thread inside
\* Load or ReadFrom: no path out of the two forgets to dispose it.
SqlTypeOK ==
  /\ table \in Seq(Call)
  /\ Len(table) <= MaxRows
  /\ params \in [name : Messages \union {"none"}, data : Data \union {NoData},
                version : 0..MaxRows + 1]
  /\ loadName \in Messages \union {"none"}
  /\ readers \subseteq Threads \union {Publisher}
  /\ queue \in [Threads -> Seq(Messages)]
  /\ thread \in [Threads -> [pc : {"idle", "load", "reading", "name", "data", "version",
                                   "execute", "handled"},
                             part : 0..Parts, expected : 0..MaxRows]]
  /\ publisher \in [pc : {"idle", "publish", "asleep"}, last : 0..MaxRows,
                    cursor : 0..MaxRows, found : 0..BatchSize]
  /\ faults \in 0..MaxFaults
  /\ \A t \in Threads : t \in readers <=> thread[t].pc = "reading"
  /\ Publisher \in readers <=> publisher.pc = "publish"

SqlInit ==
  /\ table = <<>>
  /\ params = NoCall
  /\ loadName = "none"
  /\ readers = {}
  /\ queue = QueueOf
  /\ thread = [t \in Threads |-> Waiting]
  /\ publisher = [pc |-> "idle", last |-> 0, cursor |-> 0, found |-> 0]
  /\ faults = 0

-----------------------------------------------------------------------------
\* "There is already an open DataReader associated with this Command which must
\* be closed first."
Busy == readers # {}

Versions(name) == {table[k].version : k \in {k \in DOMAIN table : table[k].name = name}}

LastVersion(name) ==
  IF Versions(name) = {} THEN 0
  ELSE CHOOSE v \in Versions(name) : \A u \in Versions(name) : u <= v

At(t, pc) == thread[t].pc = pc
Go(t, pc) == thread' = [thread EXCEPT ![t].pc = pc]

(* The message is peeked, its handler calls Load: the parameter is set ...  *)
BeginLoad(t) ==
  /\ At(t, "idle")
  /\ queue[t] # <<>>
  /\ loadName' = Head(queue[t])
  /\ Go(t, "load")
  /\ UNCHANGED <<table, params, readers, queue, publisher, faults>>

(* ... and ExecuteReader sends what is in it by now.                       *)
ExecuteLoad(t) ==
  /\ At(t, "load")
  /\ ~Busy
  /\ readers' = {t}
  /\ thread' = [thread EXCEPT ![t].pc = "reading", ![t].expected = LastVersion(loadName)]
  /\ UNCHANGED <<table, params, loadName, queue, publisher, faults>>

(* The last row is read, the reader disposed; the aggregate is restored and *)
(* the first of the new events goes to Append.                             *)
CloseLoad(t) ==
  /\ At(t, "reading")
  /\ readers' = readers \ {t}
  /\ thread' = [thread EXCEPT ![t].pc = "name", ![t].part = 1]
  /\ UNCHANGED <<table, params, loadName, queue, publisher, faults>>

\* What thread t passes to Append for the event it is at.
Passed(t) ==
  [name |-> Head(queue[t]),
   data |-> [cmd |-> Head(queue[t]), part |-> thread[t].part],
   version |-> thread[t].expected + 1]

After == [name |-> "data", data |-> "version", version |-> "execute"]

(* One of the three assignments of Append.                                 *)
SetParameter(t) ==
  /\ thread[t].pc \in DOMAIN After
  /\ params' = [params EXCEPT ![thread[t].pc] = Passed(t)[thread[t].pc]]
  /\ Go(t, After[thread[t].pc])
  /\ UNCHANGED <<table, loadName, readers, queue, publisher, faults>>

Duplicate == params.version \in Versions(params.name)

\* The event is stored, or was taken to be: the loop of EventStoreDB.Append goes
\* on to the next one.
NextEvent(t) ==
  thread' = [thread EXCEPT ![t] =
    IF @.part = Parts THEN [@ EXCEPT !.pc = "handled"]
    ELSE [pc |-> "name", part |-> @.part + 1, expected |-> @.expected + 1]]

(* ExecuteNonQuery inserts what is in the parameters.                      *)
Execute(t) ==
  /\ At(t, "execute")
  /\ ~Busy
  /\ ~Duplicate
  /\ Len(table) < MaxRows
  /\ table' = Append(table, params)
  /\ NextEvent(t)
  /\ UNCHANGED <<params, loadName, readers, queue, publisher, faults>>

(* Mutant: Append catches every exception, not only to translate it.       *)
Swallow(t) ==
  /\ At(t, "execute") /\ (Busy \/ Duplicate)
  /\ NextEvent(t)
  /\ UNCHANGED <<connectionVars, queue, publisher, faults>>

(* The connection is busy (InvalidOperationException), or the index refuses *)
(* the row (VersionConflictException): the message stays in the queue and  *)
(* is peeked again.                                                        *)
Refuse(t) ==
  /\ \/ At(t, "load") /\ Busy
     \/ At(t, "execute") /\ (Busy \/ Duplicate)
  /\ thread' = [thread EXCEPT ![t] = Waiting]
  /\ UNCHANGED <<connectionVars, queue, publisher, faults>>

(* The handler has returned, the message is removed.                       *)
Remove(t) ==
  /\ At(t, "handled")
  /\ queue' = [queue EXCEPT ![t] = Tail(@)]
  /\ thread' = [thread EXCEPT ![t] = Waiting]
  /\ UNCHANGED <<connectionVars, publisher, faults>>

-----------------------------------------------------------------------------
Publishing == publisher.pc = "publish"

(* ReadFrom: the first MoveNext executes the reader.                       *)
OpenReader ==
  /\ publisher.pc = "idle"
  /\ ~Busy
  /\ readers' = {Publisher}
  /\ publisher' = [publisher EXCEPT !.pc = "publish", !.cursor = publisher.last]
  /\ UNCHANGED <<table, params, loadName, queue, thread, faults>>

(* On a busy connection it throws, and Run goes to sleep.                  *)
RefuseReader ==
  /\ publisher.pc = "idle"
  /\ Busy
  /\ publisher' = [publisher EXCEPT !.pc = "asleep"]
  /\ UNCHANGED <<connectionVars, queue, thread, faults>>

(* A row is read and published with the reader still open.                 *)
PublishNext ==
  /\ Publishing
  /\ publisher.found < BatchSize
  /\ publisher.cursor < Len(table)
  /\ publisher' = [publisher EXCEPT !.cursor = @ + 1, !.found = @ + 1]
  /\ UNCHANGED <<connectionVars, queue, thread, faults>>

\* The iterator is disposed.
CloseReader == readers' = readers \ {Publisher}

Ended(pc) == publisher' = [pc |-> pc, last |-> publisher.cursor, cursor |-> 0, found |-> 0]

(* Mutant: the loop looks for the next batch at once.                      *)
EndBatchWithoutSleep ==
  /\ Publishing
  /\ publisher.found = BatchSize \/ publisher.cursor = Len(table)
  /\ Ended("idle")
  /\ CloseReader
  /\ UNCHANGED <<table, params, loadName, queue, thread, faults>>

(* PublishEvents returns; unless it may have more, Run sleeps.             *)
EndBatch ==
  /\ Publishing
  /\ publisher.found = BatchSize \/ publisher.cursor = Len(table)
  /\ Ended(IF publisher.found = BatchSize THEN "idle" ELSE "asleep")
  /\ CloseReader
  /\ UNCHANGED <<table, params, loadName, queue, thread, faults>>

(* Mutant: the foreach is left without disposing the iterator.             *)
ThrowWithoutDispose ==
  /\ Publishing
  /\ faults < MaxFaults
  /\ faults' = faults + 1
  /\ publisher' = [publisher EXCEPT !.pc = "asleep", !.cursor = 0, !.found = 0]
  /\ UNCHANGED <<connectionVars, queue, thread>>

(* Publish throws: the foreach disposes the iterator and with it the reader. *)
Throw ==
  /\ Publishing
  /\ faults < MaxFaults
  /\ faults' = faults + 1
  /\ publisher' = [publisher EXCEPT !.pc = "asleep", !.cursor = 0, !.found = 0]
  /\ CloseReader
  /\ UNCHANGED <<table, params, loadName, queue, thread>>

-----------------------------------------------------------------------------
Handle(t) ==
  \/ BeginLoad(t) \/ ExecuteLoad(t) \/ CloseLoad(t) \/ SetParameter(t)
  \/ Execute(t) \/ Refuse(t) \/ Remove(t)

Loop == OpenReader \/ RefuseReader \/ PublishNext \/ EndBatch

Wake ==
  /\ publisher.pc = "asleep"
  /\ publisher' = [publisher EXCEPT !.pc = "idle"]
  /\ UNCHANGED <<connectionVars, queue, thread, faults>>

SqlNext == (\E t \in Threads : Handle(t)) \/ Loop \/ Wake \/ Throw

SqlSpec == SqlInit /\ [][SqlNext]_sqlVars

\* The sleep of Run, half a second or one, is longer than the handling of a
\* message: the threads are between two messages when it ends.
WakeAfterMessages == Wake /\ \A t \in Threads : At(t, "idle")

\* All threads keep running, a message that is peeked again and again is peeked
\* in one of the sleeps, and at some time messages no longer outlast them.
FairSqlSpec ==
  /\ SqlSpec
  /\ WF_sqlVars(Loop)
  /\ WF_sqlVars(WakeAfterMessages)
  /\ <>[][Wake => WakeAfterMessages]_sqlVars
  /\ \A t \in Threads :
        WF_sqlVars(Handle(t)) /\ SF_sqlVars(BeginLoad(t) /\ publisher.pc = "asleep")

-----------------------------------------------------------------------------
Stored(c, p, v) == \E k \in DOMAIN table :
  table[k] = [name |-> c, data |-> [cmd |-> c, part |-> p], version |-> v]

\* A command that is gone from the queue has all its events in its stream, one
\* after the other, whatever statement met the publisher's open reader.  This
\* counts on there being one message thread in a process: two threads on one
\* store, as in its test, would mix their parameters.
HandledMeansStored ==
  \A t \in Threads : \A i \in 1..Len(QueueOf[t]) - Len(queue[t]) :
     \E v \in 1..MaxRows : \A p \in 1..Parts : Stored(QueueOf[t][i], p, v - 1 + p)

\* Commands that were broken off have used up the bound on the rows.
Full == Len(table) = MaxRows

\* The two threads make each other fail, but the sleeps of Run keep neither out
\* for good: every queue is emptied ...
EventuallyHandled == \A t \in Threads : <>(queue[t] = <<>> \/ Full)

\* ... and every row is published.
RowsArePublished == \A k \in 1..MaxRows : Len(table) >= k ~> (publisher.last >= k \/ Full)
=============================================================================
