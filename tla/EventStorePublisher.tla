------------------------- MODULE EventStorePublisher -------------------------
(***************************************************************************)
(* The background loop that reads the event store by id and publishes what *)
(* it finds (EventStorePublisher.Run), with the document in which it keeps *)
(* the id of the last published event.  Command handlers add rows to the   *)
(* table meanwhile, publishing and storing may throw, and the process may  *)
(* be killed anywhere.  IEventPublisher is external here: `sent' counts    *)
(* how often it was handed each event with success.                        *)
(***************************************************************************)
EXTENDS Integers

CONSTANTS
  Engine,     \* the append-only store: "SQLite" or "SqlServer", which skips ids
  Truncates,  \* the document serializer empties the file before it writes (Json)
  BatchSize,  \* the count Run passes to PublishEvents
  MaxId,      \* bound on the identity column
  MaxFaults   \* bound on the exceptions and crashes

ASSUME PublisherAssumption ==
  /\ Engine \in {"SQLite", "SqlServer"}
  /\ Truncates \in BOOLEAN
  /\ BatchSize \in Nat \ {0}
  /\ MaxId \in Nat
  /\ MaxFaults \in Nat

VARIABLES
  log,      \* the ids in the EventStore table
  lastId,   \* the last identity value handed out
  doc,      \* the file of LastPublishedEventIdItem: an id, Missing or Emptied
  pc,       \* where the thread of Run is
  last,     \* lastPublishedEventId of Run, Null before it was read
  cursor,   \* lastPublishedEventId of PublishEvents
  snapshot, \* the ids in the table when the reader of ReadFrom was opened
  found,    \* foundCount of PublishEvents
  sent,     \* how often each event was published
  faults    \* exceptions and crashes so far

vars == <<log, lastId, doc, pc, last, cursor, snapshot, found, sent, faults>>

Missing == -1
Emptied == -2
Null == -1

Ids == 1..MaxId

\* The variables keep their types, and the loop publishes at most a batch.
TypeOK ==
  /\ log \subseteq Ids
  /\ lastId \in 0..MaxId
  /\ doc \in 0..MaxId \union {Missing, Emptied}
  /\ pc \in {"down", "top", "publish", "store", "write"}
  /\ last \in 0..MaxId \union {Null}
  /\ cursor \in 0..MaxId
  /\ snapshot \subseteq Ids
  /\ found \in 0..BatchSize
  /\ sent \in [Ids -> Nat]
  /\ faults \in 0..MaxFaults

Init ==
  /\ log = {}
  /\ lastId = 0
  /\ doc = Missing
  /\ pc = "down"
  /\ last = Null
  /\ cursor = 0
  /\ snapshot = {}
  /\ found = 0
  /\ sent = [i \in Ids |-> 0]
  /\ faults = 0

-----------------------------------------------------------------------------
(* A command handler stores an event.                                      *)
AppendEvent ==
  /\ lastId < MaxId
  /\ lastId' = lastId + 1
  /\ log' = log \union {lastId + 1}
  /\ UNCHANGED <<doc, pc, last, cursor, snapshot, found, sent, faults>>

(* An INSERT that violates the unique index consumes an identity value.    *)
SkipId ==
  /\ Engine = "SqlServer"
  /\ lastId < MaxId
  /\ lastId' = lastId + 1
  /\ UNCHANGED <<log, doc, pc, last, cursor, snapshot, found, sent, faults>>

(* EventStoreHost.Start runs the loop in a task of its own.                *)
Start ==
  /\ pc = "down"
  /\ pc' = "top"
  /\ last' = Null
  /\ UNCHANGED <<log, lastId, doc, cursor, snapshot, found, sent, faults>>

(* Mutant: the loop starts from the first event, whatever was saved.       *)
StartFromZero ==
  /\ pc = "top"
  /\ last = Null
  /\ last' = 0
  /\ UNCHANGED <<log, lastId, doc, pc, cursor, snapshot, found, sent, faults>>

(* The id is read from the document: 0 if there is none.                   *)
ReadLastPublishedEventId ==
  /\ pc = "top"
  /\ last = Null
  /\ doc # Emptied
  /\ last' = IF doc = Missing THEN 0 ELSE doc
  /\ UNCHANGED <<log, lastId, doc, pc, cursor, snapshot, found, sent, faults>>

(* An emptied file deserializes to null (or not at all), so item.Id throws; *)
(* the exception is logged and ignored, the loop comes back here for good. *)
ReadEmptied ==
  /\ pc = "top"
  /\ last = Null
  /\ doc = Emptied
  /\ UNCHANGED vars

(* PublishEvents opens the reader on the rows after lastPublishedEventId.  *)
OpenReader ==
  /\ pc = "top"
  /\ last # Null
  /\ pc' = "publish"
  /\ cursor' = last
  /\ snapshot' = log
  /\ found' = 0
  /\ UNCHANGED <<log, lastId, doc, last, sent, faults>>

\* Mutants: WHERE Id > @id, and ReadFrom(lastPublishedEventId).
UnreadAfterNext == {i \in log : cursor + 1 < i}
UnreadAgain == {i \in log : cursor <= i}

Unread == {i \in log : cursor < i}

\* The reader shows what was in the table when it was opened.  What is stored later it
\* may show or not: the scan may have come to its end before, with rows still in the
\* buffers of SqlDataReader, and SQLite shows other connections' rows of before only.
MayEnd == Unread \intersect snapshot = {}

\* Mutant: the SELECT without its ORDER BY.
IsReadable(i) == i \in Unread

\* ORDER BY Id.  Rows are stored in this order here, so that those before i were there
\* whenever i was read; EventPublication, where they need not be, takes apart the
\* reading of a row and its publication.
IsNext(i) == i \in Unread /\ \A j \in Unread : i <= j

\* Mutant: the count is tested one row too late.
BatchExceeded == found > BatchSize

BatchFull == found = BatchSize

\* Publish is called with event i and returns.
Publish(i) ==
  /\ sent' = [sent EXCEPT ![i] = @ + 1]
  /\ cursor' = i
  /\ found' = found + 1
  /\ UNCHANGED <<log, lastId, doc, pc, last, snapshot, faults>>

(* One turn of the foreach: the next row is read and published.            *)
PublishNext ==
  /\ pc = "publish"
  /\ ~BatchFull
  /\ \E i \in log : IsNext(i) /\ Publish(i)

\* The locals of PublishEvents go out of scope.
Leave == cursor' = 0 /\ snapshot' = {} /\ found' = 0

(* Mutant: Run goes on from LastUsedId instead of the last event published. *)
StoreLastUsedId ==
  /\ pc = "publish"
  /\ BatchFull \/ MayEnd
  /\ pc' = "store"
  /\ last' = lastId
  /\ Leave
  /\ UNCHANGED <<log, lastId, doc, sent, faults>>

(* The foreach ends, Run takes over the returned id and goes on to store it. *)
EndBatch ==
  /\ pc = "publish"
  /\ BatchFull \/ MayEnd
  /\ pc' = "store"
  /\ last' = cursor
  /\ Leave
  /\ UNCHANGED <<log, lastId, doc, sent, faults>>

(* Put opens or creates the file; SetLength cuts it before the writer is   *)
(* flushed.                                                                *)
OpenDocument ==
  /\ pc = "store"
  /\ pc' = "write"
  /\ doc' = IF Truncates \/ doc = Missing THEN Emptied ELSE doc
  /\ UNCHANGED <<log, lastId, last, cursor, snapshot, found, sent, faults>>

(* The writer is disposed: its bytes are in the file.                      *)
WriteDocument ==
  /\ pc = "write"
  /\ pc' = "top"
  /\ doc' = last
  /\ UNCHANGED <<log, lastId, last, cursor, snapshot, found, sent, faults>>

(* An exception out of ReadFrom, Publish, Put or Get: logged and ignored.  *)
(* What PublishEvents had counted is lost, `last' is what it was.          *)
Throw ==
  /\ pc # "down"
  /\ faults < MaxFaults
  /\ faults' = faults + 1
  /\ pc' = "top"
  /\ Leave
  /\ UNCHANGED <<log, lastId, doc, last, sent>>

(* The process is killed.                                                  *)
Crash ==
  /\ pc # "down"
  /\ faults < MaxFaults
  /\ faults' = faults + 1
  /\ pc' = "down"
  /\ last' = Null
  /\ Leave
  /\ UNCHANGED <<log, lastId, doc, sent>>

Loop ==
  \/ ReadLastPublishedEventId \/ OpenReader \/ PublishNext \/ EndBatch
  \/ OpenDocument \/ WriteDocument

Next == AppendEvent \/ SkipId \/ Start \/ ReadEmptied \/ Loop \/ Throw \/ Crash

Spec == Init /\ [][Next]_vars

\* The loop thread keeps running, a killed process is started again, and only
\* MaxFaults things go wrong.
FairSpec == Spec /\ WF_vars(Loop) /\ WF_vars(Start)

-----------------------------------------------------------------------------
Published(i) == sent[i] > 0

\* Where the loop stands: what it takes to be published already.
Position ==
  IF pc = "publish" THEN cursor ELSE IF last # Null THEN last ELSE doc

\* Everything up to the id in the document has been published: whatever crashes
\* or throws, no restart resumes behind an event that was never published.
NothingSkipped == \A i \in log : i <= doc => Published(i)

\* Events are published for the first time in the order of their ids.
FirstTimeInOrder ==
  \A i, j \in log : i < j /\ Published(j) => Published(i)

\* Only an exception or a crash makes an event be published twice.
RepeatsNeedFaults == \A i \in Ids : sent[i] <= 1 + faults

\* An event the document already accounts for is never published again.
NoRepeatOnceSaved ==
  [][\A i \in Ids : sent'[i] # sent[i] => doc < i]_vars

\* The loop is never behind its document, although failed writes and restarts
\* leave the two at different ids: what it stores next never falls back.
LoopNotBehindDocument == last # Null => doc <= last

\* Every stored event is published in the end, unless a crash in the middle of
\* Put left the emptied file that no later start can read.
EventuallyPublished ==
  \A i \in Ids : i \in log ~> (Published(i) \/ (doc = Emptied /\ last = Null))
=============================================================================
