# Xyperico: a verification project

Xyperico is a collection of C# libraries. Its core is **Xyperico.Agres**: event
sourcing (an append-only event store, a document store), a message bus over MSMQ
with publish and subscribe, and the loop that publishes stored events to the bus.
Around it are small libraries: MongoDB and NHibernate repositories, domain events,
discovery over HTTP. This directory holds TLA+ models of the core and of the parts
of the libraries that share state between threads, clients or requests, TLC
configurations that check them on small instances, and theorems that TLAPS proves for
all instances of the core.

Short names used below (under `src/Xyperico.Agres/`): `A/` is `Xyperico.Agres/`.

## The system

A *process* (TestServer is the sample) is configured, then started
(`BaseConfigurationExtensions.Start`): it sends its SubscribeCommands, starts the
publisher loop in a task of its own, and begins to peek its input queue. From
then on three things run concurrently on shared state:

* the **message thread** takes one message after the other from the input queue
  and dispatches it: commands change aggregates, SubscribeCommands change the
  list of subscribers, events of other processes are handled;
* the **publisher thread** reads new rows from the event store and sends them to
  the queues of the subscribers, and keeps the id of the last one in a document;
* **other processes** do the same against the same database and send messages
  into the same queues.

Any of them may throw anywhere, and any process may be killed between two steps.

### Inventory

| Component | State | Operations | Talks to | What is hard | What makes it correct |
|---|---|---|---|---|---|
| Relational append-only stores (`SqlAppendOnlyStore`, `SQLiteAppendOnlyStore`) | table EventStore (Id, Name, Data, Version), unique index on (Name, Version), identity; one connection with its commands | Append, Load, ReadFrom, LastUsedId | the database | several processes; identity used up or rolled back by failed inserts; `synchronous=OFF`; parameters shared by threads | versions without gaps, ids in the order of versions, a conflict whenever someone was faster |
| In-memory store (`InMemoryAppendOnlyStore`) | dictionary of streams, list of all events, lock | the same | threads of the process | Load takes no lock and returns the live entry | entries and list agree; nobody decides on stale data |
| Event store, repositories, aggregates (`EventStoreDB`, `GenericRepository`, `GenericApplicationService`, `AbstractAggregate`) | per command: the aggregate, its version, its changes | Load, restore, VerifyCommand, update, Append in a loop | a store | stale aggregate; batch of events without transaction | no lost update, contiguous batches, VerifyCommand's rules hold in the stream |
| Event publisher (`EventStorePublisher`, `EventStoreHost`, `MessageBusEventPublisher`) | id in memory, id in the document | Run, PublishEvents, Read-/StoreLastPublishedEventId | event store, bus, document store | crash or exception between publish and store; rows that come while reading; document emptied by a crash | every event published, in order, repeated only after a fault |
| Publish and subscribe (`MessageBus`, `SubscriptionService`, `SubscriptionMessageHandlers`) | a document per event type with the subscribers' queues | Publish, Send, Subscribe, AddSubscriber, GetSubscribers | document store, queues, routes | two threads open one file; read-modify-write; partially sent events; late subscribers | no registered subscriber misses an event; no gaps |
| MSMQ source and sink (`MSMQMessageSource`, `MSMQMessageSink`) | the queue | Start, HandleMessageReceived, Send | MSMQ, dispatcher | a message is removed after its handler; retry; rejected head | nothing lost, queue order, done twice only after a fault |
| Host and dispatcher (`MessageBusHost`, `MessageDispatcher`) | handlers by message type | RegisterMessageHandlers, Dispatch | handlers | several handlers of a message and a retry; order by inheritance | base classes first; each handler once per attempt |
| Routing (`RouteManager`, `RouteRegistration`) | list of routes | AddRoute, GetDestinationForMessage | bus | prefix matching, first match wins | a destination whenever a route matches |
| Document store (`FileDocumentStore`, `DocumentRepository`, serializers) | one file per key | Put, TryGet, TryDelete, Clear | file system | File.Exists before open; exclusive opening; truncation | last document put, or the one before, never a mixture |
| Configuration | dictionary of settings | With..., Set..., Done, Start | everything | calls in the right order, once | a started process has all its parts |
| Serialization, identities, reflection | static caches | Serialize, Deserialize, InvokeMethodOptional | third-party serializers | static caches filled by several threads | round trip |
| MongoDB repositories (`MongoDBGenericVersionedRepository`, `CounterCollection`) | a document per entity with its version, a document per counter | Add, SaveVersioned, Put, Remove, Get; Next | MongoDB | an update that changes nothing is not noticed; a first use by two processes; lost answers | nobody's saved change is overwritten; every number handed out once |
| NHibernate sessions (`NHibernateSessionManager`, repositories) | factories and configurations of all threads, sessions of each context | GetSessionFrom, CloseSession, Add, Update, Delete | NHibernate | building fails half-way; Flush throws | a session is open exactly as long as its context has it; what was flushed is stored |
| Base library: domain events (`DomainEventManager`), sort keys, command line, validation, formats | list of callbacks of the thread | RegisterAction, ClearCallbacks, Raise, Dispose | handlers of the container | the list changes while it is gone through; nested calls | a Raise that returns has called everyone |
| Xyperico.Net (`YadisRequest`) | connections held by a lookup | GetYadisDocument | HTTP | recursion with open responses; circles of headers | every lookup ends |
| Xyperico.Web, TestWebServer | | | MVC | | |

PROJECT.json lists the same components with their sources and the share that is
modelled, and under "hazards" where in the code each difficulty bites.

## Modules

```
StreamHistory            what a store promises: one history per aggregate
  ^ ImplementsHistories
EventStore               command handlers of several processes over SQL Server or SQLite
SqlAppendOnlyStore       the threads of one process on one connection
  RelationalStore_proofs the invariants of both, and the refinement
InMemoryEventStore       the same as EventStore over the in-memory store, thread steps
  InMemoryEventStore_proofs
EventStorePublisher      the publisher loop, any IEventPublisher
  ^ ImplementsPublisher
EventDelivery            loop + MessageBus.Publish + SubscribeCommands, two threads
  EventDelivery_proofs   the refinement, and who receives what
EventPublication         loop + INSERTs under way, power failures (extends EventStorePublisher)
  EventPublication_proofs  the loop for itself, and over this table
CommandProcessing        input queue, retries and the event store behind it
MessageDispatcher        registration of handlers, dispatch to several of them
  MessageBus_proofs      the invariants of both
DocumentRegister         what a document store promises: one document per key
  ^ ImplementsRegister
FileDocumentStore        its operations and serializers, file operation by file operation
  FileDocumentStore_proofs
VersionedRepository      an entity in MongoDB and the clients that save it
  VersionedRepository_proofs
NHibernateSessions       session factories, sessions per context
  NHibernateSessions_proofs
```

`MC<Module>` instantiates a module for TLC (symmetry sets, concrete commands, types
and queues). Mutants (definitions marked so in a comment) are wrong versions of the
definition after them; no specification uses them. Every component has a type invariant
`TypeOK` (`PublicationTypeOK` in EventPublication, which has that of the loop too,
`SqlTypeOK` and `DispatcherTypeOK` where one proofs module has two components); three
runs check it, where it says more than types, and it is proved for every component (for
one message thread in SqlAppendOnlyStore).

### EventStore (and StreamHistory)

State: `rows` is the table, `lastId` the identity, `worker[w]` what the message
thread of process w has on its stack: the aggregate as `seen` (ids of the events it
was restored from), the version of its EventStream as `base`, and the position
`expected`, `todo` of the loop in `EventStoreDB.Append`.

| Action | Code |
|---|---|
| `Get` | `GenericRepository.Get`, `EventStoreDB.Load`, `Load` of the store: one SELECT |
| `Reject`, `Update` | `VerifyCommand` (Forum), the update function and the events it publishes |
| `AppendChange` | one turn of the loop in `EventStoreDB.Append`: INSERT with expectedVersion + 1 |
| `Conflict` | the unique index: `VersionConflictException` leaves the loop, what was inserted stays |
| `Fail` | any other exception, or the end of the process |
| `PowerLoss` | SQLite with `synchronous=OFF` loses the end of the table with its sequence |

`seen`, `writer` and `base` of a row are history variables. Data, serialization and
the texts of exceptions are left out; an event is its kind and place.

`StreamHistory` is the abstract specification: every aggregate has one history to
which single events are added by an aggregate that knew all of it; if the store is
not durable the histories may lose their ends. `ImplementsHistories` maps the table
to it, reading from each row how much its aggregate knew.

### InMemoryEventStore

The steps are those that a thread without the lock can tell apart: `Load` hands out
the live entry, `Copy` and `ReadVersion` are the two reads of `EventStoreDB.Load`,
`Enter`, `AddData`, `BumpVersion` and `AddEvent` the statements under the lock.
`Copy` throws if the list has grown meanwhile, as its enumerator does; `SerializeThrows` is
an event of a batch that cannot be serialized, after the ones before it were stored.

### EventStorePublisher

State: `log` and `lastId` (the ids in the table and the identity), `doc` (the file of
LastPublishedEventIdItem: an id, Missing or Emptied), `pc`, `last`, `cursor`, `found`
(the locals of Run and PublishEvents), `snapshot` (the ids in the table when the reader of
ReadFrom was opened, which it is sure to show), `sent` (history).

| Action | Code |
|---|---|
| `Start` | `EventStoreHost.Start` |
| `ReadLastPublishedEventId`, `ReadEmptied` | the document, 0 without one, an exception for ever if it is empty |
| `OpenReader`, `PublishNext`, `EndBatch` | `PublishEvents` over the lazy `ReadFrom`; each turn reads a row and publishes it |
| `OpenDocument`, `WriteDocument` | `FileDocumentStore.Put`: Json cuts the file before its writer is flushed |
| `Throw`, `Crash` | the catch block of Run; the end of the process |
| `AppendEvent`, `SkipId` | command handlers; an identity that SQL Server uses up without a row |

The loop's defence against ids that go backwards (`item.Id < lastPublishedEventId`)
is never reached, because of the ORDER BY, and is not modelled as a step. An insert
is one step here, and so is a turn of the foreach; where rows are stored in the order of
their ids nothing is lost by that. EventPublication takes both apart. Rows stored after the
reader was opened may be shown by it or not (`MayEnd`).

### EventPublication

The loop of EventStorePublisher, which it extends, over a table that does not grow in the
order of its ids, for either database (`database` is chosen in PublicationInit; `Engine`
plays no part). Instead of `AppendEvent` and `SkipId`, `Allocate`, `Commit` and `RollBack`
are an INSERT of SQL Server: the identity is given out first, the row can be read later, in
another order than those of other processes or never. `PowerLoss` is SQLite with
`synchronous=OFF`: the end of the table and its sequence are gone, the ids are given out
again, while the document of the loop (a file of its own) has them already.

The steps of the loop are `Step` and `Fault`, and for `PublishNext` there are two:
`ReadFrom` is lazy, but SqlDataReader and the server take rows over in advance, while the
loop is still sending the ones before. `Fetch` is the scan coming to one more row, at any
time while the reader is open; it puts the row into `fetched`. `PublishFetched` is `Read`
returning the first of them and the call of Publish. A scan may go past what it need not
show: `Shown` is all that is stored for SQLite, where no INSERT comes between another one
and its commit, and for SQL Server, at any isolation level, what was there when the reader
was opened. What ends the foreach or its process drops the rows that were fetched.

`overtaken` and `reissued` are history: the ids left out by the scan before a row that was
published, whether their rows were committed before that publication or after it, and the
ids given out again. The properties say that these are the only ones the loop skips, and
that all others are published in the end: the window is real and nothing in the code closes
it; it is as long as the reader is open, that is as long as a batch takes to be sent.

### EventDelivery

`EventStorePublisher` is instantiated with the same variables; its `PublishNext` is
replaced by the call of `MessageBus.Publish` taken apart: `CallPublish`,
`GetSubscribers`, one `Send` per subscriber, `PublishReturns`. On the message thread
`ReadRegistration`, `OpenForPut` and `WriteRegistration` are `AddSubscriber` (TryGet,
exclusive Put), `RemoveRequest` and `HandlerThrows` the end of the message with and
without success, `Subscribe` the sending of a SubscribeCommand by a subscriber. Both
threads open one file; who comes second gets an exception (`Throw`, `HandlerThrows`).
`copies` and `joined` are history.

### CommandProcessing

The input queue of one process with `MSMQMessageSource.HandleMessageReceived`: `Load`
(peek, dispatch, restore, verify), `Reject` (the message stays and is peeked again),
`StoreNext`, `Conflict`, `Throw` and `ReceiveById`. `ForeignAppend` are other processes
on the same streams. MSMQ is external: a recoverable queue that keeps its order.

### SqlAppendOnlyStore

One `SqlAppendOnlyStore`: a connection and a command with its parameters for each
operation, used by the message thread and the publisher, in the tests by ten threads.
`BeginLoad`/`ExecuteLoad`/`CloseLoad` and `SetParameter` (name, data, version)/`Execute`
are the statements of Load and Append that another thread can get between; `OpenReader`
.. `EndBatch` the loop with its reader open while it sends. `Refuse` and `RefuseReader`
are the exceptions of a busy connection (no MARS in the connection string): the message
is peeked again, the loop sleeps. `Wake` ends the sleep of Run.

### FileDocumentStore (and DocumentRegister)

State: `serializer` (chosen in Init), `directory`, `file` (a sequence of chunks, so that an
old document can be left behind a new one), `opened` (File.Open is exclusive), `client`
(the call each thread is in). `OpenPut`, `WriteChunk`, `SetLength`, `EndPut` are Put with the
order of the serializer: JsonNet cuts the file before the last buffer is flushed, Bson
and ProtoBuf after all was written, DataContract never. `FindToGet`/`OpenGet`/`Read` and
`FindToDelete`/`Delete` are TryGet and TryDelete with File.Exists first; `ClearFile`
passes over files it cannot delete. `TearPut` is a serializer that throws or a process
that ends. `DocumentRegister` is the abstract specification: calls take effect in one
step or fail (only a `Clear` may be done without an effect); of a torn Put the old document, the new one or an unreadable one is left.

### MessageDispatcher

`RegisterMessageHandlers` of an assembly adds each of its handlers to the list of its
parameter's type and of all types of that assembly which inherit from it, and sorts by
inheritance (`AppendedSorted`; the sort need not be stable, so every order with
base types first is a next state). `StartHost` waits for all assemblies; `Receive`,
`Invoke`, `RemoveMessage`, `HandlerThrows`, `HostCrashes` are `Dispatch` behind the
message source. The convention that makes a method a
handler is given by `Handlers`, `Parameter` and `SeenBy`.

### VersionedRepository

`Get`, `Construct`, `Change` and the writing methods over one document: `SaveVersioned`
raises the version of the caller's copy, updates the document that has the version before
it, if there is one, and takes the version back if the driver throws (`SaveThrows`; before
the server has it or after). It takes any copy: `CanSave` guards nothing but the bound on
the version. It never looks how many documents were updated: `origin` of a copy whose save
found nothing becomes "ignored", which its client is not told. `careless` is history: what
was done that versions do not guard, which is Put, Remove, a save of an ignored copy, a
save of a constructed copy (version 0) that meets a document of version 0, and a save while
there is no document. Each property names the cases it does not hold after.

### NHibernateSessions

`GetSessionFrom`, `EnterLock`, `Configure`, `AddAssemblies`, `Build`, `OpenSession` are
the steps of `GetSessionFrom` and `GetSessionFactoryFor`, each with its failing twin;
`Change` the repositories' writes; `CloseSession`, `FlushFails` and `CloseElsewhere` (the
session was closed by other code) the ways out. NHibernate is external: a session keeps
changes until a flush, a mapping assembly can be added to a configuration once.

## Runs

| Run | Question | Bounds |
|---|---|---|
| EventStore_SQLite | do interleaved handlers, torn batches and power failures leave gapless streams without lost updates; does the table behave as one history per aggregate | 2 workers, 2 aggregates, ids to 4, 2 events a command |
| InMemory | data, versions and the list agree under the lock; stale versions are caught; what reads without the lock can do | 2 threads, 2 aggregates, 3 events, 2 a command |
| Publisher | at least once, in order, bounded repeats, nothing skipped, everything published in the end | batch 3 (as in Run), ids to 5, 3 faults, SQL Server |
| Publication | which events the loop skips when ids become visible out of order or are given out twice; all others are published | both databases, batch 2, ids to 4, 2 faults |
| Delivery_safety | no subscriber missed, no gaps, bounded copies; the composition implements the loop | 2 subscribers, 1 request in the queue, 3 ids, 1 fault in each thread |
| Delivery_live | registration and delivery happen | 1 subscriber, 2 requests, 2 ids, 1 fault in each thread |
| Commands | removed means stored, queue order, completed twice only after faults, every command handled or the queue blocked by a rejected one | 3 commands on 2 aggregates, 2 events each, 2 foreign events, 2 faults |
| SqlStore | what is removed from the queue is stored, whatever met an open reader; neither thread starves the other | 1 message thread, 2 commands of 2 events, batch 3, 6 rows, 2 faults |
| Documents | calls look atomic, nothing of an old document is left | JsonNet, Bson and ProtoBuf, 2 clients, 2 keys, documents of 1 and 2 chunks, 1 fault |
| Dispatch | base first; removed means every handler ran | 2 types, 3 handlers in 2 assemblies, 2 messages, 3 registrations, 1 fault |
| Repository | who overwrites a saved change; a copy is never ahead of the document | 3 clients, version to 2, 2 changes, 1 fault |
| Sessions | exceptions only after faults, no session forgotten, no change lost by a close | 2 contexts, 2 databases, 3 sessions, 2 changes, 2 faults |

*Why these bounds are enough to be interesting.* Two workers and two aggregates give
every conflict and show that streams do not disturb one another; four ids let two
batches of two interleave on one stream, be torn and be lost by a power failure; the
fifth event of the publisher starts a second batch after a full one; a fault in every
step, and in the step after it, is reached with two or three of them. One pending
request with two subscribers lets a registration arrive between any two steps of a
batch that is being repeated; requests keep coming, so a second handling of the same
subscriber is included. Documents of two lengths are what a cut needs. Three clients of an
entity let two of them race behind the back of the third; two assemblies and a type with an
heir are what the order of handlers needs, and a third registration repeats one. Two contexts
that ask for one database together, and for the other one after a failure, reach every order
of the steps of the double-checked lock. All counters are bounded by constants whose names
start with Max, and commented where they are declared.

Runs without deadlock check are those in which the system may really stop: the queue is
empty and nobody is to send, the calls, versions or sessions of the bound are used
up.

*Fairness.* `WF_vars(Loop)`, `WF_vars(Start)` and `WF_vars(Handle)`: the threads of a
running process go on (Run is an endless loop, every callback ends by BeginPeek), and a
process that died is started again. Faults and foreign events are bounded, so only
finitely many exceptions, conflicts and crashes delay things: the code retries without
a limit but has nothing that would win against an endless stream of sharing violations.
Nothing is assumed about an emptied document or a rejected head; the liveness properties
name them as the exceptions they are.

EventPublication adds that an INSERT under way ends (committed or rolled back). Its reader
is enabled to fetch or to go on as long as the loop is, so one weak fairness covers both.

In EventDelivery both threads open the file of the registration, and who comes second gets
an exception; `SF_vars(GetSubscribers)` says that the publisher is not for ever the second:
subscribers send their SubscribeCommands when they start, so these do not keep the document
in use all the time.

In SqlAppendOnlyStore both threads can refuse one another for ever, and it is time that
prevents it: `WakeAfterMessages` says that a sleep of Run (half a second, or one) is longer
than the handling of a message; the fairness asks for it from some time on, not always, so
the safety property is checked with sleeps that end at any moment. Its strong fairness
says that a message which is peeked again and again is peeked in a sleep. Both are facts
about durations that the code relies on without saying so. Where commands that were broken
off use up the bound on the rows, the liveness properties say so (`Full`).

## Where the code and its words part

The properties of the runs say what the code does. Where a comment, a message or a test
says more, the property names the exception exactly; some of these can be seen by giving
a constant another value.

* `InMemoryAppendOnlyStore.Load` returns the live entry without the lock. An append between
  the two reads of `EventStoreDB.Load` makes an aggregate of the old events with the new
  version, which passes VerifyCommand ("Cannot re-create forum") and the version check.
  `RecreatedOnlyIfTorn` says that this is the only way to a second created event.
* The comment "Reset latest ID" in the catch block of Run describes something the block does
  not do. NothingSkipped and NoRepeatOnceSaved hold all the same: the id in memory never
  falls behind the document (`LoopNotBehindDocument`, proved).
* SQL Server's `IDENT_CURRENT - 1` is right for a new table only; the test
  CanReadRangeOfEvents counts on `LastUsedId + 1` being free. `NothingAfterLastUsedId` is
  proved for SQLite; with `Engine = "SqlServer"` TLC refutes it after two events.
* SQL Server gives ids out before the rows are visible, SQLite gives ids out again after a
  power failure. In both cases the loop passes events by. `SkippedOnlyIfUnseen` names the
  two cases (the event was stored after the reader was opened and the scan had passed its
  id; the id was given out a second time) and excludes all others.
* Append and Load fill the parameters of one shared SqlCommand without a lock. One message
  thread per process keeps calls apart; the test CanHandleMultipleParallelWorkers has ten
  and checks nothing of what it stored. With `Threads <- TwoThreads`,
  `QueueOf <- TwoQueues`, `Parts = 1` TLC refutes HandledMeansStored; the run and the theorem
  have one message thread, so nothing that holds covers this hazard.
* DataContractDocumentSerializer never cuts the file, so the end of a longer document stays
  behind a shorter one. With "DataContract" among the `Serializers` TLC refutes NothingLeft.
* The overload of RegisterMessageHandlers with one assembly and a convention does not sort:
  with `SortsAll = FALSE` BaseFirst is refuted. Handlers of a base type are registered only
  for heirs in the assembly of their parameter's type, and a message without a handler is
  removed: with `AssemblyOf <- TwoAssemblies` RemovedMeansHandled is refuted.
* SaveVersioned raises the version of the copy even if the update found nothing; the next
  save of that copy overwrites the change of another client. Nor does it ask where a copy is
  from: one that was constructed, not read, has version 0 and overwrites a document of
  version 0. `StoredChangesStay` has these two as its exceptions besides Put and Remove. A
  copy that is saved before its entity was added is at version 1 for nothing, and ahead of
  the entity once another client has added it; `VersionNotAhead` excepts such saves. Put, "Add new or update existing", only
  updates.
* A configuration of NHibernate is cached before its assemblies are added. If building fails
  once, every later call adds them again and throws; `ThrowsOnlyAfterFault` says that only
  the path whose build failed is hurt.
* Seen while reading, in code that is not modelled: SetEventPublisher looks for the key of the
  document serializer, and so refuses the first event publisher after one was set.

## Theorems

All proofs are for arbitrary workers, clients, aggregates, commands, subscribers, batch
sizes, bounds and numbers of faults, from the named assumptions on the constants only:
engine one of the two, bounds natural numbers, batch size positive, every command with a
target, and values that stand for "nobody", "none" or "another process" different from
those they are told from (`NoThreadAssumption`, `NobodyAssumption`, `NoneAssumption`,
`OtherAssumption`, `ThreadAssumption`). Of the message handlers there are finitely many.
A theorem that needs more of the constants says so in its own ASSUME; those are named below.
Each module has an inductive invariant, which TLC checked on the instance of the run
before it was proved; its parts are named for what they say.

* **RelationalStore_proofs.** Of EventStore: IInv strengthens the properties by what the
  handlers have on their stacks: the version a handler expects is that of a prefix of
  the stream it has seen, its own batch is the end of the stream as long as the next
  version is free, ids grow with versions, and what a batch was decided on is a whole
  prefix of its stream. That is needed because the properties speak of rows only, while
  the next row is made from the stack. Proved: TypeOK, GaplessVersions,
  IdsFollowVersions, NoLostUpdate, BatchesAreContiguous, CreatedFirstAndOnce, and
  NothingAfterLastUsedId for SQLite. `HistoriesAreImplemented` is the refinement: since
  streams are gapless, the history of a stream is told by its length alone, so an INSERT
  appends one event and a power failure cuts an end off; that its aggregate knew the
  whole history is IInv.
  Of SqlAppendOnlyStore: SInv says what a thread between two statements of Append counts
  on: the parameters it has assigned so far hold what it was passed (`Assigned`), the
  stream ends at the version it expects, and the parts it has appended are that end
  (`InProgress`), so that a handled command is stored when it leaves the queue. Only one
  thread may fill the parameters: SqlTypeCorrect and `HandledIsKept` (HandledMeansStored)
  assume that there is one message thread, as MSMQMessageSource has, and TLC refutes the
  latter for two (above). The publisher may open its reader between any two statements.
* **InMemoryEventStore_proofs.** MInv says how far a thread is ahead of the list inside
  the lock (`Entries`, `EventsHeld`), that a version read without the lock is never
  above the entry's (`Threads`), and that a thread has stored alone since its base
  (`Batches`). Proved: TypeOK, EntriesMatchEvents, OnlyOwnEventsSinceBase and
  RecreatedOnlyIfTorn. EntriesMatchEvents says by an order-preserving function what
  filtering the list would say by recursion, of which the provers know nothing.
* **EventPublication_proofs.** Of the loop for itself: PInv adds to the properties where the
  loop stands (`Position`): all up to it is published, and whatever lies beyond was sent at
  most as often as things went wrong. That makes RepeatsNeedFaults inductive: a repeat
  starts from a position that a fault has set back. Proved of EventStorePublisher: TypeOK,
  NothingSkipped, FirstTimeInOrder, RepeatsNeedFaults, LoopNotBehindDocument and, as an
  action property, NoRepeatOnceSaved.
  Of the loop over ids that become visible out of order: UInv accounts for every id behind
  the loop: published, overtaken or reissued, and the same for ids still being inserted,
  which will not be seen. Since rows wait in the reader while others are stored, it has to
  say the same of the scan (`Buffered`): every id between the loop and a fetched row was
  fetched too or is among those the scan left out. Proved of EventPublication:
  PublicationTypeOK and SkippedOnlyIfUnseen, however many rows are fetched in advance.
* **EventDelivery_proofs.** `Refinement`: every step of the process is one of the loop with
  an atomic Publish, or one that the loop does not notice (`PublisherIsImplemented` states
  it as ImplementsPublisher, the property of the run), so the theorems about
  EventStorePublisher hold of the composition (`LoopInvariant`). DInv adds that
  registrations only grow, that the copy of the message thread is the document, and that
  whoever is to have the event in publication is on the list of the call or has it. SInv,
  on top of it and of PInv, adds what an attempt that failed half-way leaves: events ahead
  of the loop were sent only by such attempts, and whoever received an earlier event is on
  the list of the call or has the event. Proved of EventDelivery: TypeOK,
  NoSubscriberIsMissed, ReceivedWithoutGaps, CopiesNeedFaults. (The proof corrected
  ReceivedWithoutGaps: without its `Position` it held in the instance of the run only,
  since a subscriber that joins during a repeat gets an event before the one in front of it
  is sent again.)
* **MessageBus_proofs.** Of CommandProcessing: PInv says that the queue is the end of what was sent,
  that only its head and what went before have events (`NothingEarly`), that the events
  stored for the head end where the thread expects the stream to end, however much
  others append behind them (`InProgress`), and counts completions: one more than the
  faults only from the last event until the removal. Proved: TypeOK, RemovedMeansStored,
  StoredInQueueOrder and CompletedTwiceNeedsFaults.
  Of MessageDispatcher: DInv says that the index is complete for the assemblies registered
  so far (`IndexIsComplete`), which needs that a registration keeps what the lists had and
  adds all it found (lemmas about `Occurrences` and `Lists`); that no host runs without
  all assemblies; that an attempt is the part of the list it has passed, and all on it
  have returned (`AttemptFollowsList`); and that a message that is gone was handled by
  whoever registers for its type. Proved: DispatcherTypeOK, BaseFirst for the overloads that
  sort, and RemovedMeansHandled where types that inherit from one another are in one
  assembly. Without these two conditions TLC refutes them (above). The invariant itself
  needs neither.
* **FileDocumentStore_proofs.** FInv says what a Put has made of the file so far (`Put`): up
  to its position the chunks of the new document, behind it what is left of the old one,
  nothing once the file is cut, and before the first chunk the old document as it was.
  So a torn Put leaves the old document, the new one or one that nobody can read, and one
  that ends leaves the new one. `RegisterIsImplemented` maps the document of a key under
  Put to what could be read before it; every call takes effect where it closes, reads or
  deletes the file. Proved: TypeOK, NothingLeft and ImplementsRegister, the last two for
  stores without "DataContract", with which they are false.
* **VersionedRepository_proofs.** RInv adds that a copy with the version of the document
  has all its changes, unless it was ignored or constructed, which is why a save that finds
  its version overwrites nothing; that a copy which was read or saved is never ahead, even
  after saves without a document (`KnownNotAhead`); and that before the entity is added there
  are only copies that were constructed (`Beginning`).
  Proved: TypeOK, StoredChangesStay, VersionNotAhead.
* **NHibernateSessions_proofs.** NInv has two parts that share only the types: who holds
  the lock builds a factory that is missing, and a context has sessions of its own only
  and opens one where it has none. Proved: TypeOK, ThrowsOnlyAfterFault,
  NoSessionIsForgotten, ChangesAreKept.

The run of the event store has SQLite; that the invariants hold for SQL Server, where ids
have gaps, is what the theorems add. LoopNotBehindDocument, CreatedFirstAndOnce and
NothingAfterLastUsedId are proved without a run of their own.

Only model-checked is liveness (EventuallyPublished, EventuallyPublishedIfSeen,
EventuallyRegistered, EventuallyDelivered, HandledUnlessBlocked, EventuallyHandled,
RowsArePublished): fairness and ENABLED are out of the prover's reach. Every safety
invariant, action property and refinement that a run checks is a theorem.

## Plan

The plan is carried out: the components with state that several threads, processes or
clients share are modelled, their properties checked, and all that is not liveness proved.
What a change of the code would touch first: a fix of one of the disagreements above turns
an exception in a property (`RecreatedOnlyIfTorn`, `SkippedOnlyIfUnseen`, `StoredChangesStay`,
`ThrowsOnlyAfterFault`) or an ASSUME of a theorem (`HandledIsKept`, `BaseTypesFirst`,
`GoneWasHandled`) into something that can be dropped.

## Not modelled

* Configuration: a dictionary of settings filled by one thread before anything is started, a
  table of which call needs which. Routing: a list of routes that is complete before the first
  look-up, prefix tests in order. Domain events (`DomainEventManager`): callbacks of one thread.
  Nothing of this is concurrent and a unit test reaches all of it.
* CounterCollection: `Next` is one atomic FindAndModify of the server; two first uses of a counter
  may meet, and one gets the duplicate-key exception (a hazard in the list). YadisRequest: recursion
  over what foreign servers answer.
* Serialization to bytes, reflection, logging, the lengths of sleeps and settings files: no property
  depends on them, save that a sleep is longer than a message (above).
* The inside of MSMQ, the databases, NHibernate, HttpWebRequest and the runtime's
  collections: external, modelled by what the code relies on. Races inside the runtime's
  Dictionary (InMemoryAppendOnlyStore.cs:47, MethodInvoke.cs:48) are listed hazards without a
  property, since their outcomes are not those of this code.
* Unsubscribe (throws NotImplementedException); GetConfigurationFrom called from outside
  (nobody does); versions that start again when an entity is removed and added anew.
* The view location cache of Xyperico.Web: it is DefaultViewLocationCache.Null and nothing sets
  another. CommandLineDictionary is Microsoft's code; sort keys, validation, vCard and hCard
  are small sequential conversions; the testing, WPF and NServiceBus helpers call other frameworks.
* The JavaScript in Xyperico.TestWebServer/Scripts: jQuery, its plugins and Microsoft Ajax as they were
  published. No line of it belongs to this project, and the sample site only loads it. All code
  of the project is C#, and the map names C# sources only.

## Running

`tlc -config <Run>.cfg <Module>.tla` for each entry under "runs" of PROJECT.json, and
`tlapm <Name>_proofs.tla` for each of the eight proofs modules. Delivery_safety, Repository
and Sessions are the largest runs, with more than a million distinct states and a minute or
two each.
