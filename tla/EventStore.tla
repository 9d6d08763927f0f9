----------------------------- MODULE EventStore -----------------------------
(***************************************************************************)
(* Command handlers over the relational append-only stores.                *)
(*                                                                         *)
(* Several workers, each the message thread of a process with its own      *)
(* connection to one database, run GenericApplicationService.Update: load  *)
(* the events of an aggregate, restore it, verify the command, let it      *)
(* publish events, and append these one INSERT at a time.  The only        *)
(* concurrency control is the unique index on (Name, Version): there is no *)
(* transaction around the loop of EventStoreDB.Append, so a batch may be   *)
(* torn by a conflict or a crash.  (Threads that share a connection are    *)
(* the subject of SqlAppendOnlyStore.)  The table is the set `rows'; id,   *)
(* name and version are columns, kind stands for the serialized event.     *)
(*                                                                         *)
(* History, not in the code: `writer' and `base' of a row (who inserted    *)
(* it, and the EventStream.Version of the aggregate that decided it) and   *)
(* `seen' (the ids of the rows that aggregate was restored from).          *)
(***************************************************************************)
EXTENDS Integers, FiniteSets

CONSTANTS
  Workers,     \* threads that handle commands
  Aggregates,  \* aggregate identities: the names of the streams
  Engine,      \* the append-only store: "SQLite" or "SqlServer"
  MaxId,       \* bound on the identity column
  MaxBatch     \* bound on the events one command publishes

ASSUME EngineAssumption == Engine \in {"SQLite", "SqlServer"}
ASSUME BoundsAssumption == MaxId \in Nat /\ MaxBatch \in Nat

VARIABLES
  rows,     \* the EventStore table
  lastId,   \* the last identity value handed out (SQLITE_SEQUENCE.seq, IDENT_CURRENT)
  worker    \* what each thread has on its stack

vars == <<rows, lastId, worker>>

Commands == {"create", "update"}
Kinds == {"created", "updated"}

Row == [id : Nat \ {0}, name : Aggregates, version : Nat \ {0}, kind : Kinds,
        writer : Workers, base : Nat, seen : SUBSET Nat]

Idle == [pc |-> "idle"]

\* `base' is RepositoryItem.EventStream.Version, `expected' the expectedVersion
\* of the append loop and `todo' the number of changes it has still to append.
Handling == [pc : {"loaded", "append"}, name : Aggregates, cmd : Commands,
             seen : SUBSET Nat, base : Nat, expected : Nat, todo : Nat]

\* The table, the identity and the threads keep their types.
TypeOK ==
  /\ rows \subseteq Row
  /\ lastId \in Nat
  /\ worker \in [Workers -> Handling \union {Idle}]

Init ==
  /\ rows = {}
  /\ lastId = 0
  /\ worker = [w \in Workers |-> Idle]

-----------------------------------------------------------------------------
Stream(n) == {r \in rows : r.name = n}

\* Mutant: the SELECT of Load without its WHERE clause.
IsVersionOfAny(n, v) ==
  /\ v = 0 \/ \E r \in rows : r.version = v
  /\ \A r \in rows : r.version <= v

\* NamedDataSet.Version after Load: that of the last row read, 0 if none was.
IsVersion(n, v) ==
  /\ v = 0 \/ \E r \in Stream(n) : r.version = v
  /\ \A r \in Stream(n) : r.version <= v

\* The aggregate is "created" once it was restored from any event.
Accepts(cmd, seen) == (cmd = "create") <=> (seen = {})

\* A create command publishes the "created" event first.
KindOf(h) == IF h.cmd = "create" /\ h.expected = h.base THEN "created" ELSE "updated"

\* Mutant: the index is created without UNIQUE.
KeyMayRepeat(n, v) == FALSE

\* The unique index IX_EventStore_NameVersion.
KeyExists(n, v) == \E r \in Stream(n) : r.version = v

\* LastUsedId: the sequence of SQLite, IDENT_CURRENT - 1 of SQL Server.  Before
\* the first insert IDENT_CURRENT is the seed, 1; then it is the last identity.
LastUsedId ==
  IF Engine = "SQLite" THEN lastId ELSE IF lastId = 0 THEN 0 ELSE lastId - 1

\* Mutant: the loop goes on behind the last change.
NextChangeLate(h) == [h EXCEPT !.expected = @ + 1, !.todo = @ - 1]

\* ++expectedVersion and on to the next change; the handler ends with the last.
NextChange(h) ==
  IF h.todo = 1 THEN Idle ELSE [h EXCEPT !.expected = @ + 1, !.todo = @ - 1]

-----------------------------------------------------------------------------
(* GenericRepository.Get: one SELECT reads the events and their version.   *)
Get(w, n, c) ==
  /\ worker[w] = Idle
  /\ \E v \in 0..MaxId :
       /\ IsVersion(n, v)
       /\ worker' = [worker EXCEPT ![w] =
                       [pc |-> "loaded", name |-> n, cmd |-> c, base |-> v, expected |-> v,
                        seen |-> {r.id : r \in Stream(n)}, todo |-> 0]]
  /\ UNCHANGED <<rows, lastId>>

(* VerifyCommand throws: the handler ends without an effect.               *)
Reject(w) ==
  /\ worker[w].pc = "loaded"
  /\ ~Accepts(worker[w].cmd, worker[w].seen)
  /\ worker' = [worker EXCEPT ![w] = Idle]
  /\ UNCHANGED <<rows, lastId>>

(* VerifyCommand passes and the update function publishes k events.        *)
Update(w) ==
  /\ worker[w].pc = "loaded"
  /\ Accepts(worker[w].cmd, worker[w].seen)
  /\ \E k \in 1..MaxBatch :
       worker' = [worker EXCEPT ![w].pc = "append", ![w].todo = k]
  /\ UNCHANGED <<rows, lastId>>

(* One turn of the loop of EventStoreDB.Append whose INSERT succeeds.      *)
AppendChange(w) ==
  LET h == worker[w] IN
  /\ h.pc = "append"
  /\ ~KeyExists(h.name, h.expected + 1)
  /\ lastId < MaxId
  /\ lastId' = lastId + 1
  /\ rows' = rows \union
       {[id |-> lastId + 1, name |-> h.name, version |-> h.expected + 1, kind |-> KindOf(h),
         writer |-> w, base |-> h.base, seen |-> h.seen]}
  /\ worker' = [worker EXCEPT ![w] = NextChange(h)]

(* Mutant: the conflict is met by trying the next version.                 *)
ConflictTakesNextVersion(w) ==
  LET h == worker[w] IN
  /\ h.pc = "append"
  /\ KeyExists(h.name, h.expected + 1)
  /\ worker' = [worker EXCEPT ![w].expected = @ + 1]
  /\ UNCHANGED <<rows, lastId>>

(* The INSERT violates the unique index: VersionConflictException leaves   *)
(* the loop.  SQL Server has consumed the identity value by then, SQLite   *)
(* rolls the sequence back with the statement.                             *)
Conflict(w) ==
  LET h == worker[w] IN
  /\ h.pc = "append"
  /\ KeyExists(h.name, h.expected + 1)
  /\ worker' = [worker EXCEPT ![w] = Idle]
  /\ IF Engine = "SqlServer"
       THEN lastId < MaxId /\ lastId' = lastId + 1
       ELSE UNCHANGED lastId
  /\ UNCHANGED rows

(* The process of the worker dies, or a statement fails for any other      *)
(* reason and the exception is rethrown.  What was inserted stays.         *)
Fail(w) ==
  /\ worker[w] # Idle
  /\ worker' = [worker EXCEPT ![w] = Idle]
  /\ UNCHANGED <<rows, lastId>>

(* The machine loses power.  With PRAGMA synchronous=OFF the tail of the   *)
(* write-ahead log may be gone, and the sequence goes back with it; SQL    *)
(* Server keeps what it has committed.                                     *)
PowerLoss ==
  /\ \E k \in 0..lastId :
       /\ Engine = "SqlServer" => k = lastId
       /\ lastId' = k
       /\ rows' = {r \in rows : r.id <= k}
  /\ worker' = [w \in Workers |-> Idle]

Next ==
  \/ \E w \in Workers, n \in Aggregates, c \in Commands : Get(w, n, c)
  \/ \E w \in Workers :
       Reject(w) \/ Update(w) \/ AppendChange(w) \/ Conflict(w) \/ Fail(w)
  \/ PowerLoss

Spec == Init /\ [][Next]_vars

-----------------------------------------------------------------------------
\* A stream has the versions 1..n without a gap, although the INSERT takes
\* expectedVersion + 1 on trust and only a duplicate key is ever detected
\* (SqlAppendOnlyStore.Append, SQLiteAppendOnlyStore.Append).
GaplessVersions ==
  \A r \in rows : \A v \in 1..r.version - 1 : KeyExists(r.name, v)

\* The events of a stream were stored in the order of their versions, so that
\* a reader by id (ReadFrom, hence the publisher) sees them in that order.
IdsFollowVersions ==
  \A r, q \in rows : r.name = q.name /\ r.version < q.version => r.id < q.id

\* Who starts to read at LastUsedId + 1 gets none of the events stored before
\* (the test CanReadRangeOfEvents does, on whatever table it finds).
NothingAfterLastUsedId == \A r \in rows : r.id <= LastUsedId

\* q and r were stored by the same command.
SameBatch(q, r) == q.writer = r.writer /\ q.base = r.base

\* The aggregate that decided an event knew every earlier event of its stream,
\* from its restore or as one of its own: no concurrent update is overwritten
\* unseen, although nothing is locked between the load and the INSERT.
NoLostUpdate ==
  \A r \in rows : \A q \in Stream(r.name) :
     q.version < r.version => q.id \in r.seen \/ SameBatch(q, r)

\* The events of one command stand together: between the version its aggregate
\* was loaded at and any event it stored there are only events it stored, even
\* when the batch was torn by a conflict or a crash.
BatchesAreContiguous ==
  \A r \in rows : \A q \in Stream(r.name) :
     r.base < q.version /\ q.version <= r.version => SameBatch(q, r)

\* "Cannot re-create forum", "Cannot modify non-existing forum": a stream starts
\* with the created event and never holds a second one.
CreatedFirstAndOnce ==
  \A r \in rows : (r.kind = "created") <=> (r.version = 1)

-----------------------------------------------------------------------------
\* The row that holds version v of the stream of n.
RowAt(n, v) == CHOOSE r \in Stream(n) : r.version = v

\* The aggregate that decided r had applied the events it was restored from and
\* the earlier ones of its own batch.
KnownAt(r) ==
  Cardinality({q \in Stream(r.name) :
                 /\ q.version < r.version
                 /\ q.id \in r.seen \/ SameBatch(q, r)})

HistoryOf(n) ==
  [v \in 1..Cardinality(Stream(n)) |->
     [kind |-> RowAt(n, v).kind, known |-> KnownAt(RowAt(n, v))]]

Histories == INSTANCE StreamHistory WITH
               history <- [n \in Aggregates |-> HistoryOf(n)],
               Durable <- Engine = "SqlServer"

\* Interleaved handlers, torn batches, conflicts and power failures included,
\* the table behaves as one history per aggregate to which fully informed
\* events are added at the end.
ImplementsHistories == Histories!Spec
=============================================================================
