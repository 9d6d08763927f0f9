------------------------- MODULE InMemoryEventStore -------------------------
(***************************************************************************)
(* Command handlers over InMemoryAppendOnlyStore.  Append runs under       *)
(* StreamsLock, Load does not and hands out the live NamedDataSet, which   *)
(* EventStoreDB.Load then reads twice: first its Data, later its Version.  *)
(* The steps are those a thread without the lock can tell apart.           *)
(*                                                                         *)
(* An event is what a later reader can learn about it: its stream and kind *)
(* and, as history, how many events the aggregate that decided it had      *)
(* applied (`known'), the version it was loaded at (`base') and the thread *)
(* that stored it (`writer').                                              *)
(***************************************************************************)
EXTENDS Integers, Sequences

CONSTANTS
  Workers,     \* threads that handle commands
  Aggregates,  \* the names of the streams
  MaxEvents,   \* bound on the events stored
  MaxBatch     \* bound on the events one command publishes

ASSUME InMemoryBounds == MaxEvents \in Nat /\ MaxBatch \in Nat \ {0}

VARIABLES
  streams,   \* Streams: the NamedDataSet of every name, or NoEntry
  events,    \* Events: everything appended, in order; the id is the position
  holder,    \* the thread inside lock (StreamsLock), or NoThread
  worker     \* what each thread has on its stack

vars == <<streams, events, holder, worker>>

NoThread == "no thread"
ASSUME NoThreadAssumption == NoThread \notin Workers

NoEntry == [version |-> -1, data |-> <<>>]
EmptyEntry == [version |-> 0, data |-> <<>>]
Idle == [pc |-> "idle"]

Commands == {"create", "update"}
DataItem == [name : Aggregates, kind : {"created", "updated"}, known : Nat, base : Nat,
             writer : Workers]

\* `live': the thread reads the entry of the dictionary, not one of its own.
Handling == [pc : {"copying", "copied", "loaded", "append", "add", "bump", "log"},
             name : Aggregates, cmd : Commands, live : BOOLEAN,
             known : Nat, base : Nat, expected : Nat, todo : Nat]

\* The dictionary, the list, the lock and the threads keep their types.
TypeOK ==
  /\ streams \in [Aggregates -> [version : Nat, data : Seq(DataItem)] \union {NoEntry}]
  /\ events \in Seq(DataItem)
  /\ holder \in Workers \union {NoThread}
  /\ worker \in [Workers -> Handling \union {Idle}]

Init ==
  /\ streams = [n \in Aggregates |-> NoEntry]
  /\ events = <<>>
  /\ holder = NoThread
  /\ worker = [w \in Workers |-> Idle]

-----------------------------------------------------------------------------
Goto(w, pc) == worker' = [worker EXCEPT ![w].pc = pc]
Leave(w) == worker' = [worker EXCEPT ![w] = Idle]

\* Forum.VerifyCommand: only a create command for an aggregate without events.
Accepts(cmd, known) == (cmd = "create") <=> (known = 0)

\* The event that a thread is about to append.
Item(w) ==
  LET h == worker[w] IN
  [name |-> h.name, writer |-> w, base |-> h.base, known |-> h.known + h.expected - h.base,
   kind |-> IF h.cmd = "create" /\ h.expected = h.base THEN "created" ELSE "updated"]

\* Mutant: the lock statement is missing.
LockIgnored == TRUE

\* The lock statement of Append.
LockIsFree == holder = NoThread

\* Mutant: only a version from the future is refused.
FromTheFuture(h, version) == version < h.expected

\* The optimistic check of Append.
Conflicts(h, version) == version # h.expected

\* ++expectedVersion and on to the next change; the handler ends with the last.
NextChange(h) ==
  IF h.todo = 1 THEN Idle
  ELSE [h EXCEPT !.pc = "append", !.expected = @ + 1, !.todo = @ - 1]

(* Load finds the entry, or makes an empty one that no other thread has,   *)
(* and the copy of Data begins.                                            *)
Load(w, n, c) ==
  /\ worker[w] = Idle
  /\ worker' = [worker EXCEPT ![w] =
       [pc |-> "copying", name |-> n, cmd |-> c, live |-> streams[n] # NoEntry,
        known |-> Len(streams[n].data), base |-> 0, expected |-> 0, todo |-> 0]]
  /\ UNCHANGED <<streams, events, holder>>

(* The copy ends.  The enumerator of a list that has been added to since   *)
(* throws InvalidOperationException out of the handler.                    *)
Copy(w) ==
  LET h == worker[w] IN
  /\ h.pc = "copying"
  /\ IF h.live /\ Len(streams[h.name].data) # h.known THEN Leave(w) ELSE Goto(w, "copied")
  /\ UNCHANGED <<streams, events, holder>>

(* new EventStream(data.Version, events)                                   *)
ReadVersion(w) ==
  LET h == worker[w]
      v == IF h.live THEN streams[h.name].version ELSE 0
  IN
  /\ h.pc = "copied"
  /\ worker' = [worker EXCEPT ![w] = [h EXCEPT !.pc = "loaded", !.base = v, !.expected = v]]
  /\ UNCHANGED <<streams, events, holder>>

(* VerifyCommand throws, or passes and the aggregate publishes k events.   *)
Decide(w) ==
  LET h == worker[w] IN
  /\ h.pc = "loaded"
  /\ IF Accepts(h.cmd, h.known)
       THEN \E k \in 1..MaxBatch :
              worker' = [worker EXCEPT ![w] = [h EXCEPT !.pc = "append", !.todo = k]]
       ELSE Leave(w)
  /\ UNCHANGED <<streams, events, holder>>

(* The serializer throws for the next event of the batch, before the lock: *)
(* the events before it stay.                                              *)
SerializeThrows(w) ==
  /\ worker[w].pc = "append"
  /\ Leave(w)
  /\ UNCHANGED <<streams, events, holder>>

(* Append takes the lock, adds a missing entry and compares the versions;  *)
(* VersionConflictException releases the lock, the new entry stays.        *)
Enter(w) ==
  LET h == worker[w]
      entry == IF streams[h.name] = NoEntry THEN EmptyEntry ELSE streams[h.name]
  IN
  /\ h.pc = "append"
  /\ LockIsFree
  /\ Len(events) < MaxEvents
  /\ streams' = [streams EXCEPT ![h.name] = entry]
  /\ IF Conflicts(h, entry.version)
       THEN Leave(w) /\ UNCHANGED holder
       ELSE Goto(w, "add") /\ holder' = w
  /\ UNCHANGED events

(* entry.Data.Add(data)                                                    *)
AddData(w) ==
  LET h == worker[w] IN
  /\ h.pc = "add"
  /\ streams' = [streams EXCEPT ![h.name].data = Append(@, Item(w))]
  /\ Goto(w, "bump")
  /\ UNCHANGED <<events, holder>>

(* entry.Version++                                                         *)
BumpVersion(w) ==
  LET h == worker[w] IN
  /\ h.pc = "bump"
  /\ streams' = [streams EXCEPT ![h.name].version = @ + 1]
  /\ Goto(w, "log")
  /\ UNCHANGED <<events, holder>>

(* Events.Add, the end of the lock and of one turn of the append loop.     *)
AddEvent(w) ==
  LET h == worker[w] IN
  /\ h.pc = "log"
  /\ events' = Append(events, Item(w))
  /\ holder' = NoThread
  /\ worker' = [worker EXCEPT ![w] = NextChange(h)]
  /\ UNCHANGED streams

(* The process ends and a new one starts: nothing was kept on a disk.      *)
Restart ==
  /\ streams' = [n \in Aggregates |-> NoEntry]
  /\ events' = <<>>
  /\ holder' = NoThread
  /\ worker' = [w \in Workers |-> Idle]

Next ==
  \/ Restart
  \/ \E w \in Workers, n \in Aggregates, c \in Commands : Load(w, n, c)
  \/ \E w \in Workers :
       \/ Copy(w) \/ ReadVersion(w) \/ Decide(w) \/ SerializeThrows(w)
       \/ Enter(w) \/ AddData(w) \/ BumpVersion(w) \/ AddEvent(w)

Spec == Init /\ [][Next]_vars

-----------------------------------------------------------------------------
\* The list holds the first m data of stream n, in their order, and no other event
\* of n.
Held(list, n, data, m) ==
  \E at \in [1..m -> DOMAIN list] :
    /\ \A i, j \in 1..m : i < j => at[i] < at[j]
    /\ \A i \in 1..m : list[at[i]] = data[i] /\ data[i].name = n
    /\ \A k \in DOMAIN list : list[k].name = n => \E i \in 1..m : at[i] = k

\* Whenever no thread is inside Append, each entry's version counts its data and
\* the list of all events, which the publisher reads, holds exactly the data of
\* the entries, each stream in its own order.
EntriesMatchEvents ==
  holder = NoThread =>
    \A n \in Aggregates :
      /\ streams[n] # NoEntry => streams[n].version = Len(streams[n].data)
      /\ Held(events, n, streams[n].data, Len(streams[n].data))

\* Between the version an aggregate was loaded at and an event it stored there
\* are only events of the same batch: a stale Version never passes the check.
OnlyOwnEventsSinceBase ==
  \A n \in Aggregates : \A i, j \in DOMAIN streams[n].data :
    LET later == streams[n].data[i]  earlier == streams[n].data[j] IN
    later.base < j /\ j <= i =>
      earlier.base = later.base /\ earlier.writer = later.writer

\* "Cannot re-create forum" (Forum.VerifyCommand): a stream holds a second created
\* event only if an append came between the two reads of the aggregate that decided
\* it, so that it had fewer events than its version says.  No other interleaving
\* gets past VerifyCommand and the version check.
RecreatedOnlyIfTorn ==
  \A n \in Aggregates : \A i \in DOMAIN streams[n].data :
    LET e == streams[n].data[i] IN e.kind = "created" => i = 1 \/ e.known < e.base
=============================================================================
