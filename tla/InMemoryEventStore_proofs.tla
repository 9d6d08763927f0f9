----------------------- MODULE InMemoryEventStore_proofs -----------------------
(***************************************************************************)
(* What the lock of Append and the version check guard although Load reads *)
(* without the lock, for any number of threads, aggregates and events.     *)
(***************************************************************************)
EXTENDS InMemoryEventStore, TLAPS

Inside == {"add", "bump", "log"}
Appending == {"append"} \union Inside

At(w, places) == worker[w].pc \in places

\* Entries are never taken away, and a thread is never ahead of the one it loaded.
Threads ==
  /\ \A w \in Workers : At(w, Inside) <=> holder = w
  /\ \A w \in Workers : At(w, {"copying", "copied"}) /\ worker[w].live => streams[worker[w].name] # NoEntry
  /\ \A w \in Workers : At(w, {"loaded"} \union Appending) =>
       /\ worker[w].base <= worker[w].expected
       /\ worker[w].expected <= Len(streams[worker[w].name].data)
  /\ \A w \in Workers : At(w, Appending) =>
       worker[w].todo >= 1 /\ Accepts(worker[w].cmd, worker[w].known)

\* The steps of Append, seen from the entry.
Entries ==
  /\ \A n \in Aggregates :
       \/ streams[n] = NoEntry
       \/ streams[n].version = Len(streams[n].data)
       \/ \E w \in Workers : At(w, {"bump"}) /\ worker[w].name = n
  /\ \A w \in Workers : At(w, Inside) =>
       LET entry == streams[worker[w].name]  after == worker[w].expected + 1 IN
       /\ entry # NoEntry
       /\ entry.version = IF At(w, {"log"}) THEN after ELSE worker[w].expected
       /\ Len(entry.data) = IF At(w, {"add"}) THEN worker[w].expected ELSE after
       /\ ~At(w, {"add"}) => entry.data[after] = Item(w)

\* Since it loaded, nobody but the thread itself has stored what it appends after;
\* and a created event was stored where its aggregate was loaded, without events.
Batches ==
  /\ \A w \in Workers : At(w, {"loaded"} \union Appending) =>
       \A j \in worker[w].base + 1..worker[w].expected :
          /\ streams[worker[w].name].data[j].base = worker[w].base
          /\ streams[worker[w].name].data[j].writer = w
  /\ OnlyOwnEventsSinceBase
  /\ \A n \in Aggregates : \A i \in DOMAIN streams[n].data :
       streams[n].data[i].kind = "created" =>
         streams[n].data[i].known = 0 /\ streams[n].data[i].base = i - 1

\* How much of stream n the list of events has, while Append may be under way.
Logged(n) ==
  IF \E w \in Workers : At(w, {"bump", "log"}) /\ worker[w].name = n
  THEN Len(streams[n].data) - 1 ELSE Len(streams[n].data)

EventsHeld == \A n \in Aggregates : Held(events, n, streams[n].data, Logged(n))

MInv == TypeOK /\ Threads /\ Entries /\ Batches /\ EventsHeld

-----------------------------------------------------------------------------
(* Types, of a thread, an entry and an item.                               *)

LEMMA WorkerType ==
  ASSUME TypeOK, NEW w \in Workers, ~At(w, {"idle"})
  PROVE  /\ worker[w] \in Handling
         /\ worker[w].name \in Aggregates /\ worker[w].cmd \in Commands /\ worker[w].live \in BOOLEAN
         /\ worker[w].known \in Nat /\ worker[w].base \in Nat
         /\ worker[w].expected \in Nat /\ worker[w].todo \in Nat
<1>1. worker[w] \in Handling \union {Idle}
  BY DEF TypeOK
<1>2. worker[w] \in Handling
  BY <1>1 DEF At, Idle
<1> QED
  BY <1>2 DEF Handling

LEMMA EntryType ==
  ASSUME TypeOK, NEW n \in Aggregates
  PROVE  /\ streams[n].data \in Seq(DataItem) /\ Len(streams[n].data) \in Nat
         /\ DOMAIN streams[n].data = 1..Len(streams[n].data)
         /\ streams[n] # NoEntry => streams[n] \in [version : Nat, data : Seq(DataItem)]
         /\ streams[n] # NoEntry => streams[n].version \in Nat
         /\ streams[n] = NoEntry => Len(streams[n].data) = 0
<1>1. streams[n] \in [version : Nat, data : Seq(DataItem)] \union {NoEntry}
  BY DEF TypeOK
<1>2. CASE streams[n] = NoEntry
  BY <1>2 DEF NoEntry
<1>3. CASE streams[n] # NoEntry
  BY <1>1, <1>3
<1> QED
  BY <1>2, <1>3

LEMMA ItemType ==
  ASSUME TypeOK, Threads, NEW w \in Workers, At(w, Appending)
  PROVE  /\ Item(w) \in DataItem
         /\ Item(w).name = worker[w].name /\ Item(w).writer = w /\ Item(w).base = worker[w].base
         /\ Item(w).kind = "created" => Item(w).known = 0 /\ worker[w].base = worker[w].expected
<1>1. ~At(w, {"idle"})
  BY DEF At, Appending, Inside
<1>2. worker[w].base <= worker[w].expected /\ Accepts(worker[w].cmd, worker[w].known)
  BY DEF Threads, At
<1>3. worker[w].known + worker[w].expected - worker[w].base \in Nat
  BY <1>1, <1>2, WorkerType
<1> QED
  BY <1>1, <1>2, <1>3, WorkerType DEF Item, DataItem, Accepts, Commands

\* Only one thread is inside Append.
LEMMA AloneInside ==
  ASSUME Threads, NEW w \in Workers, At(w, Inside)
  PROVE  \A v \in Workers \ {w} : ~At(v, Inside)
BY DEF Threads

LEMMA NothingHeld ==
  ASSUME NEW n, NEW data
  PROVE  Held(<< >>, n, data, 0)
<1> DEFINE at == [i \in 1..0 |-> i]
<1>1. 1..0 = {} /\ DOMAIN << >> = {}
  OBVIOUS
<1>2. at \in [1..0 -> DOMAIN << >>]
  BY <1>1
<1> SUFFICES \E f \in [1..0 -> DOMAIN << >>] : TRUE
  BY <1>1 DEF Held
<1> QED
  BY <1>2

LEMMA Initial == Init => MInv
<1> SUFFICES ASSUME Init PROVE MInv
  OBVIOUS
<1>1. TypeOK
  BY DEF Init, TypeOK
<1>2. Threads
  BY NoThreadAssumption DEF Init, Threads, At, Idle, Inside, Appending
<1>3. Entries
  BY DEF Init, Entries, At, Idle, Inside
<1>4. Batches
  BY DEF Init, Batches, OnlyOwnEventsSinceBase, At, Idle, Inside, Appending, NoEntry
<1>5. EventsHeld
  <2>1. \A n \in Aggregates : Logged(n) = 0
    BY DEF Init, Logged, At, Idle, NoEntry
  <2>2. events = <<>>
    BY DEF Init
  <2> QED
    BY <2>1, <2>2, NothingHeld DEF EventsHeld
<1> QED
  BY <1>1, <1>2, <1>3, <1>4, <1>5 DEF MInv

LEMMA RestartStep == Restart => MInv'
<1> SUFFICES ASSUME Restart PROVE MInv'
  OBVIOUS
<1>1. TypeOK'
  BY DEF Restart, TypeOK
<1>2. Threads'
  BY NoThreadAssumption DEF Restart, Threads, At, Idle, Inside, Appending
<1>3. Entries'
  BY DEF Restart, Entries, At, Idle, Inside
<1>4. Batches'
  BY DEF Restart, Batches, OnlyOwnEventsSinceBase, At, Idle, Inside, Appending, NoEntry
<1>5. EventsHeld'
  <2>1. \A n \in Aggregates : Logged(n)' = 0
    BY DEF Restart, Logged, At, Idle, NoEntry
  <2>2. events' = <<>>
    BY DEF Restart
  <2> QED
    BY <2>1, <2>2, NothingHeld DEF EventsHeld
<1> QED
  BY <1>1, <1>2, <1>3, <1>4, <1>5 DEF MInv

-----------------------------------------------------------------------------
(* A thread outside the lock goes on to `h', which leaves the entries as   *)
(* they are, except that the first append to a name adds an empty one.     *)

Outside(w, h) ==
  /\ ~At(w, Inside) /\ h.pc \notin Inside
  /\ h \in Handling \union {Idle}
  /\ h.pc \in {"copying", "copied"} /\ h.live => streams[h.name] # NoEntry
  /\ h.pc \in {"loaded", "append"} =>
       /\ h.base <= h.expected
       /\ h.expected <= Len(streams[h.name].data)
       /\ \A j \in h.base + 1..h.expected :
            streams[h.name].data[j].base = h.base /\ streams[h.name].data[j].writer = w
  /\ h.pc = "append" => h.todo >= 1 /\ Accepts(h.cmd, h.known)

LEMMA OutsideStep ==
  ASSUME MInv, NEW w \in Workers, NEW h, Outside(w, h),
         worker' = [worker EXCEPT ![w] = h], UNCHANGED <<streams, events, holder>>
  PROVE  MInv'
<1>1. worker \in [Workers -> Handling \union {Idle}]
  BY DEF MInv, TypeOK
<1>2. worker'[w] = h /\ \A v \in Workers \ {w} : worker'[v] = worker[v]
  BY <1>1
<1>3. TypeOK'
  BY <1>1 DEF MInv, TypeOK, Outside
<1>4. Threads'
  BY <1>2 DEF MInv, Threads, Outside, At, Appending
<1>5. /\ \A v \in Workers, places \in SUBSET Inside : At(v, places)' <=> At(v, places)
      /\ \A v \in Workers : At(v, Inside) => worker'[v] = worker[v] /\ Item(v)' = Item(v)
  BY <1>2 DEF Outside, At, Item
<1>6. {"add"} \in SUBSET Inside /\ {"bump"} \in SUBSET Inside /\ {"log"} \in SUBSET Inside
      /\ {"bump", "log"} \in SUBSET Inside /\ Inside \in SUBSET Inside
  BY DEF Inside
<1>7. Entries'
  <2>1. ASSUME NEW n \in Aggregates
        PROVE  \/ streams[n] = NoEntry
               \/ streams[n].version = Len(streams[n].data)
               \/ \E v \in Workers : At(v, {"bump"})' /\ worker'[v].name = n
    <3>1. ASSUME NEW v \in Workers, At(v, {"bump"}), worker[v].name = n
          PROVE  At(v, {"bump"})' /\ worker'[v].name = n
      BY <1>5, <1>6, <3>1 DEF At, Inside
    <3> QED
      BY <3>1 DEF MInv, Entries
  <2>2. ASSUME NEW v \in Workers, At(v, Inside)'
        PROVE  LET entry == streams[worker'[v].name]  after == worker'[v].expected + 1 IN
               /\ entry # NoEntry
               /\ entry.version = IF At(v, {"log"})' THEN after ELSE worker'[v].expected
               /\ Len(entry.data) = IF At(v, {"add"})' THEN worker'[v].expected ELSE after
               /\ ~At(v, {"add"})' => entry.data[after] = Item(v)'
    <3>1. At(v, Inside) /\ worker'[v] = worker[v] /\ Item(v)' = Item(v)
      BY <1>5, <1>6, <2>2
    <3> QED
      BY <3>1 DEF MInv, Entries, At
  <2> QED
    BY <2>1, <2>2 DEF Entries
<1>8. Batches'
  BY <1>2 DEF MInv, Batches, OnlyOwnEventsSinceBase, Outside, At, Appending
<1>9. EventsHeld'
  <2>1. \A n \in Aggregates : Logged(n)' = Logged(n)
    BY <1>2 DEF Logged, At, Outside, Inside
  <2> QED
    BY <2>1 DEF MInv, EventsHeld
<1> QED
  BY <1>3, <1>4, <1>7, <1>8, <1>9 DEF MInv

-----------------------------------------------------------------------------
(* The steps of one thread inside Append.                                  *)

LEMMA EnterStep ==
  ASSUME MInv, NEW w \in Workers, Enter(w)
  PROVE  MInv'
<1> DEFINE h == worker[w]  n == worker[w].name
           entry == IF streams[n] = NoEntry THEN EmptyEntry ELSE streams[n]
<1>1. /\ h.pc = "append" /\ holder = NoThread /\ UNCHANGED events
      /\ streams' = [streams EXCEPT ![n] = entry]
  BY DEF Enter, LockIsFree
<1>2. h \in Handling /\ n \in Aggregates /\ h.expected \in Nat
  BY <1>1, WorkerType DEF MInv, At
<1>3. \A v \in Workers : ~At(v, Inside)
  BY <1>1, NoThreadAssumption DEF MInv, Threads
<1>4. /\ streams \in [Aggregates -> [version : Nat, data : Seq(DataItem)] \union {NoEntry}]
      /\ worker \in [Workers -> Handling \union {Idle}]
  BY DEF MInv, TypeOK
<1>5. entry \in [version : Nat, data : Seq(DataItem)] /\ entry.data = streams[n].data
  <2>1. CASE streams[n] = NoEntry
    BY <2>1 DEF NoEntry, EmptyEntry
  <2>2. CASE streams[n] # NoEntry
    BY <1>2, <1>4, <2>2
  <2> QED
    BY <2>1, <2>2
<1>6. /\ \A a \in Aggregates : streams'[a].data = streams[a].data
      /\ \A a \in Aggregates \ {n} : streams'[a] = streams[a]
      /\ streams'[n] = entry /\ streams'[n] # NoEntry
  BY <1>1, <1>2, <1>4, <1>5 DEF NoEntry
<1>7. entry.version = Len(entry.data)
  <2>1. CASE streams[n] = NoEntry
    BY <2>1 DEF EmptyEntry
  <2>2. CASE streams[n] # NoEntry
    BY <1>2, <1>3, <2>2 DEF MInv, Entries, At, Inside
  <2> QED
    BY <2>1, <2>2
\* The thread is refused, or inside from now on.
<1>8. \/ worker' = [worker EXCEPT ![w] = Idle] /\ UNCHANGED holder
      \/ /\ worker' = [worker EXCEPT ![w] = [h EXCEPT !.pc = "add"]] /\ holder' = w
         /\ entry.version = h.expected
  BY <1>2, <1>4 DEF Enter, Leave, Goto, Conflicts, Handling
<1>9. /\ \A v \in Workers \ {w} : worker'[v] = worker[v]
      /\ worker'[w] \in {Idle, [h EXCEPT !.pc = "add"]}
      /\ ~At(w, {"add"})' => worker'[w] = Idle /\ UNCHANGED holder
      /\ At(w, {"add"})' => worker'[w] = [h EXCEPT !.pc = "add"] /\ holder' = w /\ entry.version = h.expected
  BY <1>2, <1>4, <1>8 DEF At, Idle, Handling
<1>10. [h EXCEPT !.pc = "add"] \in Handling
  BY <1>2 DEF Handling
<1>11. /\ [h EXCEPT !.pc = "add"].pc = "add" /\ [h EXCEPT !.pc = "add"].name = n
       /\ [h EXCEPT !.pc = "add"].cmd = h.cmd /\ [h EXCEPT !.pc = "add"].known = h.known
       /\ [h EXCEPT !.pc = "add"].base = h.base /\ [h EXCEPT !.pc = "add"].expected = h.expected
       /\ [h EXCEPT !.pc = "add"].todo = h.todo
  BY <1>2 DEF Handling
<1>12. Idle.pc = "idle"
  BY DEF Idle
<1>13. TypeOK'
  BY <1>1, <1>2, <1>4, <1>5, <1>8, <1>10 DEF MInv, TypeOK
<1>14. Threads'
  <2>1. \A v \in Workers : At(v, Inside)' <=> holder' = v
    BY <1>1, <1>3, <1>9, <1>11, <1>12, NoThreadAssumption DEF At, Inside
  <2>0. \A v \in Workers :
          /\ At(v, {"loaded"} \union Appending)' =>
               /\ At(v, {"loaded"} \union Appending)
               /\ worker'[v].name = worker[v].name /\ worker'[v].base = worker[v].base
               /\ worker'[v].expected = worker[v].expected
          /\ At(v, Appending)' =>
               /\ At(v, Appending)
               /\ worker'[v].todo = worker[v].todo /\ worker'[v].cmd = worker[v].cmd
               /\ worker'[v].known = worker[v].known
    BY <1>1, <1>9, <1>11, <1>12 DEF At, Appending, Inside
  <2>2. \A v \in Workers : At(v, {"copying", "copied"})' /\ worker'[v].live => streams'[worker'[v].name] # NoEntry
    BY <1>2, <1>6, <1>9, <1>11, <1>12, WorkerType DEF MInv, Threads, At
  <2>3. \A v \in Workers : At(v, {"loaded"} \union Appending)' =>
          /\ worker'[v].base <= worker'[v].expected
          /\ worker'[v].expected <= Len(streams'[worker'[v].name].data)
    <3> SUFFICES ASSUME NEW v \in Workers, At(v, {"loaded"} \union Appending)'
                 PROVE  /\ worker'[v].base <= worker'[v].expected
                        /\ worker'[v].expected <= Len(streams'[worker'[v].name].data)
      OBVIOUS
    <3>1. At(v, {"loaded"} \union Appending)
      BY <2>0
    <3>2. worker[v].name \in Aggregates
      BY <3>1, WorkerType DEF MInv, At, Appending, Inside
    <3>3. streams'[worker[v].name].data = streams[worker[v].name].data
      BY <1>6, <3>2
    <3>4. worker[v].base <= worker[v].expected /\ worker[v].expected <= Len(streams[worker[v].name].data)
      BY <3>1 DEF MInv, Threads
    <3> QED
      BY <2>0, <3>3, <3>4
  <2>4. \A v \in Workers : At(v, Appending)' => worker'[v].todo >= 1 /\ Accepts(worker'[v].cmd, worker'[v].known)
    BY <2>0 DEF MInv, Threads
  <2> QED
    BY <2>1, <2>2, <2>3, <2>4 DEF Threads
<1>15. Entries'
  <2>1. \A a \in Aggregates : streams'[a] = NoEntry \/ streams'[a].version = Len(streams'[a].data)
    BY <1>3, <1>6, <1>7 DEF MInv, Entries, At, Inside
  <2>2. ASSUME NEW v \in Workers, At(v, Inside)' PROVE v = w /\ At(w, {"add"})'
    BY <1>3, <1>9, <1>12, <2>2 DEF At, Inside
  <2>3. At(w, {"add"})' => ~At(w, {"log"})' /\ worker'[w].name = n /\ worker'[w].expected = h.expected
    BY <1>9, <1>11 DEF At
  <2> QED
    BY <1>5, <1>6, <1>7, <1>9, <2>1, <2>2, <2>3 DEF Entries
<1>16. Batches'
  <2>1. \A v \in Workers : At(v, {"loaded"} \union Appending)' =>
          /\ At(v, {"loaded"} \union Appending) /\ worker[v].name \in Aggregates
          /\ worker'[v].name = worker[v].name /\ worker'[v].base = worker[v].base
          /\ worker'[v].expected = worker[v].expected
    <3>1. ASSUME NEW v \in Workers, At(v, {"loaded"} \union Appending) PROVE worker[v].name \in Aggregates
      BY <3>1, WorkerType DEF MInv, At, Appending, Inside
    <3> QED
      BY <1>1, <1>2, <1>9, <1>11, <1>12, <3>1 DEF At, Appending, Inside
  <2>2. \A v \in Workers : At(v, {"loaded"} \union Appending)' =>
          \A j \in worker'[v].base + 1..worker'[v].expected :
            /\ streams'[worker'[v].name].data[j].base = worker'[v].base
            /\ streams'[worker'[v].name].data[j].writer = v
    <3> SUFFICES ASSUME NEW v \in Workers, At(v, {"loaded"} \union Appending)',
                        NEW j \in worker'[v].base + 1..worker'[v].expected
                 PROVE  /\ streams'[worker'[v].name].data[j].base = worker'[v].base
                        /\ streams'[worker'[v].name].data[j].writer = v
      OBVIOUS
    <3>1. streams'[worker[v].name].data = streams[worker[v].name].data
      BY <1>6, <2>1
    <3>2. j \in worker[v].base + 1..worker[v].expected
      BY <2>1
    <3>3. /\ streams[worker[v].name].data[j].base = worker[v].base
          /\ streams[worker[v].name].data[j].writer = v
      BY <2>1, <3>2 DEF MInv, Batches
    <3> QED
      BY <2>1, <3>1, <3>3
  <2>3. OnlyOwnEventsSinceBase'
    BY <1>6 DEF MInv, Batches, OnlyOwnEventsSinceBase
  <2>4. \A a \in Aggregates : \A i \in DOMAIN streams'[a].data :
          streams'[a].data[i].kind = "created" =>
            streams'[a].data[i].known = 0 /\ streams'[a].data[i].base = i - 1
    BY <1>6 DEF MInv, Batches
  <2> QED
    BY <2>2, <2>3, <2>4 DEF Batches
<1>17. EventsHeld'
  <2>1. \A a \in Aggregates : Logged(a)' = Logged(a)
    BY <1>3, <1>6, <1>9, <1>11, <1>12 DEF Logged, At, Inside
  <2> QED
    BY <1>1, <1>6, <2>1 DEF MInv, EventsHeld
<1> QED
  BY <1>13, <1>14, <1>15, <1>16, <1>17 DEF MInv

\* What the steps of the thread inside Append start from.
LEMMA InsideFacts ==
  ASSUME MInv, NEW w \in Workers, At(w, Inside)
  PROVE  LET h == worker[w]  entry == streams[h.name] IN
         /\ h \in Handling /\ h.name \in Aggregates
         /\ h.known \in Nat /\ h.base \in Nat /\ h.expected \in Nat /\ h.todo \in Nat
         /\ h.base <= h.expected /\ h.todo >= 1 /\ Accepts(h.cmd, h.known)
         /\ entry \in [version : Nat, data : Seq(DataItem)] /\ entry # NoEntry
         /\ Item(w) \in DataItem
         /\ Item(w).name = h.name /\ Item(w).writer = w /\ Item(w).base = h.base
         /\ Item(w).kind = "created" => Item(w).known = 0 /\ h.base = h.expected
         /\ \A v \in Workers \ {w} : ~At(v, Inside)
         /\ \A a \in Aggregates :
              streams[a] = NoEntry \/ streams[a].version = Len(streams[a].data) \/ (a = h.name /\ h.pc = "bump")
<1>1. At(w, Appending) /\ At(w, {"loaded"} \union Appending) /\ ~At(w, {"idle"})
  BY DEF At, Appending, Inside
<1>2. TypeOK /\ Threads /\ Entries
  BY DEF MInv
<1>3. /\ worker[w] \in Handling /\ worker[w].name \in Aggregates
      /\ worker[w].known \in Nat /\ worker[w].base \in Nat /\ worker[w].expected \in Nat /\ worker[w].todo \in Nat
  BY <1>1, <1>2, WorkerType
<1>4. /\ worker[w].base <= worker[w].expected /\ worker[w].todo >= 1 /\ Accepts(worker[w].cmd, worker[w].known)
  BY <1>1, <1>2 DEF Threads
<1>5. /\ streams[worker[w].name] \in [version : Nat, data : Seq(DataItem)] /\ streams[worker[w].name] # NoEntry
  BY <1>2, <1>3, EntryType DEF Entries
<1>6. /\ Item(w) \in DataItem
      /\ Item(w).name = worker[w].name /\ Item(w).writer = w /\ Item(w).base = worker[w].base
      /\ Item(w).kind = "created" => Item(w).known = 0 /\ worker[w].base = worker[w].expected
  BY <1>1, <1>2, ItemType
<1>7. \A v \in Workers \ {w} : ~At(v, Inside)
  BY <1>2, AloneInside
<1>8. \A a \in Aggregates :
        \/ streams[a] = NoEntry
        \/ streams[a].version = Len(streams[a].data)
        \/ (a = worker[w].name /\ worker[w].pc = "bump")
  BY <1>2, <1>7 DEF Entries, At, Inside
<1> QED
  BY <1>3, <1>4, <1>5, <1>6, <1>7, <1>8

\* A thread inside Append goes on to another place inside.
LEMMA GoesOn ==
  ASSUME MInv, NEW w \in Workers, At(w, Inside), NEW place \in Inside, Goto(w, place)
  PROVE  /\ worker' \in [Workers -> Handling \union {Idle}]
         /\ \A v \in Workers \ {w} : worker'[v] = worker[v] /\ ~At(v, Inside)
         /\ worker'[w].pc = place /\ worker'[w].name = worker[w].name /\ worker'[w].cmd = worker[w].cmd
         /\ worker'[w].known = worker[w].known /\ worker'[w].base = worker[w].base
         /\ worker'[w].expected = worker[w].expected /\ worker'[w].todo = worker[w].todo
         /\ Item(w)' = Item(w)
<1> DEFINE g == [worker[w] EXCEPT !.pc = place]
<1>1. /\ worker \in [Workers -> Handling \union {Idle}]
      /\ worker[w] \in Handling /\ \A v \in Workers \ {w} : ~At(v, Inside)
  BY InsideFacts DEF MInv, TypeOK
<1>2. g \in Handling
  BY <1>1 DEF Handling, Inside
<1>3. /\ g.pc = place /\ g.name = worker[w].name /\ g.cmd = worker[w].cmd /\ g.known = worker[w].known
      /\ g.base = worker[w].base /\ g.expected = worker[w].expected /\ g.todo = worker[w].todo
  BY <1>1 DEF Handling
<1>4. worker' = [worker EXCEPT ![w] = g]
  BY <1>1 DEF Goto
<1>5. worker'[w] = g /\ \A v \in Workers \ {w} : worker'[v] = worker[v]
  BY <1>1, <1>4
<1>6. Item(w)' = Item(w)
  BY <1>3, <1>5 DEF Item
<1>7. worker' \in [Workers -> Handling \union {Idle}]
  BY <1>1, <1>2, <1>4
<1> QED
  BY <1>1, <1>3, <1>5, <1>6, <1>7

\* What a thread inside Append, or on its way to it, knows of its stream.
LEMMA OnTheWay ==
  ASSUME TypeOK, Threads, NEW v \in Workers, At(v, {"loaded"} \union Appending)
  PROVE  /\ worker[v].name \in Aggregates
         /\ worker[v].base \in Nat /\ worker[v].expected \in Nat
         /\ worker[v].base <= worker[v].expected
         /\ worker[v].expected <= Len(streams[worker[v].name].data)
         /\ Len(streams[worker[v].name].data) \in Nat
<1>1. ~At(v, {"idle"})
  BY DEF At, Appending, Inside
<1>2. worker[v].name \in Aggregates /\ worker[v].base \in Nat /\ worker[v].expected \in Nat
  BY <1>1, WorkerType
<1> QED
  BY <1>2, EntryType DEF Threads

LEMMA AppendFacts ==
  ASSUME NEW S, NEW s \in Seq(S), NEW x \in S
  PROVE  /\ Append(s, x) \in Seq(S) /\ Len(s) \in Nat /\ Len(Append(s, x)) = Len(s) + 1
         /\ DOMAIN s = 1..Len(s) /\ DOMAIN Append(s, x) = 1..Len(s) + 1
         /\ Append(s, x)[Len(s) + 1] = x
         /\ \A i \in 1..Len(s) : Append(s, x)[i] = s[i]
OBVIOUS

LEMMA AddDataStep ==
  ASSUME MInv, NEW w \in Workers, AddData(w)
  PROVE  MInv'
<1>1. /\ worker[w].pc = "add" /\ At(w, Inside) /\ Goto(w, "bump") /\ "bump" \in Inside
      /\ UNCHANGED <<events, holder>>
  BY DEF AddData, At, Inside
<1>2. /\ streams \in [Aggregates -> [version : Nat, data : Seq(DataItem)] \union {NoEntry}]
      /\ TypeOK /\ Threads
  BY DEF MInv, TypeOK
<1>3. PICK n \in Aggregates, d \in Seq(DataItem), e \in Nat, b \in Nat, item \in DataItem :
        /\ n = worker[w].name /\ d = streams[n].data
        /\ e = worker[w].expected /\ e = Len(d) /\ e = streams[n].version
        /\ b = worker[w].base /\ b <= e
        /\ item = Item(w) /\ item.base = b /\ item.writer = w /\ item.name = n
        /\ item.kind = "created" => item.known = 0 /\ b = e
  <2>1. At(w, {"add"}) /\ ~At(w, {"log"})
    BY <1>1 DEF At
  <2>2. streams[worker[w].name].version = worker[w].expected /\ Len(streams[worker[w].name].data) = worker[w].expected
    BY <1>1, <2>1 DEF MInv, Entries
  <2> QED
    BY <1>1, <2>2, InsideFacts
<1>4. PICK D \in Seq(DataItem) : /\ D = Append(d, item)
                                 /\ Len(D) = e + 1 /\ D[e + 1] = item /\ DOMAIN D = 1..e + 1
                                 /\ \A i \in 1..e : D[i] = d[i]
  <2>1. e = Len(d)
    BY <1>3
  <2> DEFINE A == Append(d, item)
  <2>2. /\ A \in Seq(DataItem) /\ A = Append(d, item) /\ Len(A) = e + 1 /\ A[e + 1] = item
        /\ DOMAIN A = 1..e + 1 /\ \A i \in 1..e : A[i] = d[i]
    BY <2>1, AppendFacts
  <2> HIDE DEF A
  <2> QED
    BY <2>2
<1>5. DOMAIN d = 1..e /\ d = streams[n].data
  <2>1. e = Len(d) /\ d = streams[n].data
    BY <1>3
  <2> QED
    BY <2>1, AppendFacts
<1>6. /\ \A a \in Aggregates \ {n} : streams'[a] = streams[a]
      /\ streams'[n].version = e /\ streams'[n].data = D /\ streams'[n] # NoEntry
      /\ streams' \in [Aggregates -> [version : Nat, data : Seq(DataItem)] \union {NoEntry}]
  <2>1. streams[n] \in [version : Nat, data : Seq(DataItem)]
    BY <1>1, <1>3, InsideFacts
  <2> DEFINE r == [streams[n] EXCEPT !.data = D]
  <2>2. r \in [version : Nat, data : Seq(DataItem)] /\ r.version = e /\ r.data = D
    BY <1>3, <2>1
  <2>3. streams' = [streams EXCEPT ![n] = r]
    BY <1>2, <1>3, <1>4 DEF AddData
  <2>4. r # NoEntry
    BY <2>2 DEF NoEntry
  <2> HIDE DEF r
  <2> QED
    BY <1>2, <2>2, <2>3, <2>4
<1>7. TypeOK'
  BY <1>1, <1>6, GoesOn DEF MInv, TypeOK
\* Of each thread the place in its stream, before and after.
<1>8. /\ \A v \in Workers \ {w} : worker'[v] = worker[v] /\ ~At(v, Inside)
      /\ worker'[w].pc = "bump" /\ worker'[w].name = n /\ worker'[w].base = b /\ worker'[w].expected = e
      /\ worker'[w].todo = worker[w].todo /\ worker'[w].cmd = worker[w].cmd /\ worker'[w].known = worker[w].known
      /\ Item(w)' = item
  BY <1>1, <1>3, GoesOn
<1>9. ASSUME NEW v \in Workers, At(v, {"loaded"} \union Appending)'
      PROVE  /\ At(v, {"loaded"} \union Appending)
             /\ worker[v].name = worker'[v].name /\ worker[v].base = worker'[v].base
             /\ worker[v].expected = worker'[v].expected
  BY <1>1, <1>3, <1>8, <1>9 DEF At, Appending, Inside
<1>10. Threads'
  <2>1. \A v \in Workers : At(v, Inside)' <=> holder' = v
    BY <1>1, <1>2, <1>8 DEF Threads, At, Inside
  <2>2. \A v \in Workers : At(v, {"copying", "copied"})' /\ worker'[v].live => streams'[worker'[v].name] # NoEntry
    BY <1>2, <1>6, <1>8, WorkerType DEF Threads, At
  <2>3. ASSUME NEW v \in Workers, At(v, {"loaded"} \union Appending)'
        PROVE  /\ worker'[v].base <= worker'[v].expected
               /\ worker'[v].expected <= Len(streams'[worker'[v].name].data)
    <3>1. /\ worker[v].name \in Aggregates /\ worker[v].base <= worker[v].expected
          /\ worker[v].expected \in Nat /\ worker[v].expected <= Len(streams[worker[v].name].data)
      BY <1>2, <1>9, <2>3, OnTheWay
    <3>2. CASE worker[v].name = n
      <4>1. Len(streams[n].data) = e /\ Len(streams'[n].data) = e + 1
        BY <1>3, <1>4, <1>6
      <4> QED
        BY <1>9, <2>3, <3>1, <3>2, <4>1
    <3>3. CASE worker[v].name # n
      BY <1>6, <1>9, <2>3, <3>1, <3>3
    <3> QED
      BY <3>2, <3>3
  <2>4. \A v \in Workers : At(v, Appending)' => worker'[v].todo >= 1 /\ Accepts(worker'[v].cmd, worker'[v].known)
    BY <1>1, <1>2, <1>8 DEF Threads, At, Appending
  <2> QED
    BY <2>1, <2>2, <2>3, <2>4 DEF Threads
<1>11. Entries'
  <2>1. \A a \in Aggregates :
          \/ streams'[a] = NoEntry
          \/ streams'[a].version = Len(streams'[a].data)
          \/ \E v \in Workers : At(v, {"bump"})' /\ worker'[v].name = a
    <3>1. At(w, {"bump"})' /\ worker'[w].name = n
      BY <1>8 DEF At
    <3> QED
      BY <1>1, <1>3, <1>6, <3>1, InsideFacts
  <2>2. ASSUME NEW v \in Workers, At(v, Inside)' PROVE v = w
    BY <1>8, <2>2 DEF At
  <2>3. ~At(w, {"log"})' /\ ~At(w, {"add"})'
    BY <1>8 DEF At
  <2>4. ASSUME NEW v \in Workers, At(v, Inside)'
        PROVE  LET entry == streams'[worker'[v].name]  after == worker'[v].expected + 1 IN
               /\ entry # NoEntry
               /\ entry.version = IF At(v, {"log"})' THEN after ELSE worker'[v].expected
               /\ Len(entry.data) = IF At(v, {"add"})' THEN worker'[v].expected ELSE after
               /\ ~At(v, {"add"})' => entry.data[after] = Item(v)'
    <3>1. v = w /\ worker'[v].name = n /\ worker'[v].expected = e /\ Item(v)' = item
      BY <1>8, <2>2, <2>4
    <3>2. ~At(v, {"log"})' /\ ~At(v, {"add"})'
      BY <2>3, <3>1
    <3>3. streams'[n] # NoEntry /\ streams'[n].version = e /\ streams'[n].data = D
      BY <1>6
    <3> QED
      BY <1>4, <3>1, <3>2, <3>3
  <2> QED
    BY <2>1, <2>4 DEF Entries
<1>12. Batches'
  <2>1. ASSUME NEW v \in Workers, At(v, {"loaded"} \union Appending)',
               NEW j \in worker'[v].base + 1..worker'[v].expected
        PROVE  /\ streams'[worker'[v].name].data[j].base = worker'[v].base
               /\ streams'[worker'[v].name].data[j].writer = v
    <3>1. At(v, {"loaded"} \union Appending) /\ j \in worker[v].base + 1..worker[v].expected
      BY <1>9, <2>1
    <3>2. /\ streams[worker[v].name].data[j].base = worker[v].base
          /\ streams[worker[v].name].data[j].writer = v
      BY <3>1 DEF MInv, Batches
    <3>3. streams'[worker[v].name].data[j] = streams[worker[v].name].data[j]
      <4>1. CASE worker[v].name # n
        BY <1>2, <1>6, <3>1, <4>1, OnTheWay
      <4>2. CASE worker[v].name = n
        <5>1. Len(streams[n].data) = e
          BY <1>3
        <5>2. worker[v].base \in Nat /\ worker[v].expected \in Nat /\ worker[v].expected <= Len(streams[n].data)
          BY <1>2, <3>1, <4>2, OnTheWay
        <5>3. j \in 1..e
          BY <3>1, <5>1, <5>2
        <5> QED
          BY <1>4, <1>5, <1>6, <4>2, <5>3
      <4> QED
        BY <4>1, <4>2
    <3> QED
      BY <1>9, <2>1, <3>2, <3>3
  <2>2. \A j \in b + 1..e : d[j].base = b /\ d[j].writer = w
    <3>1. At(w, {"loaded"} \union Appending)
      BY <1>1 DEF At, Appending
    <3>2. n = worker[w].name /\ b = worker[w].base /\ e = worker[w].expected
      BY <1>3
    <3> QED
      BY <1>5, <3>1, <3>2 DEF MInv, Batches
  <2>3. ASSUME NEW a \in Aggregates, a # n
        PROVE  /\ \A i, j \in DOMAIN streams'[a].data :
                    LET later == streams'[a].data[i]  earlier == streams'[a].data[j] IN
                    later.base < j /\ j <= i => earlier.base = later.base /\ earlier.writer = later.writer
               /\ \A i \in DOMAIN streams'[a].data :
                    streams'[a].data[i].kind = "created" =>
                      streams'[a].data[i].known = 0 /\ streams'[a].data[i].base = i - 1
    BY <1>6, <2>3 DEF MInv, Batches, OnlyOwnEventsSinceBase
  <2>4. /\ \A i, j \in 1..e : d[i].base < j /\ j <= i => d[j].base = d[i].base /\ d[j].writer = d[i].writer
        /\ \A i \in 1..e : d[i].kind = "created" => d[i].known = 0 /\ d[i].base = i - 1
    <3>1. /\ \A i, j \in DOMAIN d :
               LET later == d[i]  earlier == d[j] IN
               later.base < j /\ j <= i => earlier.base = later.base /\ earlier.writer = later.writer
          /\ \A i \in DOMAIN d : d[i].kind = "created" => d[i].known = 0 /\ d[i].base = i - 1
      BY <1>5 DEF MInv, Batches, OnlyOwnEventsSinceBase
    <3> QED
      BY <1>5, <3>1
  <2>5. ASSUME NEW i \in 1..e + 1, NEW j \in 1..e + 1, D[i].base < j, j <= i
        PROVE  D[j].base = D[i].base /\ D[j].writer = D[i].writer
    <3>1. CASE i = e + 1 /\ j = e + 1
      BY <3>1
    <3>2. CASE i = e + 1 /\ j # e + 1
      <4>1. D[i] = item /\ item.base = b /\ item.writer = w
        BY <1>3, <1>4, <3>2
      <4>2. j \in 1..e /\ j \in b + 1..e
        BY <2>5, <3>2, <4>1
      <4> QED
        BY <1>4, <2>2, <4>1, <4>2
    <3>3. CASE i # e + 1
      <4>1. i \in 1..e /\ j \in 1..e
        BY <2>5, <3>3
      <4> QED
        BY <1>4, <2>4, <2>5, <4>1
    <3> QED
      BY <3>1, <3>2, <3>3
  <2>6. ASSUME NEW i \in 1..e + 1, D[i].kind = "created"
        PROVE  D[i].known = 0 /\ D[i].base = i - 1
    <3>1. CASE i = e + 1
      <4>1. D[i] = item /\ i - 1 = e
        BY <1>4, <3>1
      <4>2. item.kind = "created" => item.known = 0 /\ item.base = e
        BY <1>3
      <4> QED
        BY <2>6, <4>1, <4>2
    <3>2. CASE i # e + 1
      <4>1. i \in 1..e
        BY <3>2
      <4> QED
        BY <1>4, <2>4, <2>6, <4>1
    <3> QED
      BY <3>1, <3>2
  <2>7. OnlyOwnEventsSinceBase'
    <3> SUFFICES ASSUME NEW a \in Aggregates, NEW i \in DOMAIN streams'[a].data, NEW j \in DOMAIN streams'[a].data,
                        streams'[a].data[i].base < j, j <= i
                 PROVE  /\ streams'[a].data[j].base = streams'[a].data[i].base
                        /\ streams'[a].data[j].writer = streams'[a].data[i].writer
      BY DEF OnlyOwnEventsSinceBase
    <3>1. CASE a = n
      <4>1. streams'[a].data = D /\ i \in 1..e + 1 /\ j \in 1..e + 1
        BY <1>4, <1>6, <3>1
      <4> QED
        BY <2>5, <4>1
    <3>2. CASE a # n
      BY <2>3, <3>2
    <3> QED
      BY <3>1, <3>2
  <2>8. \A i \in DOMAIN streams'[n].data :
          streams'[n].data[i].kind = "created" =>
            streams'[n].data[i].known = 0 /\ streams'[n].data[i].base = i - 1
    BY <1>4, <1>6, <2>6
  <2>9. \A a \in Aggregates : \A i \in DOMAIN streams'[a].data :
          streams'[a].data[i].kind = "created" =>
            streams'[a].data[i].known = 0 /\ streams'[a].data[i].base = i - 1
    BY <2>3, <2>8
  <2> QED
    BY <2>1, <2>7, <2>9 DEF Batches
<1>13. EventsHeld'
  <2>1. Logged(n) = e
    BY <1>1, <1>3, <1>8 DEF Logged, At, Inside
  <2>2. Logged(n)' = e
    <3>1. At(w, {"bump", "log"})' /\ worker'[w].name = n
      BY <1>8 DEF At
    <3>2. Logged(n)' = Len(streams'[n].data) - 1
      BY <3>1 DEF Logged
    <3> QED
      BY <1>4, <1>6, <3>2
  <2>3. \A a \in Aggregates \ {n} : Logged(a)' = Logged(a)
    BY <1>1, <1>3, <1>6, <1>8 DEF Logged, At, Inside
  <2>4. Held(events, n, d, e)
    BY <1>3, <2>1 DEF MInv, EventsHeld
  <2>5. Held(events, n, D, e)
    BY <1>4, <2>4 DEF Held
  <2>6. ASSUME NEW a \in Aggregates PROVE Held(events', a, streams'[a].data, Logged(a)')
    <3>1. CASE a = n
      BY <1>1, <1>6, <2>2, <2>5, <3>1
    <3>2. CASE a # n
      BY <1>1, <1>6, <2>3, <3>2 DEF MInv, EventsHeld
    <3> QED
      BY <3>1, <3>2
  <2> QED
    BY <2>6 DEF EventsHeld
<1> QED
  BY <1>7, <1>10, <1>11, <1>12, <1>13 DEF MInv

\* The invariant of a step that changes no data and moves nobody in its stream.
LEMMA SameData ==
  ASSUME MInv, \A a \in Aggregates : streams'[a].data = streams[a].data,
         \A v \in Workers : At(v, {"loaded"} \union Appending)' =>
            /\ At(v, {"loaded"} \union Appending)
            /\ worker'[v].name = worker[v].name /\ worker'[v].base = worker[v].base
            /\ worker'[v].expected = worker[v].expected
  PROVE  /\ \A v \in Workers : At(v, {"loaded"} \union Appending)' =>
              /\ worker'[v].base <= worker'[v].expected
              /\ worker'[v].expected <= Len(streams'[worker'[v].name].data)
         /\ Batches'
<1>1. TypeOK /\ Threads /\ Batches
  BY DEF MInv
<1>2. ASSUME NEW v \in Workers, At(v, {"loaded"} \union Appending)'
      PROVE  /\ worker'[v].base <= worker'[v].expected
             /\ worker'[v].expected <= Len(streams'[worker'[v].name].data)
             /\ \A j \in worker'[v].base + 1..worker'[v].expected :
                  /\ streams'[worker'[v].name].data[j].base = worker'[v].base
                  /\ streams'[worker'[v].name].data[j].writer = v
  <2>1. /\ At(v, {"loaded"} \union Appending)
        /\ worker'[v].name = worker[v].name /\ worker'[v].base = worker[v].base
        /\ worker'[v].expected = worker[v].expected
    BY <1>2
  <2>2. worker[v].name \in Aggregates
    BY <1>1, <2>1, OnTheWay
  <2>3. streams'[worker[v].name].data = streams[worker[v].name].data
    BY <2>2
  <2>4. worker[v].base <= worker[v].expected /\ worker[v].expected <= Len(streams[worker[v].name].data)
    BY <1>1, <2>1, OnTheWay
  <2>5. \A j \in worker[v].base + 1..worker[v].expected :
          /\ streams[worker[v].name].data[j].base = worker[v].base
          /\ streams[worker[v].name].data[j].writer = v
    BY <1>1, <2>1 DEF Batches
  <2> QED
    BY <2>1, <2>3, <2>4, <2>5
<1>3. OnlyOwnEventsSinceBase'
  BY <1>1 DEF Batches, OnlyOwnEventsSinceBase
<1>4. \A a \in Aggregates : \A i \in DOMAIN streams'[a].data :
        streams'[a].data[i].kind = "created" =>
          streams'[a].data[i].known = 0 /\ streams'[a].data[i].base = i - 1
  BY <1>1 DEF Batches
<1> QED
  BY <1>2, <1>3, <1>4 DEF Batches

LEMMA BumpVersionStep ==
  ASSUME MInv, NEW w \in Workers, BumpVersion(w)
  PROVE  MInv'
<1>1. /\ worker[w].pc = "bump" /\ At(w, Inside) /\ Goto(w, "log") /\ "log" \in Inside
      /\ UNCHANGED <<events, holder>>
  BY DEF BumpVersion, At, Inside
<1>2. /\ streams \in [Aggregates -> [version : Nat, data : Seq(DataItem)] \union {NoEntry}]
      /\ TypeOK /\ Threads
  BY DEF MInv, TypeOK
<1>3. PICK n \in Aggregates, d \in Seq(DataItem), e \in Nat, item \in DataItem :
        /\ n = worker[w].name /\ d = streams[n].data
        /\ e = worker[w].expected /\ Len(d) = e + 1 /\ e = streams[n].version
        /\ item = Item(w) /\ item = d[e + 1]
  <2>1. ~At(w, {"add"}) /\ ~At(w, {"log"})
    BY <1>1 DEF At
  <2>2. /\ streams[worker[w].name].version = worker[w].expected
        /\ Len(streams[worker[w].name].data) = worker[w].expected + 1
        /\ streams[worker[w].name].data[worker[w].expected + 1] = Item(w)
    BY <1>1, <2>1 DEF MInv, Entries
  <2> QED
    BY <1>1, <2>2, InsideFacts
<1>4. /\ \A a \in Aggregates \ {n} : streams'[a] = streams[a]
      /\ streams'[n].version = e + 1 /\ streams'[n].data = d /\ streams'[n] # NoEntry
      /\ streams' \in [Aggregates -> [version : Nat, data : Seq(DataItem)] \union {NoEntry}]
  <2>1. streams[n] \in [version : Nat, data : Seq(DataItem)]
    BY <1>1, <1>3, InsideFacts
  <2> DEFINE r == [streams[n] EXCEPT !.version = e + 1]
  <2>2. r \in [version : Nat, data : Seq(DataItem)] /\ r.version = e + 1 /\ r.data = d
    BY <1>3, <2>1
  <2>3. streams' = [streams EXCEPT ![n] = r]
    BY <1>2, <1>3 DEF BumpVersion
  <2>4. r # NoEntry
    BY <2>2 DEF NoEntry
  <2> HIDE DEF r
  <2> QED
    BY <1>2, <2>2, <2>3, <2>4
<1>5. \A a \in Aggregates : streams'[a].data = streams[a].data
  BY <1>3, <1>4
<1>6. TypeOK'
  BY <1>1, <1>4, GoesOn DEF MInv, TypeOK
<1>7. /\ \A v \in Workers \ {w} : worker'[v] = worker[v] /\ ~At(v, Inside)
      /\ worker'[w].pc = "log" /\ worker'[w].name = n /\ worker'[w].expected = e
      /\ worker'[w].base = worker[w].base
      /\ worker'[w].todo = worker[w].todo /\ worker'[w].cmd = worker[w].cmd /\ worker'[w].known = worker[w].known
      /\ Item(w)' = item
  BY <1>1, <1>3, GoesOn
<1>8. \A v \in Workers : At(v, {"loaded"} \union Appending)' =>
         /\ At(v, {"loaded"} \union Appending)
         /\ worker'[v].name = worker[v].name /\ worker'[v].base = worker[v].base
         /\ worker'[v].expected = worker[v].expected
  BY <1>1, <1>3, <1>7 DEF At, Appending, Inside
<1>9. Threads'
  <2>1. \A v \in Workers : At(v, Inside)' <=> holder' = v
    BY <1>1, <1>2, <1>7 DEF Threads, At, Inside
  <2>2. \A v \in Workers : At(v, {"copying", "copied"})' /\ worker'[v].live => streams'[worker'[v].name] # NoEntry
    BY <1>2, <1>4, <1>7, WorkerType DEF Threads, At
  <2>3. \A v \in Workers : At(v, Appending)' => worker'[v].todo >= 1 /\ Accepts(worker'[v].cmd, worker'[v].known)
    BY <1>1, <1>2, <1>7 DEF Threads, At, Appending
  <2> QED
    BY <1>5, <1>8, <2>1, <2>2, <2>3, SameData DEF Threads
<1>10. Entries'
  <2>1. \A a \in Aggregates : streams'[a] = NoEntry \/ streams'[a].version = Len(streams'[a].data)
    BY <1>1, <1>3, <1>4, InsideFacts
  <2>2. ASSUME NEW v \in Workers, At(v, Inside)' PROVE v = w
    BY <1>7, <2>2 DEF At
  <2>3. At(w, {"log"})' /\ ~At(w, {"add"})'
    BY <1>7 DEF At
  <2>4. ASSUME NEW v \in Workers, At(v, Inside)'
        PROVE  LET entry == streams'[worker'[v].name]  after == worker'[v].expected + 1 IN
               /\ entry # NoEntry
               /\ entry.version = IF At(v, {"log"})' THEN after ELSE worker'[v].expected
               /\ Len(entry.data) = IF At(v, {"add"})' THEN worker'[v].expected ELSE after
               /\ ~At(v, {"add"})' => entry.data[after] = Item(v)'
    <3>1. v = w /\ worker'[v].name = n /\ worker'[v].expected = e /\ Item(v)' = item
      BY <1>7, <2>2, <2>4
    <3>2. At(v, {"log"})' /\ ~At(v, {"add"})'
      BY <2>3, <3>1
    <3>3. streams'[n] # NoEntry /\ streams'[n].version = e + 1 /\ streams'[n].data = d
      BY <1>4
    <3>4. Len(d) = e + 1 /\ d[e + 1] = item
      BY <1>3
    <3> QED
      BY <3>1, <3>2, <3>3, <3>4
  <2> QED
    BY <2>1, <2>4 DEF Entries
<1>11. Batches'
  BY <1>5, <1>8, SameData
<1>12. EventsHeld'
  <2>1. \A a \in Aggregates : Logged(a)' = Logged(a)
    <3>1. ASSUME NEW a \in Aggregates
          PROVE  (\E v \in Workers : At(v, {"bump", "log"})' /\ worker'[v].name = a)
                 <=> \E v \in Workers : At(v, {"bump", "log"}) /\ worker[v].name = a
      BY <1>1, <1>3, <1>7 DEF At
    <3> QED
      BY <1>5, <3>1 DEF Logged
  <2> QED
    BY <1>1, <1>5, <2>1 DEF MInv, EventsHeld
<1> QED
  BY <1>6, <1>9, <1>10, <1>11, <1>12 DEF MInv

-----------------------------------------------------------------------------
(* An event is added to the list.                                          *)

LEMMA HeldAfterOwn ==
  ASSUME NEW S, NEW list \in Seq(S), NEW item \in S, NEW n, item.name = n, NEW data, NEW m \in Nat,
         data[m + 1] = item, Held(list, n, data, m)
  PROVE  Held(Append(list, item), n, data, m + 1)
<1> DEFINE more == Append(list, item)
           L == Len(list)
<1>1. PICK at \in [1..m -> DOMAIN list] :
        /\ \A i, j \in 1..m : i < j => at[i] < at[j]
        /\ \A i \in 1..m : list[at[i]] = data[i] /\ data[i].name = n
        /\ \A k \in DOMAIN list : list[k].name = n => \E i \in 1..m : at[i] = k
  BY DEF Held
<1>2. /\ L \in Nat /\ DOMAIN list = 1..L /\ DOMAIN more = 1..L + 1 /\ more[L + 1] = item
      /\ \A k \in 1..L : more[k] = list[k]
  BY AppendFacts
<1> HIDE DEF more, L
<1> DEFINE new == [i \in 1..m + 1 |-> IF i = m + 1 THEN L + 1 ELSE at[i]]
<1>3. \A i \in 1..m : at[i] \in 1..L /\ i \in 1..m + 1 /\ new[i] = at[i]
  BY <1>1, <1>2
<1>4. new[m + 1] = L + 1 /\ \A i \in 1..m + 1 : i = m + 1 \/ i \in 1..m
  OBVIOUS
<1>5. new \in [1..m + 1 -> DOMAIN more]
  BY <1>2, <1>3
<1> HIDE DEF new
<1>6. \A i, j \in 1..m + 1 : i < j => new[i] < new[j]
  <2> SUFFICES ASSUME NEW i \in 1..m + 1, NEW j \in 1..m + 1, i < j PROVE new[i] < new[j]
    OBVIOUS
  <2>1. i \in 1..m /\ new[i] = at[i] /\ at[i] \in 1..L
    BY <1>3, <1>4
  <2>2. CASE j = m + 1
    BY <1>2, <1>4, <2>1, <2>2
  <2>3. CASE j # m + 1
    <3>1. j \in 1..m /\ new[j] = at[j]
      BY <1>3, <1>4, <2>3
    <3> QED
      BY <1>1, <2>1, <3>1
  <2> QED
    BY <2>2, <2>3
<1>7. \A i \in 1..m + 1 : more[new[i]] = data[i] /\ data[i].name = n
  BY <1>1, <1>2, <1>3, <1>4
<1>8. \A k \in DOMAIN more : more[k].name = n => \E i \in 1..m + 1 : new[i] = k
  <2> SUFFICES ASSUME NEW k \in 1..L + 1, more[k].name = n PROVE \E i \in 1..m + 1 : new[i] = k
    BY <1>2
  <2>1. CASE k = L + 1
    BY <1>4, <2>1
  <2>2. CASE k # L + 1
    <3>1. k \in 1..L
      BY <1>2, <2>2
    <3> QED
      BY <1>1, <1>2, <1>3, <3>1
  <2> QED
    BY <2>1, <2>2
<1> QED
  BY <1>5, <1>6, <1>7, <1>8 DEF Held, more

LEMMA HeldAfterOther ==
  ASSUME NEW S, NEW list \in Seq(S), NEW item \in S, NEW n, item.name # n, NEW data, NEW m,
         Held(list, n, data, m)
  PROVE  Held(Append(list, item), n, data, m)
<1> DEFINE more == Append(list, item)
           L == Len(list)
<1>1. PICK at \in [1..m -> DOMAIN list] :
        /\ \A i, j \in 1..m : i < j => at[i] < at[j]
        /\ \A i \in 1..m : list[at[i]] = data[i] /\ data[i].name = n
        /\ \A k \in DOMAIN list : list[k].name = n => \E i \in 1..m : at[i] = k
  BY DEF Held
<1>2. /\ L \in Nat /\ DOMAIN list = 1..L /\ DOMAIN more = 1..L + 1 /\ more[L + 1] = item
      /\ \A k \in 1..L : more[k] = list[k]
  BY AppendFacts
<1> HIDE DEF more, L
<1>3. \A k \in DOMAIN more : k \in DOMAIN list \/ more[k] = item
  BY <1>2
<1>4. at \in [1..m -> DOMAIN more]
  BY <1>1, <1>2
<1>5. \A i \in 1..m : more[at[i]] = data[i]
  BY <1>1, <1>2
<1>6. \A k \in DOMAIN more : more[k].name = n => \E i \in 1..m : at[i] = k
  BY <1>1, <1>2, <1>3
<1> QED
  BY <1>1, <1>4, <1>5, <1>6 DEF Held, more

LEMMA AddEventStep ==
  ASSUME MInv, NEW w \in Workers, AddEvent(w)
  PROVE  MInv'
<1>1. /\ worker[w].pc = "log" /\ At(w, Inside) /\ UNCHANGED streams
      /\ holder' = NoThread /\ events' = Append(events, Item(w))
      /\ worker' = [worker EXCEPT ![w] = NextChange(worker[w])]
  BY DEF AddEvent, At, Inside
<1>2. /\ streams \in [Aggregates -> [version : Nat, data : Seq(DataItem)] \union {NoEntry}]
      /\ worker \in [Workers -> Handling \union {Idle}] /\ events \in Seq(DataItem)
      /\ TypeOK /\ Threads
  BY DEF MInv, TypeOK
<1>3. PICK n \in Aggregates, d \in Seq(DataItem), e \in Nat, b \in Nat, item \in DataItem, h \in Handling :
        /\ h = worker[w] /\ h.todo \in Nat /\ h.todo >= 1 /\ Accepts(h.cmd, h.known)
        /\ n = h.name /\ d = streams[n].data /\ streams[n].version = e + 1
        /\ e = h.expected /\ Len(d) = e + 1 /\ b = h.base /\ b <= e
        /\ item = Item(w) /\ item = d[e + 1] /\ item.name = n /\ item.base = b /\ item.writer = w
  <2>1. ~At(w, {"add"}) /\ At(w, {"log"})
    BY <1>1 DEF At
  <2>2. /\ Len(streams[worker[w].name].data) = worker[w].expected + 1
        /\ streams[worker[w].name].version = worker[w].expected + 1
        /\ streams[worker[w].name].data[worker[w].expected + 1] = Item(w)
    BY <1>1, <2>1 DEF MInv, Entries
  <2>3. /\ worker[w] \in Handling /\ worker[w].name \in Aggregates
        /\ worker[w].base \in Nat /\ worker[w].expected \in Nat /\ worker[w].todo \in Nat
        /\ worker[w].base <= worker[w].expected /\ worker[w].todo >= 1
        /\ Accepts(worker[w].cmd, worker[w].known)
        /\ Item(w) \in DataItem
        /\ Item(w).name = worker[w].name /\ Item(w).writer = w /\ Item(w).base = worker[w].base
    BY <1>1, InsideFacts
  <2>4. streams[worker[w].name].data \in Seq(DataItem)
    BY <1>2, <2>3, EntryType
  <2> QED
    BY <2>2, <2>3, <2>4
\* The handler ends, or goes on to its next event.
<1>4. PICK next \in Handling \union {Idle} :
        /\ worker' = [worker EXCEPT ![w] = next]
        /\ \/ next = Idle
           \/ /\ next.pc = "append" /\ next.name = n /\ next.base = b /\ next.expected = e + 1
              /\ next.todo \in Nat /\ next.todo >= 1 /\ next.cmd = h.cmd /\ next.known = h.known
  <2>1. CASE h.todo = 1
    BY <1>1, <1>3, <2>1 DEF NextChange
  <2>2. CASE h.todo # 1
    <3> DEFINE g == [h EXCEPT !.pc = "append", !.expected = @ + 1, !.todo = @ - 1]
    <3>1. h.expected + 1 \in Nat /\ h.todo - 1 \in Nat /\ h.todo - 1 >= 1
      <4>1. h.todo \in Nat /\ h.todo >= 1 /\ h.expected \in Nat
        BY <1>3
      <4> QED
        BY <2>2, <4>1
    <3>2. /\ g \in Handling /\ g.pc = "append" /\ g.name = h.name /\ g.base = h.base
          /\ g.expected = h.expected + 1 /\ g.todo = h.todo - 1 /\ g.cmd = h.cmd /\ g.known = h.known
      BY <3>1 DEF Handling
    <3>3. worker' = [worker EXCEPT ![w] = g]
      BY <1>1, <1>3, <2>2 DEF NextChange
    <3> HIDE DEF g
    <3> QED
      BY <1>3, <3>1, <3>2, <3>3
  <2> QED
    BY <2>1, <2>2
<1>5. /\ worker'[w] = next /\ \A v \in Workers \ {w} : worker'[v] = worker[v] /\ ~At(v, Inside)
      /\ next.pc \in {"idle", "append"}
  BY <1>1, <1>2, <1>4, InsideFacts DEF Idle
<1>6. \A v \in Workers : ~At(v, Inside)'
  BY <1>5 DEF At, Inside
<1>7. TypeOK'
  <2>1. worker' \in [Workers -> Handling \union {Idle}]
    BY <1>2, <1>4
  <2>2. events' \in Seq(DataItem)
    BY <1>1, <1>2, <1>3
  <2> QED
    BY <1>1, <2>1, <2>2 DEF MInv, TypeOK
<1>8. Threads'
  <2>1. \A v \in Workers : At(v, Inside)' <=> holder' = v
    BY <1>1, <1>6, NoThreadAssumption
  <2>2. \A v \in Workers : At(v, {"copying", "copied"})' /\ worker'[v].live => streams'[worker'[v].name] # NoEntry
    BY <1>1, <1>2, <1>5 DEF Threads, At
  <2>3. \A v \in Workers : At(v, {"loaded"} \union Appending)' =>
          /\ worker'[v].base <= worker'[v].expected
          /\ worker'[v].expected <= Len(streams'[worker'[v].name].data)
    <3>1. next.pc # "idle" => /\ next.base <= next.expected
                              /\ next.expected <= Len(streams[next.name].data)
      BY <1>3, <1>4 DEF Idle
    <3> QED
      BY <1>1, <1>2, <1>5, <3>1 DEF Threads, At, Appending, Inside
  <2>4. \A v \in Workers : At(v, Appending)' => worker'[v].todo >= 1 /\ Accepts(worker'[v].cmd, worker'[v].known)
    <3>1. next.pc # "idle" => next.todo >= 1 /\ Accepts(next.cmd, next.known)
      BY <1>3, <1>4 DEF Idle
    <3> QED
      BY <1>2, <1>5, <3>1 DEF Threads, At, Appending, Inside
  <2> QED
    BY <2>1, <2>2, <2>3, <2>4 DEF Threads
<1>9. Entries'
  <2>1. \A a \in Aggregates : streams[a] = NoEntry \/ streams[a].version = Len(streams[a].data)
    BY <1>1, InsideFacts
  <2> QED
    BY <1>1, <1>6, <2>1 DEF Entries
<1>10. Batches'
  <2>1. ASSUME NEW v \in Workers, At(v, {"loaded"} \union Appending)',
               NEW j \in worker'[v].base + 1..worker'[v].expected
        PROVE  /\ streams'[worker'[v].name].data[j].base = worker'[v].base
               /\ streams'[worker'[v].name].data[j].writer = v
    <3>1. CASE v # w
      <4>1. At(v, {"loaded"} \union Appending) /\ worker'[v] = worker[v]
        BY <1>5, <2>1, <3>1 DEF At
      <4> QED
        BY <1>1, <2>1, <4>1 DEF MInv, Batches
    <3>2. CASE v = w
      <4>1. next.pc = "append" /\ worker'[v] = next
        BY <1>5, <2>1, <3>2 DEF At, Appending, Inside
      <4>2. next.name = n /\ next.base = b /\ next.expected = e + 1
        BY <1>4, <4>1 DEF Idle
      <4>3. j \in b + 1..e + 1
        BY <2>1, <4>1, <4>2
      <4>4. CASE j = e + 1
        BY <1>1, <1>3, <3>2, <4>1, <4>2, <4>4
      <4>5. CASE j # e + 1
        <5>1. j \in worker[w].base + 1..worker[w].expected /\ At(w, {"loaded"} \union Appending)
          BY <1>1, <1>3, <4>3, <4>5 DEF At, Appending
        <5>2. streams[worker[w].name].data[j].base = worker[w].base /\ streams[worker[w].name].data[j].writer = w
          BY <5>1 DEF MInv, Batches
        <5> QED
          BY <1>1, <1>3, <3>2, <4>1, <4>2, <5>2
      <4> QED
        BY <4>4, <4>5
    <3> QED
      BY <3>1, <3>2
  <2>2. OnlyOwnEventsSinceBase'
    BY <1>1 DEF MInv, Batches, OnlyOwnEventsSinceBase
  <2>3. \A a \in Aggregates : \A i \in DOMAIN streams'[a].data :
          streams'[a].data[i].kind = "created" =>
            streams'[a].data[i].known = 0 /\ streams'[a].data[i].base = i - 1
    BY <1>1 DEF MInv, Batches
  <2> QED
    BY <2>1, <2>2, <2>3 DEF Batches
<1>11. EventsHeld'
  <2>1. \A a \in Aggregates : Logged(a)' = Len(streams[a].data)
    BY <1>1, <1>6 DEF Logged, At, Inside
  <2>2. Logged(n) = e
    <3>1. At(w, {"bump", "log"}) /\ worker[w].name = n
      BY <1>1, <1>3 DEF At
    <3>2. Logged(n) = Len(streams[n].data) - 1
      BY <3>1 DEF Logged
    <3> QED
      BY <1>3, <3>2
  <2>3. \A a \in Aggregates \ {n} : Logged(a) = Len(streams[a].data)
    BY <1>1, <1>3, <1>5 DEF Logged, At, Inside
  <2>4. Held(events', n, d, e + 1)
    <3>1. Held(events, n, d, e)
      BY <1>3, <2>2 DEF MInv, EventsHeld
    <3>2. item.name = n /\ d[e + 1] = item /\ events' = Append(events, item)
      BY <1>1, <1>3
    <3> QED
      BY <1>2, <3>1, <3>2, HeldAfterOwn
  <2>5. ASSUME NEW a \in Aggregates PROVE Held(events', a, streams'[a].data, Logged(a)')
    <3>1. CASE a = n
      BY <1>1, <1>3, <2>1, <2>4, <3>1
    <3>2. CASE a # n
      <4>1. Held(events, a, streams[a].data, Len(streams[a].data))
        BY <2>3, <3>2 DEF MInv, EventsHeld
      <4>2. item.name # a /\ events' = Append(events, item)
        BY <1>1, <1>3, <3>2
      <4>3. \A x, m : Held(events, a, x, m) => Held(Append(events, item), a, x, m)
        BY <1>2, <4>2, HeldAfterOther
      <4> QED
        BY <1>1, <2>1, <4>1, <4>2, <4>3
    <3> QED
      BY <3>1, <3>2
  <2> QED
    BY <2>5 DEF EventsHeld
<1> QED
  BY <1>7, <1>8, <1>9, <1>10, <1>11 DEF MInv

-----------------------------------------------------------------------------
\* Load, Copy, ReadVersion, Decide and a failure of Append, none of which takes the lock.
LEMMA LoadStep ==
  ASSUME MInv, NEW w \in Workers,
         \/ Copy(w) \/ ReadVersion(w) \/ Decide(w) \/ SerializeThrows(w)
         \/ \E n \in Aggregates, c \in Commands : Load(w, n, c)
  PROVE  MInv'
<1>1. /\ worker \in [Workers -> Handling \union {Idle}] /\ TypeOK /\ Threads
      /\ streams \in [Aggregates -> [version : Nat, data : Seq(DataItem)] \union {NoEntry}]
  BY DEF MInv, TypeOK
<1>2. Outside(w, Idle) \/ At(w, Inside)
  BY DEF Outside, Idle, Inside
<1>3. ASSUME NEW n \in Aggregates, NEW c \in Commands, Load(w, n, c) PROVE MInv'
  <2> DEFINE g == [pc |-> "copying", name |-> n, cmd |-> c, live |-> streams[n] # NoEntry,
                   known |-> Len(streams[n].data), base |-> 0, expected |-> 0, todo |-> 0]
  <2>1. worker' = [worker EXCEPT ![w] = g] /\ worker[w] = Idle /\ UNCHANGED <<streams, events, holder>>
    BY <1>3 DEF Load
  <2>2. g \in Handling /\ g.pc = "copying" /\ g.name = n /\ (g.live => streams[g.name] # NoEntry)
    BY <1>1, EntryType DEF Handling
  <2> HIDE DEF g
  <2>3. Outside(w, g)
    BY <2>1, <2>2 DEF Outside, At, Idle, Inside
  <2> QED
    BY <2>1, <2>3, OutsideStep
<1>4. CASE Copy(w)
  <2>1. worker[w].pc = "copying" /\ UNCHANGED <<streams, events, holder>>
    BY <1>4 DEF Copy
  <2>2. CASE worker' = [worker EXCEPT ![w] = Idle]
    BY <1>2, <2>1, <2>2, OutsideStep DEF At, Inside
  <2>3. CASE worker' = [worker EXCEPT ![w].pc = "copied"]
    <3> DEFINE g == [worker[w] EXCEPT !.pc = "copied"]
    <3>1. worker[w] \in Handling
      BY <1>1, <2>1, WorkerType DEF At
    <3>2. g \in Handling /\ g.pc = "copied" /\ g.live = worker[w].live /\ g.name = worker[w].name
      BY <3>1 DEF Handling
    <3>3. worker' = [worker EXCEPT ![w] = g]
      BY <2>3
    <3> HIDE DEF g
    <3>4. Outside(w, g)
      BY <1>1, <2>1, <3>2 DEF Outside, Threads, At, Inside
    <3> QED
      BY <2>1, <3>3, <3>4, OutsideStep
  <2> QED
    BY <1>4, <2>2, <2>3 DEF Copy, Leave, Goto
<1>5. CASE ReadVersion(w)
  <2> DEFINE u == IF worker[w].live THEN streams[worker[w].name].version ELSE 0
             g == [worker[w] EXCEPT !.pc = "loaded", !.base = u, !.expected = u]
  <2>1. worker[w].pc = "copied" /\ worker' = [worker EXCEPT ![w] = g] /\ UNCHANGED <<streams, events, holder>>
    BY <1>5 DEF ReadVersion
  <2>2. worker[w] \in Handling /\ worker[w].name \in Aggregates
    BY <1>1, <2>1, WorkerType DEF At
  <2>3. u \in Nat /\ u <= Len(streams[worker[w].name].data)
    <3>1. CASE ~worker[w].live
      BY <1>1, <2>2, <3>1, EntryType
    <3>2. CASE worker[w].live
      <4>1. streams[worker[w].name] # NoEntry
        BY <1>1, <2>1, <3>2 DEF Threads, At
      <4>2. \/ streams[worker[w].name].version = Len(streams[worker[w].name].data)
            \/ \E v \in Workers : At(v, {"bump"}) /\ worker[v].name = worker[w].name
        BY <2>2, <4>1 DEF MInv, Entries
      <4>3. ASSUME NEW v \in Workers, At(v, {"bump"}), worker[v].name = worker[w].name
            PROVE  Len(streams[worker[w].name].data) = streams[worker[w].name].version + 1
        BY <4>3 DEF MInv, Entries, At, Inside
      <4> QED
        BY <1>1, <2>2, <3>2, <4>1, <4>2, <4>3, EntryType
    <3> QED
      BY <3>1, <3>2
  <2> HIDE DEF u
  <2>4. g \in Handling /\ g.pc = "loaded" /\ g.base = u /\ g.expected = u /\ g.name = worker[w].name
    BY <2>2, <2>3 DEF Handling
  <2> HIDE DEF g
  <2>5. Outside(w, g)
    BY <2>1, <2>3, <2>4 DEF Outside, At, Inside
  <2> QED
    BY <2>1, <2>5, OutsideStep
<1>6. CASE Decide(w)
  <2>1. worker[w].pc = "loaded" /\ UNCHANGED <<streams, events, holder>>
    BY <1>6 DEF Decide
  <2>2. CASE worker' = [worker EXCEPT ![w] = Idle]
    BY <1>2, <2>1, <2>2, OutsideStep DEF At, Inside
  <2>3. ASSUME NEW k \in 1..MaxBatch, Accepts(worker[w].cmd, worker[w].known),
               worker' = [worker EXCEPT ![w] = [worker[w] EXCEPT !.pc = "append", !.todo = k]]
        PROVE  MInv'
    <3> DEFINE g == [worker[w] EXCEPT !.pc = "append", !.todo = k]
    <3>1. worker[w] \in Handling /\ k \in Nat /\ k >= 1
      BY <1>1, <2>1, WorkerType, InMemoryBounds DEF At
    <3>2. /\ g \in Handling /\ g.pc = "append" /\ g.todo = k /\ g.name = worker[w].name /\ g.cmd = worker[w].cmd
          /\ g.base = worker[w].base /\ g.expected = worker[w].expected /\ g.known = worker[w].known
      BY <3>1 DEF Handling
    <3> HIDE DEF g
    <3>3. At(w, {"loaded"} \union Appending) /\ ~At(w, Inside)
      BY <2>1 DEF At, Inside
    <3>4. /\ worker[w].base <= worker[w].expected
          /\ worker[w].expected <= Len(streams[worker[w].name].data)
          /\ \A j \in worker[w].base + 1..worker[w].expected :
               /\ streams[worker[w].name].data[j].base = worker[w].base
               /\ streams[worker[w].name].data[j].writer = w
      BY <1>1, <3>3 DEF Threads, MInv, Batches
    <3>5. Outside(w, g)
      BY <2>3, <3>1, <3>2, <3>3, <3>4 DEF Outside, Inside
    <3> QED
      BY <2>1, <2>3, <3>5, OutsideStep DEF g
  <2> QED
    BY <1>6, <2>2, <2>3 DEF Decide, Leave
<1>7. CASE SerializeThrows(w)
  <2>1. /\ worker[w].pc = "append" /\ worker' = [worker EXCEPT ![w] = Idle]
        /\ UNCHANGED <<streams, events, holder>>
    BY <1>7 DEF SerializeThrows, Leave
  <2> QED
    BY <1>2, <2>1, OutsideStep DEF At, Inside
<1> QED
  BY <1>3, <1>4, <1>5, <1>6, <1>7

LEMMA Inductive == MInv /\ [Next]_vars => MInv'
<1> SUFFICES ASSUME MInv, [Next]_vars PROVE MInv'
  OBVIOUS
<1>1. CASE UNCHANGED vars
  BY <1>1 DEF vars, MInv, TypeOK, Threads, Entries, Batches, OnlyOwnEventsSinceBase, EventsHeld, Logged, At, Item
<1> QED
  BY <1>1, RestartStep, LoadStep, EnterStep, AddDataStep, BumpVersionStep, AddEventStep DEF Next

LEMMA Invariance == Spec => []MInv
  BY Initial, Inductive, PTL DEF Spec

\* The dictionary, the list of events, the lock and the threads keep their types.
THEOREM TypeCorrect == Spec => []TypeOK
  BY Invariance, PTL DEF MInv

\* Between two calls of Append the list of all events, which the publisher reads, is
\* the entries' data in the order of each stream, and the versions count the data.
THEOREM EntriesAgreeWithEvents == Spec => []EntriesMatchEvents
<1>1. MInv => EntriesMatchEvents
  <2> SUFFICES ASSUME MInv, holder = NoThread, NEW n \in Aggregates
               PROVE  /\ streams[n] # NoEntry => streams[n].version = Len(streams[n].data)
                      /\ Held(events, n, streams[n].data, Len(streams[n].data))
    BY DEF EntriesMatchEvents
  <2>1. \A w \in Workers : ~At(w, Inside)
    BY NoThreadAssumption DEF MInv, Threads
  <2>2. Logged(n) = Len(streams[n].data)
    BY <2>1 DEF Logged, At, Inside
  <2> QED
    BY <2>1, <2>2 DEF MInv, Entries, EventsHeld, At, Inside
<1> QED
  BY <1>1, Invariance, PTL

\* A version read without the lock, and read too late, lets nobody append over events
\* it did not count.
THEOREM NothingStoredSinceBase == Spec => []OnlyOwnEventsSinceBase
  BY Invariance, PTL DEF MInv, Batches

\* A second created event in a stream was decided by an aggregate whose events were
\* read before an append and its version after it.
THEOREM RecreatedIsTorn == Spec => []RecreatedOnlyIfTorn
<1>1. MInv => RecreatedOnlyIfTorn
  <2> SUFFICES ASSUME MInv, NEW n \in Aggregates, NEW i \in DOMAIN streams[n].data,
                      streams[n].data[i].kind = "created", i # 1
               PROVE  streams[n].data[i].known < streams[n].data[i].base
    BY DEF RecreatedOnlyIfTorn
  <2>1. streams[n].data[i].known = 0 /\ streams[n].data[i].base = i - 1
    BY DEF MInv, Batches
  <2>2. i \in Nat /\ i >= 1
    BY EntryType DEF MInv
  <2> QED
    BY <2>1, <2>2
<1> QED
  BY <1>1, Invariance, PTL
================================================================================
