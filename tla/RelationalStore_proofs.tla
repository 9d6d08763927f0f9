------------------------ MODULE RelationalStore_proofs ------------------------
(***************************************************************************)
(* The safety invariants of EventStore, for every set of workers and       *)
(* aggregates, both engines and all bounds; and that EventStore implements *)
(* StreamHistory, one history per aggregate.  At the end, what the message *)
(* thread of SqlAppendOnlyStore stores on the connection it shares.        *)
(***************************************************************************)
EXTENDS EventStore, SqlAppendOnlyStore, FiniteSetTheorems, TLAPS

SequencesOf == INSTANCE SequenceTheorems

\* The primary key and the unique index, and where the identity stands.
Keys ==
  /\ \A r, q \in rows : r.id = q.id => r = q
  /\ \A r, q \in rows : r.name = q.name /\ r.version = q.version => r = q
  /\ \A r \in rows : r.id <= lastId
  /\ \A r \in rows : r.base < r.version

\* The ids of the events of n up to version v.
IdsUpTo(n, v) == {r.id : r \in {q \in Stream(n) : q.version <= v}}

\* An aggregate was restored from what is in front of its batch, then and now.
SeenIsPrefix == \A r \in rows : r.seen = IdsUpTo(r.name, r.base)

\* What holds of a handler between its load and its end: everything it was
\* restored from and everything it has stored is still there, with nothing else
\* up to the version it expects.
HandlerKnows(w, h) ==
  /\ h.base <= h.expected
  /\ h.seen = IdsUpTo(h.name, h.base)
  /\ \A v \in 1..h.expected : KeyExists(h.name, v)
  /\ \A r \in Stream(h.name) :
       h.base < r.version /\ r.version <= h.expected => r.base = h.base /\ r.writer = w
  /\ h.pc = "append" => h.todo >= 1 /\ Accepts(h.cmd, h.seen)

Handlers == \A w \in Workers : worker[w] # Idle => HandlerKnows(w, worker[w])

\* The inductive invariant.
IInv ==
  /\ TypeOK
  /\ Keys
  /\ Handlers
  /\ GaplessVersions
  /\ IdsFollowVersions
  /\ SeenIsPrefix
  /\ BatchesAreContiguous
  /\ CreatedFirstAndOnce

-----------------------------------------------------------------------------
LEMMA HandlingType ==
  ASSUME TypeOK, NEW w \in Workers, worker[w] # Idle
  PROVE  worker[w] \in Handling
BY DEF TypeOK

LEMMA BusyIsNotIdle ==
  ASSUME NEW w \in Workers, worker[w].pc \in {"loaded", "append"}
  PROVE  worker[w] # Idle
BY DEF Idle

LEMMA Initial == Init => IInv
BY DEF Init, IInv, TypeOK, Keys, Handlers, GaplessVersions, IdsFollowVersions,
       SeenIsPrefix, BatchesAreContiguous, CreatedFirstAndOnce, SameBatch, Idle

\* A step that leaves the table alone has only to account for the handlers.
LEMMA TableUntouched ==
  ASSUME IInv, UNCHANGED rows, lastId' \in Nat, lastId' >= lastId,
         worker' \in [Workers -> Handling \union {Idle}],
         \A w \in Workers : worker'[w] # Idle => HandlerKnows(w, worker'[w])
  PROVE  IInv'
<1>1. TypeOK'
  BY DEF IInv, TypeOK
<1>2. Keys'
  <2>1. \A r \in rows : r.id \in Nat
    BY DEF IInv, TypeOK, Row
  <2>2. lastId \in Nat
    BY DEF IInv, TypeOK
  <2> QED
    BY <2>1, <2>2 DEF IInv, Keys
<1>3. Handlers'
  BY DEF Handlers, HandlerKnows, IdsUpTo, KeyExists, Stream
<1>4. GaplessVersions' /\ IdsFollowVersions' /\ SeenIsPrefix'
      /\ BatchesAreContiguous' /\ CreatedFirstAndOnce'
  BY DEF IInv, GaplessVersions, IdsFollowVersions, SeenIsPrefix, BatchesAreContiguous,
         CreatedFirstAndOnce, KeyExists, Stream, IdsUpTo
<1> QED
  BY <1>1, <1>2, <1>3, <1>4 DEF IInv

\* A handler that ends, whatever the reason, leaves no obligation behind.
LEMMA HandlerEnds ==
  ASSUME IInv, NEW w \in Workers, worker' = [worker EXCEPT ![w] = Idle],
         UNCHANGED rows, lastId' \in Nat, lastId' >= lastId
  PROVE  IInv'
<1>1. worker' \in [Workers -> Handling \union {Idle}]
  BY DEF IInv, TypeOK
<1>2. \A u \in Workers : worker'[u] # Idle => HandlerKnows(u, worker'[u])
  BY DEF IInv, TypeOK, Handlers
<1> QED
  BY <1>1, <1>2, TableUntouched

LEMMA GetStep ==
  ASSUME IInv, NEW w \in Workers, NEW n \in Aggregates, NEW c \in Commands, Get(w, n, c)
  PROVE  IInv'
<1>1. PICK v \in 0..MaxId :
        /\ IsVersion(n, v)
        /\ worker' = [worker EXCEPT ![w] =
                        [pc |-> "loaded", name |-> n, cmd |-> c, base |-> v, expected |-> v,
                         seen |-> {r.id : r \in Stream(n)}, todo |-> 0]]
  BY DEF Get
<1> DEFINE h == [pc |-> "loaded", name |-> n, cmd |-> c, base |-> v, expected |-> v,
                 seen |-> {r.id : r \in Stream(n)}, todo |-> 0]
<1>2. v \in Nat
  BY BoundsAssumption
<1>3. {r.id : r \in Stream(n)} \subseteq Nat
  BY DEF IInv, TypeOK, Row, Stream
<1>4. h \in Handling
  BY <1>2, <1>3 DEF Handling
<1>5. HandlerKnows(w, h)
  <2>1. h.base <= h.expected
    BY <1>2
  <2>2. h.seen = IdsUpTo(h.name, h.base)
    BY <1>1 DEF IsVersion, IdsUpTo
  <2>3. \A x \in 1..h.expected : KeyExists(h.name, x)
    <3>1. CASE v = 0
      BY <3>1
    <3>2. CASE v # 0
      <4>1. PICK r \in Stream(n) : r.version = v
        BY <1>1, <3>2 DEF IsVersion
      <4>2. r \in rows /\ r.name = n
        BY <4>1 DEF Stream
      <4>3. \A x \in 1..v - 1 : KeyExists(n, x)
        BY <4>1, <4>2 DEF IInv, GaplessVersions
      <4>4. KeyExists(n, v)
        BY <4>1 DEF KeyExists
      <4> QED
        BY <1>2, <4>3, <4>4
    <3> QED
      BY <3>1, <3>2
  <2>4. \A r \in Stream(h.name) :
          h.base < r.version /\ r.version <= h.expected => r.base = h.base /\ r.writer = w
    <3>1. \A r \in Stream(n) : r.version \in Nat
      BY DEF IInv, TypeOK, Row, Stream
    <3> QED
      BY <1>2, <3>1
  <2> QED
    BY <2>1, <2>2, <2>3, <2>4 DEF HandlerKnows
<1>6. worker' \in [Workers -> Handling \union {Idle}]
  BY <1>1, <1>4 DEF IInv, TypeOK
<1>7. \A u \in Workers : worker'[u] # Idle => HandlerKnows(u, worker'[u])
  BY <1>1, <1>5 DEF IInv, TypeOK, Handlers
<1>8. lastId' \in Nat /\ lastId' >= lastId /\ UNCHANGED rows
  BY DEF Get, IInv, TypeOK
<1> QED
  BY <1>6, <1>7, <1>8, TableUntouched

LEMMA UpdateStep ==
  ASSUME IInv, NEW w \in Workers, Update(w)
  PROVE  IInv'
<1>1. PICK k \in 1..MaxBatch : worker' = [worker EXCEPT ![w].pc = "append", ![w].todo = k]
  BY DEF Update
<1> DEFINE h == [worker[w] EXCEPT !.pc = "append", !.todo = k]
<1>2. worker[w] # Idle /\ worker[w] \in Handling
  BY BusyIsNotIdle, HandlingType DEF Update, IInv
<1>3. worker' = [worker EXCEPT ![w] = h]
  BY <1>1 DEF IInv, TypeOK
<1>4. k \in Nat /\ k >= 1
  BY BoundsAssumption
<1>5. h \in Handling
  BY <1>2, <1>4 DEF Handling
<1>6. HandlerKnows(w, h)
  <2>1. /\ h.name = worker[w].name
        /\ h.cmd = worker[w].cmd
        /\ h.seen = worker[w].seen
        /\ h.base = worker[w].base
        /\ h.expected = worker[w].expected
        /\ h.todo = k
    BY <1>2 DEF Handling
  <2>2. HandlerKnows(w, worker[w])
    BY <1>2 DEF IInv, Handlers
  <2>3. Accepts(h.cmd, h.seen)
    BY <2>1 DEF Update
  <2> HIDE DEF h
  <2> QED
    BY <2>1, <2>2, <2>3, <1>4 DEF HandlerKnows
<1>7. worker' \in [Workers -> Handling \union {Idle}]
  BY <1>3, <1>5 DEF IInv, TypeOK
<1>8. \A u \in Workers : worker'[u] # Idle => HandlerKnows(u, worker'[u])
  BY <1>3, <1>6 DEF IInv, TypeOK, Handlers
<1>9. lastId' \in Nat /\ lastId' >= lastId /\ UNCHANGED rows
  BY DEF Update, IInv, TypeOK
<1> QED
  BY <1>7, <1>8, <1>9, TableUntouched

\* The facts about the table on which everything about an AppendChange rests: the new
\* row is the last of its stream and the last of the table, and what any
\* aggregate could have read before it was stored is what it can read now.
LEMMA NewRowIsLast ==
  ASSUME IInv, NEW w \in Workers, NEW h, h = worker[w], AppendChange(w),
         NEW new, new = [id |-> lastId + 1, name |-> h.name, version |-> h.expected + 1,
                         kind |-> KindOf(h), writer |-> w, base |-> h.base, seen |-> h.seen]
  PROVE  /\ h \in Handling /\ HandlerKnows(w, h)
         /\ rows' = rows \union {new}
         /\ new \in Row
         /\ \A r \in rows : r \in Row /\ r.id < new.id
         /\ \A r \in rows : r.name = h.name => r.version <= h.expected
         /\ \A n, v : KeyExists(n, v) => KeyExists(n, v)'
         /\ \A n \in Aggregates, v \in Nat :
              (n = h.name => v <= h.expected) => IdsUpTo(n, v)' = IdsUpTo(n, v)
<1>1. h \in Handling /\ HandlerKnows(w, h)
  BY BusyIsNotIdle, HandlingType DEF AppendChange, IInv, Handlers
<1>2. rows' = rows \union {new}
  BY DEF AppendChange
<1>3. lastId \in Nat /\ rows \subseteq Row
  BY DEF IInv, TypeOK
<1>4. /\ h.name \in Aggregates /\ h.expected \in Nat /\ h.base \in Nat
      /\ h.seen \in SUBSET Nat
  BY <1>1 DEF Handling
<1>5. new \in Row
  BY <1>3, <1>4 DEF Row, KindOf, Kinds
<1>6. \A r \in rows : r \in Row /\ r.id < new.id
  BY <1>3 DEF IInv, Keys, Row
<1>7. \A r \in rows : r.name = h.name => r.version <= h.expected
  <2>1. SUFFICES ASSUME NEW r \in rows, r.name = h.name, r.version > h.expected
                 PROVE  KeyExists(h.name, h.expected + 1)
    BY <1>3, <1>4 DEF AppendChange, Row
  <2>2. r.version \in Nat
    BY <1>3 DEF Row
  <2>3. CASE r.version = h.expected + 1
    BY <2>1, <2>3 DEF KeyExists, Stream
  <2>4. CASE r.version > h.expected + 1
    <3>1. h.expected + 1 \in 1..r.version - 1
      BY <1>4, <2>2, <2>4
    <3> QED
      BY <2>1, <3>1 DEF IInv, GaplessVersions
  <2> QED
    BY <1>4, <2>1, <2>2, <2>3, <2>4
<1>8. \A n, v : KeyExists(n, v) => KeyExists(n, v)'
  BY <1>2 DEF KeyExists, Stream
<1>9. \A n \in Aggregates, v \in Nat :
        (n = h.name => v <= h.expected) => IdsUpTo(n, v)' = IdsUpTo(n, v)
  <2> SUFFICES ASSUME NEW n \in Aggregates, NEW v \in Nat, n = h.name => v <= h.expected
               PROVE  IdsUpTo(n, v)' = IdsUpTo(n, v)
    OBVIOUS
  <2>1. ~(new.name = n /\ new.version <= v)
    BY <1>4
  <2> QED
    BY <1>2, <2>1 DEF IdsUpTo, Stream
<1> QED
  BY <1>1, <1>2, <1>5, <1>6, <1>7, <1>8, <1>9

LEMMA AppendStep ==
  ASSUME IInv, NEW w \in Workers, AppendChange(w)
  PROVE  IInv'
<1> SUFFICES ASSUME NEW h, h = worker[w],
                    NEW new, new = [id |-> lastId + 1, name |-> h.name,
                                    version |-> h.expected + 1, kind |-> KindOf(h),
                                    writer |-> w, base |-> h.base, seen |-> h.seen]
             PROVE  IInv'
  OBVIOUS
<1>1. /\ h \in Handling /\ HandlerKnows(w, h)
      /\ rows' = rows \union {new}
      /\ new \in Row
      /\ \A r \in rows : r \in Row /\ r.id < new.id
      /\ \A r \in rows : r.name = h.name => r.version <= h.expected
      /\ \A n, v : KeyExists(n, v) => KeyExists(n, v)'
      /\ \A n \in Aggregates, v \in Nat :
           (n = h.name => v <= h.expected) => IdsUpTo(n, v)' = IdsUpTo(n, v)
  BY NewRowIsLast
<1>2. /\ h.name \in Aggregates /\ h.expected \in Nat /\ h.base \in Nat /\ h.todo \in Nat
      /\ h.pc = "append" /\ h.todo >= 1 /\ lastId \in Nat
  BY <1>1 DEF Handling, AppendChange, HandlerKnows, IInv, TypeOK
<1>3. /\ new.id = lastId + 1 /\ new.name = h.name /\ new.version = h.expected + 1
      /\ new.kind = KindOf(h) /\ new.writer = w /\ new.base = h.base /\ new.seen = h.seen
  OBVIOUS
<1>4. worker' = [worker EXCEPT ![w] = NextChange(h)] /\ lastId' = lastId + 1
  BY DEF AppendChange
<1>5. TypeOK'
  <2>1. NextChange(h) \in Handling \union {Idle}
    <3>1. h.expected + 1 \in Nat /\ h.todo - 1 \in Nat
      BY <1>2
    <3>2. [h EXCEPT !.expected = h.expected + 1, !.todo = h.todo - 1] \in Handling
      BY <1>1, <3>1 DEF Handling
    <3> QED
      BY <3>2 DEF NextChange
  <2> QED
    BY <1>1, <1>2, <1>4, <2>1 DEF TypeOK, IInv
<1>6. Keys'
  <2>1. \A r, q \in rows' : r.id = q.id => r = q
    BY <1>1, <1>2, <1>3 DEF IInv, Keys, Row
  <2>2. \A r, q \in rows' : r.name = q.name /\ r.version = q.version => r = q
    BY <1>1, <1>2, <1>3 DEF IInv, Keys, Row
  <2>3. \A r \in rows' : r.id <= lastId'
    BY <1>1, <1>2, <1>3, <1>4 DEF Row
  <2>4. \A r \in rows' : r.base < r.version
    BY <1>1, <1>2, <1>3 DEF IInv, Keys, HandlerKnows
  <2> QED
    BY <2>1, <2>2, <2>3, <2>4 DEF Keys
<1>7. GaplessVersions'
  <2>1. ASSUME NEW r \in rows PROVE \A v \in 1..r.version - 1 : KeyExists(r.name, v)'
    BY <1>1 DEF IInv, GaplessVersions
  <2>2. \A v \in 1..new.version - 1 : KeyExists(new.name, v)'
    <3>1. \A v \in 1..h.expected : KeyExists(h.name, v)
      BY <1>1 DEF HandlerKnows
    <3> QED
      BY <1>1, <1>2, <1>3, <3>1
  <2> QED
    BY <1>1, <2>1, <2>2 DEF GaplessVersions
<1>8. IdsFollowVersions'
  BY <1>1, <1>2, <1>3 DEF IInv, IdsFollowVersions, Row
<1>9. \A r \in rows' : r.seen = IdsUpTo(r.name, r.base)'
  <2>1. ASSUME NEW r \in rows PROVE r.seen = IdsUpTo(r.name, r.base)'
    <3>1. r.seen = IdsUpTo(r.name, r.base) /\ r.base < r.version
      BY DEF IInv, SeenIsPrefix, Keys
    <3>2. r.name \in Aggregates /\ r.base \in Nat /\ r.version \in Nat
      BY <1>1 DEF Row
    <3>3. r.name = h.name => r.base <= h.expected
      BY <1>1, <1>2, <3>1, <3>2
    <3> QED
      BY <1>1, <3>1, <3>2, <3>3
  <2>2. new.seen = IdsUpTo(new.name, new.base)'
    BY <1>1, <1>2, <1>3 DEF HandlerKnows
  <2> QED
    BY <1>1, <2>1, <2>2
<1>10. BatchesAreContiguous'
  <2>1. ASSUME NEW r \in rows, NEW q \in rows, q.name = r.name,
               r.base < q.version, q.version <= r.version
        PROVE  q.base = r.base /\ q.writer = r.writer
    BY <2>1 DEF IInv, BatchesAreContiguous, SameBatch, Stream
  <2>2. ASSUME NEW r \in rows, new.name = r.name, new.version <= r.version
        PROVE  FALSE
    BY <1>1, <1>2, <1>3, <2>2 DEF Row
  <2>3. ASSUME NEW q \in rows, q.name = new.name, new.base < q.version
        PROVE  q.base = new.base /\ q.writer = new.writer
    BY <1>1, <1>3, <2>3 DEF HandlerKnows, Stream
  <2> QED
    BY <1>1, <2>1, <2>2, <2>3 DEF BatchesAreContiguous, SameBatch, Stream
<1>11. CreatedFirstAndOnce'
  <2>1. h.seen = {} <=> h.base = 0
    <3>1. h.seen = IdsUpTo(h.name, h.base) /\ h.base <= h.expected
      BY <1>1 DEF HandlerKnows
    <3>2. ASSUME h.base = 0 PROVE h.seen = {}
      BY <1>1, <3>1, <3>2 DEF IdsUpTo, Stream, Row
    <3>3. ASSUME h.base # 0 PROVE h.seen # {}
      <4>1. KeyExists(h.name, 1)
        BY <1>1, <1>2, <3>1, <3>3 DEF HandlerKnows
      <4>2. PICK r \in Stream(h.name) : r.version = 1
        BY <4>1 DEF KeyExists
      <4>3. r.id \in IdsUpTo(h.name, h.base)
        BY <1>2, <3>3, <4>2 DEF IdsUpTo
      <4> QED
        BY <3>1, <4>3
    <3> QED
      BY <3>2, <3>3
  <2>2. (h.cmd = "create") <=> (h.seen = {})
    BY <1>1, <1>2 DEF HandlerKnows, Accepts
  <2>3. h.base <= h.expected
    BY <1>1 DEF HandlerKnows
  <2>4. (new.kind = "created") <=> (new.version = 1)
    BY <1>2, <1>3, <2>1, <2>2, <2>3 DEF KindOf
  <2> QED
    BY <1>1, <2>4 DEF IInv, CreatedFirstAndOnce
<1>12. Handlers'
  <2>1. ASSUME NEW u \in Workers, u # w, worker[u] # Idle
        PROVE  HandlerKnows(u, worker[u])'
    <3> DEFINE g == worker[u]
    <3>1. g \in Handling /\ HandlerKnows(u, g)
      BY <2>1, HandlingType DEF IInv, Handlers
    <3>2. g.name \in Aggregates /\ g.expected \in Nat /\ g.base \in Nat /\ g.base <= g.expected
      BY <3>1 DEF Handling, HandlerKnows
    <3>3. g.name = h.name => g.expected <= h.expected
      <4>1. ASSUME g.name = h.name, g.expected > h.expected PROVE FALSE
        <5>1. h.expected + 1 \in 1..g.expected
          BY <1>2, <3>2, <4>1
        <5> QED
          BY <3>1, <4>1, <5>1 DEF HandlerKnows, AppendChange
      <4> QED
        BY <1>2, <3>2, <4>1
    <3>4. worker'[u] = g
      BY <1>4, <2>1 DEF IInv, TypeOK
    <3>5. IdsUpTo(g.name, g.base)' = IdsUpTo(g.name, g.base)
      <4>1. \A n \in Aggregates, v \in Nat :
              (n = h.name => v <= h.expected) => IdsUpTo(n, v)' = IdsUpTo(n, v)
        BY <1>1
      <4>2. g.name = h.name => g.base <= h.expected
        BY <1>2, <3>2, <3>3
      <4>3. \A n, v : n = g.name /\ v = g.base => IdsUpTo(n, v)' = IdsUpTo(n, v)
        BY <3>2, <4>1, <4>2
      <4> QED
        BY <3>4, <4>3 DEF IdsUpTo, Stream
    <3>6. \A v \in 1..g.expected : \E r \in rows' : r.name = g.name /\ r.version = v
      BY <1>1, <3>1 DEF HandlerKnows, KeyExists, Stream
    <3>7. ASSUME NEW r \in rows', r.name = g.name, g.base < r.version, r.version <= g.expected
          PROVE  r.base = g.base /\ r.writer = u
      <4>1. r # new
        BY <1>2, <1>3, <3>2, <3>3, <3>7
      <4> QED
        BY <1>1, <3>1, <3>7, <4>1 DEF HandlerKnows, Stream
    <3> QED
      BY <3>1, <3>2, <3>4, <3>5, <3>6, <3>7 DEF HandlerKnows, KeyExists, Stream
  <2>2. ASSUME NextChange(h) # Idle
        PROVE  HandlerKnows(w, worker[w])'
    <3>1. PICK g : g = [h EXCEPT !.expected = h.expected + 1, !.todo = h.todo - 1]
      OBVIOUS
    <3>2. /\ g.pc = "append" /\ g.name = h.name /\ g.cmd = h.cmd /\ g.seen = h.seen
          /\ g.base = h.base /\ g.expected = h.expected + 1 /\ g.todo = h.todo - 1
      BY <1>1, <1>2, <3>1 DEF Handling
    <3>3. worker'[w] = g /\ h.todo # 1
      BY <1>4, <2>2, <3>1 DEF NextChange, IInv, TypeOK
    <3>4. HandlerKnows(w, g)'
      <4>1. g.base <= g.expected /\ g.todo >= 1
        BY <1>1, <1>2, <3>2, <3>3 DEF HandlerKnows
      <4>2. g.seen = IdsUpTo(g.name, g.base)'
        BY <1>1, <1>2, <3>2 DEF HandlerKnows
      <4>3. \A v \in 1..g.expected : KeyExists(g.name, v)'
        <5>1. KeyExists(h.name, h.expected + 1)'
          BY <1>1, <1>3 DEF KeyExists, Stream
        <5>2. \A v \in 1..h.expected : KeyExists(h.name, v)'
          BY <1>1 DEF HandlerKnows
        <5> QED
          BY <1>2, <3>2, <5>1, <5>2
      <4>4. ASSUME NEW r \in rows', r.name = g.name, g.base < r.version
            PROVE  r.base = g.base /\ r.writer = w
        <5>1. CASE r = new
          BY <1>3, <3>2, <5>1
        <5>2. CASE r \in rows
          BY <1>1, <3>2, <4>4, <5>2 DEF HandlerKnows, Stream
        <5> QED
          BY <1>1, <5>1, <5>2
      <4>5. Accepts(g.cmd, g.seen)
        BY <1>1, <1>2, <3>2 DEF HandlerKnows
      <4> QED
        BY <4>1, <4>2, <4>3, <4>4, <4>5 DEF HandlerKnows, Stream
    <3> QED
      BY <3>3, <3>4 DEF HandlerKnows
  <2> QED
    BY <1>4, <2>1, <2>2 DEF IInv, TypeOK, Handlers
<1> QED
  BY <1>5, <1>6, <1>7, <1>8, <1>9, <1>10, <1>11, <1>12 DEF IInv, SeenIsPrefix

\* A power failure takes the events after some id: of a stream, an end.
LEMMA PowerLossStep ==
  ASSUME IInv, PowerLoss
  PROVE  IInv'
<1>1. PICK k \in 0..lastId :
        lastId' = k /\ rows' = {r \in rows : r.id <= k}
  BY DEF PowerLoss
<1>2. worker' = [w \in Workers |-> Idle] /\ lastId \in Nat /\ rows \subseteq Row
  BY DEF PowerLoss, IInv, TypeOK
<1>3. \A r \in rows', q \in rows : q.name = r.name /\ q.version < r.version => q \in rows'
  BY <1>1, <1>2 DEF IInv, IdsFollowVersions, Row
<1>4. TypeOK' /\ Handlers'
  BY <1>1, <1>2 DEF TypeOK, Handlers, Idle
<1>5. Keys' /\ IdsFollowVersions' /\ BatchesAreContiguous' /\ CreatedFirstAndOnce'
  BY <1>1 DEF IInv, Keys, IdsFollowVersions, BatchesAreContiguous, CreatedFirstAndOnce, Stream
<1>6. GaplessVersions'
  <2> SUFFICES ASSUME NEW r \in rows', NEW v \in 1..r.version - 1
               PROVE  KeyExists(r.name, v)'
    BY DEF GaplessVersions
  <2>1. PICK q \in rows : q.name = r.name /\ q.version = v
    BY <1>1 DEF IInv, GaplessVersions, KeyExists, Stream
  <2>2. q \in rows'
    BY <1>1, <1>2, <1>3, <2>1 DEF Row
  <2> QED
    BY <2>1, <2>2 DEF KeyExists, Stream
<1>7. SeenIsPrefix'
  <2> SUFFICES ASSUME NEW r \in rows' PROVE r.seen = IdsUpTo(r.name, r.base)'
    BY DEF SeenIsPrefix
  <2>1. r \in rows /\ r.seen = IdsUpTo(r.name, r.base) /\ r.base < r.version
    BY <1>1 DEF IInv, SeenIsPrefix, Keys
  <2>2. \A q \in rows : q.name = r.name /\ q.version <= r.base => q \in rows'
    BY <1>2, <1>3, <2>1 DEF Row
  <2>3. IdsUpTo(r.name, r.base)' = IdsUpTo(r.name, r.base)
    BY <1>1, <2>2 DEF IdsUpTo, Stream
  <2> QED
    BY <2>1, <2>3
<1> QED
  BY <1>4, <1>5, <1>6, <1>7 DEF IInv

\* IInv is inductive.
LEMMA Inductive == IInv /\ [Next]_vars => IInv'
<1> SUFFICES ASSUME IInv, [Next]_vars PROVE IInv'
  OBVIOUS
<1>1. lastId \in Nat
  BY DEF IInv, TypeOK
<1>2. ASSUME NEW w \in Workers, NEW n \in Aggregates, NEW c \in Commands, Get(w, n, c)
      PROVE  IInv'
  BY <1>2, GetStep
<1>3. ASSUME NEW w \in Workers, Reject(w) PROVE IInv'
  <2>1. /\ worker' = [worker EXCEPT ![w] = Idle] /\ UNCHANGED rows
        /\ lastId' \in Nat /\ lastId' >= lastId
    BY <1>1, <1>3 DEF Reject
  <2> QED
    BY <2>1, HandlerEnds
<1>4. ASSUME NEW w \in Workers, Update(w) PROVE IInv'
  BY <1>4, UpdateStep
<1>5. ASSUME NEW w \in Workers, AppendChange(w) PROVE IInv'
  BY <1>5, AppendStep
<1>6. ASSUME NEW w \in Workers, Conflict(w) PROVE IInv'
  <2>1. /\ worker' = [worker EXCEPT ![w] = Idle] /\ UNCHANGED rows
        /\ lastId' \in Nat /\ lastId' >= lastId
    BY <1>1, <1>6 DEF Conflict
  <2> QED
    BY <2>1, HandlerEnds
<1>7. ASSUME NEW w \in Workers, Fail(w) PROVE IInv'
  <2>1. /\ worker' = [worker EXCEPT ![w] = Idle] /\ UNCHANGED rows
        /\ lastId' \in Nat /\ lastId' >= lastId
    BY <1>1, <1>7 DEF Fail
  <2> QED
    BY <2>1, HandlerEnds
<1>8. CASE PowerLoss
  BY <1>8, PowerLossStep
<1>9. CASE UNCHANGED vars
  BY <1>1, <1>9, TableUntouched DEF vars, IInv, TypeOK, Handlers
<1> QED
  BY <1>2, <1>3, <1>4, <1>5, <1>6, <1>7, <1>8, <1>9 DEF Next

\* What is not in front of its batch is of its batch.
LEMMA NoUpdateIsLost == IInv => NoLostUpdate
<1> SUFFICES ASSUME IInv, NEW r \in rows, NEW q \in Stream(r.name), q.version < r.version
             PROVE  q.id \in r.seen \/ SameBatch(q, r)
  BY DEF NoLostUpdate
<1>1. q.version \in Nat /\ r.version \in Nat /\ r.base \in Nat
  BY DEF IInv, TypeOK, Row, Stream
<1>2. CASE q.version <= r.base
  BY <1>2 DEF IInv, SeenIsPrefix, IdsUpTo
<1>3. CASE r.base < q.version
  BY <1>1, <1>3 DEF IInv, BatchesAreContiguous
<1> QED
  BY <1>1, <1>2, <1>3

LEMMA Invariance == Spec => []IInv
  BY Initial, Inductive, PTL DEF Spec

-----------------------------------------------------------------------------
\* The table, the identity and the handlers of any number of workers keep their
\* types; in particular a batch never appends more than it published.
THEOREM TypeCorrect == Spec => []TypeOK
  BY Invariance, PTL DEF IInv

\* No stream ever has a gap, for any number of processes, conflicts and crashes.
THEOREM StreamsAreGapless == Spec => []GaplessVersions
  BY Invariance, PTL DEF IInv

\* Reading by id never meets a later version of a stream before an earlier one.
THEOREM ReadersSeeVersionsInOrder == Spec => []IdsFollowVersions
  BY Invariance, PTL DEF IInv

\* SQLite's LastUsedId is the last used id; SQL Server's is not, since nothing
\* tells the identity of a new table from that of one that holds a row.
THEOREM LastUsedIdOfSQLite ==
  ASSUME Engine = "SQLite"
  PROVE  Spec => []NothingAfterLastUsedId
<1>1. IInv => NothingAfterLastUsedId
  BY DEF IInv, Keys, NothingAfterLastUsedId, LastUsedId
<1> QED
  BY <1>1, Invariance, PTL

\* Optimistic concurrency control is sound: every event was decided by an
\* aggregate that knew all events before it.
THEOREM UpdatesAreNotLost == Spec => []NoLostUpdate
  BY Invariance, NoUpdateIsLost, PTL

\* Torn batches never interleave.
THEOREM BatchesStandTogether == Spec => []BatchesAreContiguous
  BY Invariance, PTL DEF IInv

\* The business rule of the aggregate holds of the table although it was checked
\* on a copy loaded before.
THEOREM CreatedOnce == Spec => []CreatedFirstAndOnce
  BY Invariance, PTL DEF IInv

-----------------------------------------------------------------------------
(* The refinement.                                                          *)

\* The identity column bounds the table, hence every stream.
LEMMA StreamIsFinite ==
  ASSUME IInv, NEW n
  PROVE  IsFiniteSet(Stream(n)) /\ Cardinality(Stream(n)) \in Nat
<1> DEFINE f == [r \in rows |-> r.id]
<1>1. lastId \in Nat /\ \A r \in rows : r.id \in 1..lastId
  BY DEF IInv, TypeOK, Keys, Row
<1>2. f \in Injection(rows, 1..lastId)
  BY <1>1 DEF Injection, IsInjective, IInv, Keys
<1>3. IsFiniteSet(rows)
  BY <1>1, <1>2, FS_Interval, FS_Injection
<1> QED
  BY <1>3, FS_Subset, FS_CardinalityType DEF Stream

\* Of a stream without gaps up to v, the events up to version v are v in number.
LEMMA CountUpTo ==
  ASSUME IInv, NEW n, NEW v \in Nat, \A x \in 1..v : KeyExists(n, x)
  PROVE  Cardinality({q \in Stream(n) : q.version <= v}) = v
<1> DEFINE P == {q \in Stream(n) : q.version <= v}
           f == [q \in P |-> q.version]
<1>1. f \in [P -> 1..v]
  BY DEF IInv, TypeOK, Row, Stream
<1>2. \A x \in 1..v : \E q \in P : q.version = x
  BY DEF KeyExists
<1>3. \A p, q \in P : p.version = q.version => p = q
  BY DEF IInv, Keys, Stream
<1>4. f \in Bijection(P, 1..v)
  BY <1>1, <1>2, <1>3 DEF Bijection, Injection, IsInjective, Surjection
<1>5. IsFiniteSet(P)
  BY StreamIsFinite, FS_Subset
<1>6. Cardinality(1..v) = Cardinality(P)
  BY <1>4, <1>5, FS_Bijection DEF ExistsBijection
<1> QED
  BY <1>6, FS_Interval

\* The versions of a stream are 1 to the number of its events.
LEMMA VersionsAreInterval ==
  ASSUME IInv, NEW n \in Aggregates
  PROVE  /\ \A r \in Stream(n) : r.version \in 1..Cardinality(Stream(n))
         /\ \A v \in 1..Cardinality(Stream(n)) : KeyExists(n, v)
<1> DEFINE L == Cardinality(Stream(n))
<1>1. IsFiniteSet(Stream(n)) /\ L \in Nat
  BY StreamIsFinite
<1>2. ASSUME NEW r \in Stream(n) PROVE r.version \in 1..L
  <2>1. r \in rows /\ r.name = n /\ r.version \in Nat \ {0}
    BY DEF IInv, TypeOK, Row, Stream
  <2>2. \A x \in 1..r.version - 1 : KeyExists(n, x)
    BY <2>1 DEF IInv, GaplessVersions
  <2>3. KeyExists(n, r.version)
    BY DEF KeyExists
  <2>4. \A x \in 1..r.version : KeyExists(n, x)
    BY <2>1, <2>2, <2>3
  <2> DEFINE P == {q \in Stream(n) : q.version <= r.version}
  <2>5. Cardinality(P) = r.version
    BY <2>1, <2>4, CountUpTo
  <2>6. Cardinality(P) <= L
    BY <1>1, FS_Subset
  <2> QED
    BY <1>1, <2>1, <2>5, <2>6
<1>3. \A v \in 1..L : KeyExists(n, v)
  <2> DEFINE f == [r \in Stream(n) |-> r.version]
  <2>1. f \in Injection(Stream(n), 1..L)
    BY <1>2 DEF Injection, IsInjective, IInv, Keys, Stream
  <2>2. IsFiniteSet(1..L) /\ Cardinality(1..L) = L
    BY <1>1, FS_Interval
  <2>3. f \in Surjection(Stream(n), 1..L)
    BY <2>1, <2>2, FS_Injection
  <2>4. \A v \in 1..L : \E r \in Stream(n) : f[r] = v
    BY <2>3 DEF Surjection
  <2> QED
    BY <2>4 DEF KeyExists
<1> QED
  BY <1>2, <1>3

\* The aggregate that decided an event had applied as many as its version says.
LEMMA KnownIsVersion ==
  ASSUME IInv, NEW r \in rows
  PROVE  KnownAt(r) = r.version - 1
<1>1. r.name \in Aggregates /\ r.version \in Nat \ {0} /\ \A q \in Stream(r.name) : q.version \in Nat
  BY DEF IInv, TypeOK, Row, Stream
<1>2. \A x \in 1..r.version - 1 : KeyExists(r.name, x)
  BY DEF IInv, GaplessVersions
<1>3. Cardinality({q \in Stream(r.name) : q.version <= r.version - 1}) = r.version - 1
  <2> DEFINE v == r.version - 1
  <2>1. v \in Nat /\ \A x \in 1..v : KeyExists(r.name, x)
    BY <1>1, <1>2
  <2> HIDE DEF v
  <2>2. Cardinality({q \in Stream(r.name) : q.version <= v}) = v
    BY <2>1, CountUpTo
  <2> QED
    BY <2>2 DEF v
<1>4. ASSUME NEW q \in Stream(r.name), q.version < r.version
      PROVE  q.id \in r.seen \/ SameBatch(q, r)
  BY <1>4, NoUpdateIsLost DEF NoLostUpdate
<1>5. {q \in Stream(r.name) : /\ q.version < r.version
                              /\ q.id \in r.seen \/ SameBatch(q, r)}
      = {q \in Stream(r.name) : q.version <= r.version - 1}
  BY <1>1, <1>4
<1> QED
  BY <1>3, <1>5 DEF KnownAt

-----------------------------------------------------------------------------
\* The event at place v of any history, and the history of k events.
EventAt(v) == [kind |-> IF v = 1 THEN "created" ELSE "updated", known |-> v - 1]
Canonical(k) == [v \in 1..k |-> EventAt(v)]
Length(n) == Cardinality(Stream(n))

\* A history is told by its length alone.
LengthsTellHistories ==
  \A n \in Aggregates : HistoryOf(n) = Canonical(Length(n)) /\ Length(n) \in Nat

LEMMA HistoryIsCanonical == IInv => LengthsTellHistories
<1> SUFFICES ASSUME IInv, NEW n \in Aggregates
             PROVE  HistoryOf(n) = Canonical(Length(n)) /\ Length(n) \in Nat
  BY DEF LengthsTellHistories
<1>1. Length(n) \in Nat
  BY StreamIsFinite DEF Length
<1>2. ASSUME NEW v \in 1..Length(n)
      PROVE  [kind |-> RowAt(n, v).kind, known |-> KnownAt(RowAt(n, v))] = EventAt(v)
  <2> DEFINE r == RowAt(n, v)
  <2>1. \E q \in Stream(n) : q.version = v
    BY VersionsAreInterval DEF Length, KeyExists
  <2>2. r \in Stream(n) /\ r.version = v
    BY <2>1 DEF RowAt
  <2>3. r \in rows /\ r.kind \in Kinds
    BY <2>2 DEF Stream, IInv, TypeOK, Row
  <2>4. r.kind = IF v = 1 THEN "created" ELSE "updated"
    BY <2>2, <2>3 DEF IInv, CreatedFirstAndOnce, Kinds
  <2>5. KnownAt(r) = v - 1
    BY <2>2, <2>3, KnownIsVersion
  <2> QED
    BY <2>4, <2>5 DEF EventAt
<1> QED
  BY <1>1, <1>2 DEF HistoryOf, Canonical, Length

\* The canonical histories as sequences.
LEMMA CanonicalHistories ==
  ASSUME NEW k \in Nat
  PROVE  /\ Canonical(k) \in Histories!Seq(Histories!Event)
         /\ Histories!Len(Canonical(k)) = k
         /\ Canonical(k + 1) = Histories!Append(Canonical(k), EventAt(k + 1))
         /\ \A j \in 0..k : Canonical(j) = Histories!SubSeq(Canonical(k), 1, j)
         /\ Canonical(k) = <<>> <=> k = 0
<1>1. \A j \in Nat : Canonical(j) \in [1..j -> Histories!Event]
  BY DEF Canonical, EventAt, Histories!Event
<1>2. \A j \in Nat : Canonical(j) \in Histories!Seq(Histories!Event)
  BY <1>1, SequencesOf!SeqDef
<1>3. \A j \in Nat : Histories!Len(Canonical(j)) = j
  BY <1>1, <1>2
<1>4. Canonical(k + 1) = Histories!Append(Canonical(k), EventAt(k + 1))
  BY <1>2, <1>3 DEF Canonical
<1>5. ASSUME NEW j \in 0..k
      PROVE  Canonical(j) = Histories!SubSeq(Canonical(k), 1, j)
  BY <1>2, <1>3 DEF Canonical
<1>6. Canonical(k) = <<>> <=> k = 0
  BY <1>2, <1>3 DEF Canonical
<1> QED
  BY <1>2, <1>3, <1>4, <1>5, <1>6

\* The history of n is the only one that changes when its stream grows by one
\* event, and no history changes when all streams keep their lengths.
LEMMA HistoriesFollowLengths ==
  ASSUME IInv, IInv'
  PROVE  /\ \A n \in Aggregates : HistoryOf(n) = Canonical(Length(n)) /\ Length(n) \in Nat
         /\ \A n \in Aggregates : HistoryOf(n)' = Canonical(Length(n)') /\ Length(n)' \in Nat
<1>1. LengthsTellHistories /\ LengthsTellHistories'
  BY HistoryIsCanonical, PTL
<1> QED
  BY <1>1 DEF LengthsTellHistories, Canonical, EventAt

LEMMA AppendCommits ==
  ASSUME IInv, IInv', NEW w \in Workers, AppendChange(w)
  PROVE  Histories!Commit(worker[w].name)
<1> SUFFICES ASSUME NEW h, h = worker[w]
             PROVE  Histories!Commit(h.name)
  OBVIOUS
<1>1. PICK new : new = [id |-> lastId + 1, name |-> h.name, version |-> h.expected + 1,
                        kind |-> KindOf(h), writer |-> w, base |-> h.base, seen |-> h.seen]
  OBVIOUS
<1>2. /\ h \in Handling /\ rows' = rows \union {new}
      /\ \A r \in rows : r \in Row /\ r.id < new.id
  BY <1>1, NewRowIsLast
<1>3. new \notin rows /\ h.name \in Aggregates /\ new.name = h.name
  BY <1>1, <1>2 DEF Row, Handling
<1>4. Length(h.name)' = Length(h.name) + 1
  <2>1. Stream(h.name)' = Stream(h.name) \union {new} /\ new \notin Stream(h.name)
    BY <1>2, <1>3 DEF Stream
  <2> QED
    BY <2>1, StreamIsFinite, FS_AddElement DEF Length
<1>5. \A n \in Aggregates : n # h.name => Length(n)' = Length(n)
  BY <1>2, <1>3 DEF Length, Stream
<1> DEFINE hist == [n \in Aggregates |-> HistoryOf(n)]
           k == Length(h.name)
<1>6. hist[h.name] = Canonical(k) /\ k \in Nat
  BY <1>3, HistoriesFollowLengths
<1>7. hist' = [hist EXCEPT ![h.name] = Canonical(k + 1)]
  BY <1>3, <1>4, <1>5, HistoriesFollowLengths
<1>8. /\ Canonical(k + 1) = Histories!Append(Canonical(k), EventAt(k + 1))
      /\ Histories!Len(Canonical(k)) = k
      /\ Canonical(k) = <<>> <=> k = 0
  BY <1>6, CanonicalHistories
<1>9. EventAt(k + 1) = [kind |-> IF k = 0 THEN "created" ELSE "updated", known |-> k]
  BY <1>6 DEF EventAt
<1> HIDE DEF hist, k
<1>10. hist' = [hist EXCEPT ![h.name] =
                  Histories!Append(@, [kind |-> IF k = 0 THEN "created" ELSE "updated",
                                       known |-> Histories!Len(@)])]
  BY <1>6, <1>7, <1>8, <1>9
<1> QED
  BY <1>6, <1>8, <1>10 DEF Histories!Commit, hist

\* A power failure cuts every history somewhere, on SQLite only.
LEMMA PowerLossLosesEnds ==
  ASSUME IInv, IInv', PowerLoss
  PROVE  \/ Histories!LoseEnds
         \/ UNCHANGED [n \in Aggregates |-> HistoryOf(n)]
<1>1. PICK k \in 0..lastId : /\ Engine = "SqlServer" => k = lastId
                             /\ rows' = {r \in rows : r.id <= k}
  BY DEF PowerLoss
<1>2. CASE Engine = "SqlServer"
  <2>1. rows' = rows
    BY <1>1, <1>2 DEF IInv, Keys
  <2>2. \A n \in Aggregates : HistoryOf(n)' = HistoryOf(n)
    BY <2>1 DEF HistoryOf, RowAt, KnownAt, Stream
  <2> QED
    BY <2>2
<1>3. CASE Engine # "SqlServer"
  <2>1. \A n \in Aggregates : Length(n)' \in 0..Length(n)
    <3> SUFFICES ASSUME NEW n \in Aggregates PROVE Length(n)' \in 0..Length(n)
      OBVIOUS
    <3>1. Stream(n)' \subseteq Stream(n)
      BY <1>1 DEF Stream
    <3>2. Cardinality(Stream(n)') <= Cardinality(Stream(n))
      BY <3>1, StreamIsFinite, FS_Subset
    <3> QED
      BY <3>2, HistoriesFollowLengths DEF Length
  <2> DEFINE hist == [n \in Aggregates |-> HistoryOf(n)]
  <2>2. \A n \in Aggregates : /\ hist[n] = Canonical(Length(n)) /\ Length(n) \in Nat
                              /\ hist'[n] = Canonical(Length(n)')
    BY HistoriesFollowLengths
  <2>3. \A n \in Aggregates :
          /\ hist'[n] \in Histories!Seq(Histories!Event)
          /\ \E j \in 0..Histories!Len(hist[n]) : hist'[n] = Histories!SubSeq(hist[n], 1, j)
    <3> HIDE DEF hist
    <3> TAKE n \in Aggregates
    <3> DEFINE j == Length(n)'
    <3>1. j \in Nat /\ j \in 0..Length(n)
      BY <2>1, <2>2
    <3> HIDE DEF j
    <3>2. Canonical(j) \in Histories!Seq(Histories!Event)
      BY <3>1, CanonicalHistories
    <3>3. /\ Histories!Len(Canonical(Length(n))) = Length(n)
          /\ Canonical(j) = Histories!SubSeq(Canonical(Length(n)), 1, j)
      BY <2>2, <3>1, CanonicalHistories
    <3>4. hist'[n] = Canonical(j) /\ hist[n] = Canonical(Length(n))
      BY <2>2 DEF j
    <3> QED
      BY <3>1, <3>2, <3>3, <3>4
  <2>4. hist' \in [Aggregates -> Histories!Seq(Histories!Event)]
    BY <2>3
  <2> QED
    BY <1>3, <2>3, <2>4 DEF Histories!LoseEnds
<1> QED
  BY <1>2, <1>3

\* The table of either engine is, for its readers, one history per aggregate.
THEOREM HistoriesAreImplemented == Spec => ImplementsHistories
<1> DEFINE hist == [n \in Aggregates |-> HistoryOf(n)]
<1>1. Init => Histories!Init
  <2> SUFFICES ASSUME Init PROVE \A n \in Aggregates : HistoryOf(n) = <<>>
    BY DEF Histories!Init
  <2>1. \A n \in Aggregates : Length(n) = 0
    BY FS_EmptySet DEF Init, Stream, Length
  <2>2. IInv
    BY Initial
  <2> QED
    BY <2>1, <2>2, HistoryIsCanonical, CanonicalHistories DEF LengthsTellHistories
<1>2. IInv /\ IInv' /\ [Next]_vars => [Histories!Next]_hist
  <2> SUFFICES ASSUME IInv, IInv', [Next]_vars PROVE Histories!Next \/ UNCHANGED hist
    OBVIOUS
  <2>1. ASSUME UNCHANGED rows PROVE UNCHANGED hist
    <3>1. \A n \in Aggregates : HistoryOf(n)' = HistoryOf(n)
      BY <2>1 DEF HistoryOf, RowAt, KnownAt, Stream
    <3> QED
      BY <3>1
  <2>2. ASSUME NEW w \in Workers, AppendChange(w) PROVE Histories!Next
    <3>1. worker[w].name \in Aggregates
      BY <2>2, BusyIsNotIdle, HandlingType DEF AppendChange, IInv, Handling
    <3> QED
      BY <2>2, <3>1, AppendCommits DEF Histories!Next
  <2>3. CASE PowerLoss
    BY <2>3, PowerLossLosesEnds DEF Histories!Next
  <2> QED
    BY <2>1, <2>2, <2>3 DEF Next, Get, Reject, Update, Conflict, Fail, vars
<1> QED
  BY <1>1, <1>2, Invariance, PTL DEF Spec, ImplementsHistories, Histories!Spec

-----------------------------------------------------------------------------
\* SqlAppendOnlyStore: one connection for the message thread and the publisher.

Pcs == {"idle", "load", "reading", "name", "data", "version", "execute", "handled"}
Places == [pc : Pcs, part : 0..Parts, expected : 0..MaxRows]

\* No version is higher than the number of rows before it allows.
FewVersions == \A k \in 1..Len(table) : table[k].version <= k

\* What a thread has left is the end of what it found.
QueueIsSuffix ==
  \A t \in Threads :
    /\ Len(queue[t]) <= Len(QueueOf[t])
    /\ \A k \in 1..Len(queue[t]) :
          queue[t][k] = QueueOf[t][Len(QueueOf[t]) - Len(queue[t]) + k]

\* Every stream has the versions from 1 on.
Gapless == \A c \in Messages : \E n \in 0..Len(table) : Versions(c) = 1..n

\* The parameters that are assigned hold what the thread passed.
Assigned(t) ==
  /\ At(t, "data") \/ At(t, "version") \/ At(t, "execute") => params.name = Passed(t).name
  /\ At(t, "version") \/ At(t, "execute") => params.data = Passed(t).data
  /\ At(t, "execute") => params.version = Passed(t).version

Appending(t) == thread[t].pc \in {"name", "data", "version", "execute"}

\* The first parts of c, the last of them at version v.
StoredUpTo(c, part, v) == \A p \in 1..part : Stored(c, p, v - part + p)

\* What the thread stands on: the version of the stream it has loaded or appended
\* to, at whose end are the parts appended so far.
InProgress(t) ==
  /\ ~At(t, "idle") => queue[t] # <<>>
  /\ At(t, "load") => loadName = Head(queue[t])
  /\ At(t, "reading") => Versions(Head(queue[t])) = 1..thread[t].expected
  /\ Appending(t) =>
       /\ thread[t].part \in 1..thread[t].expected + 1
       /\ Versions(Head(queue[t])) = 1..thread[t].expected
       /\ StoredUpTo(Head(queue[t]), thread[t].part - 1, thread[t].expected)

AllStored(c) == \E v \in 1..MaxRows : \A p \in 1..Parts : Stored(c, p, v - 1 + p)

HandledIsStored == \A t \in Threads : At(t, "handled") => AllStored(Head(queue[t]))

\* The inductive invariant.
SInv ==
  /\ SqlTypeOK
  /\ FewVersions
  /\ QueueIsSuffix
  /\ Gapless
  /\ \A t \in Threads : Assigned(t) /\ InProgress(t)
  /\ HandledIsStored
  /\ HandledMeansStored

-----------------------------------------------------------------------------
\* The version that Load finds at the end of a stream without gaps.
LEMMA LastOfGapless ==
  ASSUME NEW c, NEW n \in Nat, Versions(c) = 1..n
  PROVE  LastVersion(c) = n
<1>1. CASE n = 0
  BY <1>1 DEF LastVersion
<1>2. CASE n > 0
  <2>1. n \in Versions(c) /\ \A u \in Versions(c) : u <= n
    BY <1>2
  <2>2. \A v \in Versions(c) : (\A u \in Versions(c) : u <= v) => v = n
    BY <2>1
  <2>3. LastVersion(c) = CHOOSE v \in Versions(c) : \A u \in Versions(c) : u <= v
    BY <2>1 DEF LastVersion
  <2> QED
    BY <2>1, <2>2, <2>3
<1> QED
  BY <1>1, <1>2

\* A new row adds its version to its stream and takes nothing away.
LEMMA VersionsOfAppend ==
  ASSUME table \in Seq(Call), NEW r \in Call, table' = Append(table, r), NEW c
  PROVE  Versions(c)' = IF r.name = c THEN Versions(c) \union {r.version} ELSE Versions(c)
<1>1. /\ DOMAIN table = 1..Len(table) /\ DOMAIN table' = 1..Len(table) + 1 /\ Len(table) \in Nat
      /\ \A k \in 1..Len(table) : table'[k] = table[k]
      /\ table'[Len(table) + 1] = r
  OBVIOUS
<1>2. \A v : v \in Versions(c)' <=> \E k \in 1..Len(table) + 1 : table'[k].name = c /\ table'[k].version = v
  BY <1>1 DEF Versions
<1>3. \A v : v \in Versions(c) <=> \E k \in 1..Len(table) : table[k].name = c /\ table[k].version = v
  BY <1>1 DEF Versions
<1>4. \A k \in 1..Len(table) + 1 : k \in 1..Len(table) \/ k = Len(table) + 1
  BY <1>1
<1>5. 1..Len(table) \subseteq 1..Len(table) + 1 /\ Len(table) + 1 \in 1..Len(table) + 1
  BY <1>1
<1>6. \A v : v \in Versions(c)' <=> v \in Versions(c) \/ (r.name = c /\ r.version = v)
  BY <1>1, <1>2, <1>3, <1>4, <1>5
<1> QED
  BY <1>6

LEMMA StoredStays ==
  ASSUME table \in Seq(Call), NEW r \in Call, table' = Append(table, r),
         NEW c, NEW p, NEW v, Stored(c, p, v)
  PROVE  Stored(c, p, v)'
<1>1. PICK k \in DOMAIN table :
        table[k] = [name |-> c, data |-> [cmd |-> c, part |-> p], version |-> v]
  BY DEF Stored
<1>2. k \in DOMAIN table' /\ table'[k] = table[k]
  OBVIOUS
<1> QED
  BY <1>1, <1>2 DEF Stored

-----------------------------------------------------------------------------
LEMMA SqlInitially == SqlInit => SInv
<1> SUFFICES ASSUME SqlInit PROVE SInv
  OBVIOUS
<1> USE SqlAssumption DEF SqlInit
<1>1. SqlTypeOK
  BY DEF SqlTypeOK, NoCall, NoData, Waiting, Publisher
<1>2. FewVersions /\ QueueIsSuffix
  BY DEF FewVersions, QueueIsSuffix
<1>3. Gapless
  <2>1. \A c \in Messages : Versions(c) = {}
    BY DEF Versions
  <2>2. 1..0 = {} /\ 0 \in 0..Len(table)
    OBVIOUS
  <2> QED
    BY <2>1, <2>2 DEF Gapless
<1>4. \A t \in Threads : At(t, "idle")
  BY DEF At, Waiting
<1>5. (\A t \in Threads : Assigned(t) /\ InProgress(t)) /\ HandledIsStored
  BY <1>4 DEF Assigned, InProgress, HandledIsStored, Appending, At
<1>6. HandledMeansStored
  BY DEF HandledMeansStored
<1> QED
  BY <1>1, <1>2, <1>3, <1>5, <1>6 DEF SInv

\* The steps of the loop move nothing but the publisher and its reader.
LEMMA PublisherTypes ==
  ASSUME SqlTypeOK, Loop \/ Wake \/ Throw
  PROVE  SqlTypeOK'
<1>1. /\ UNCHANGED <<table, params, loadName, queue, thread>>
      /\ Len(table) \in 0..MaxRows
  BY DEF SqlTypeOK, Loop, OpenReader, RefuseReader, PublishNext, EndBatch, Ended, Wake, Throw, connectionVars
<1>2. /\ publisher \in [pc : {"idle", "publish", "asleep"}, last : 0..MaxRows,
                       cursor : 0..MaxRows, found : 0..BatchSize]
      /\ faults \in 0..MaxFaults /\ readers \subseteq Threads \union {Publisher}
      /\ \A t \in Threads : t \in readers <=> thread[t].pc = "reading"
      /\ Publisher \in readers <=> publisher.pc = "publish"
  BY DEF SqlTypeOK
<1>3. /\ publisher' \in [pc : {"idle", "publish", "asleep"}, last : 0..MaxRows,
                        cursor : 0..MaxRows, found : 0..BatchSize]
      /\ faults' \in 0..MaxFaults /\ readers' \subseteq Threads \union {Publisher}
      /\ \A t \in Threads : t \in readers' <=> thread[t].pc = "reading"
      /\ Publisher \in readers' <=> publisher'.pc = "publish"
  <2> USE <1>1, <1>2, ThreadAssumption DEF connectionVars
  <2>0. /\ MaxRows \in Nat /\ BatchSize \in Nat \ {0} /\ MaxFaults \in Nat
        /\ publisher.found \in 0..BatchSize /\ publisher.cursor \in 0..MaxRows
        /\ publisher.last \in 0..MaxRows
    BY SqlAssumption
  <2>1. CASE OpenReader
    BY <2>1 DEF OpenReader, Busy
  <2>2. CASE RefuseReader
    BY <2>2 DEF RefuseReader
  <2>3. CASE PublishNext
    <3>1. /\ publisher.pc = "publish" /\ UNCHANGED <<faults, readers>>
          /\ publisher' = [publisher EXCEPT !.cursor = @ + 1, !.found = @ + 1]
          /\ publisher.cursor + 1 \in 0..MaxRows /\ publisher.found + 1 \in 0..BatchSize
      BY <2>0, <2>3 DEF PublishNext, Publishing
    <3>2. publisher' = [pc |-> "publish", last |-> publisher.last,
                        cursor |-> publisher.cursor + 1, found |-> publisher.found + 1]
      BY <3>1
    <3> QED
      BY <2>0, <3>1, <3>2
  <2>4. CASE EndBatch
    <3>1. PICK pc \in {"idle", "asleep"} :
            publisher' = [pc |-> pc, last |-> publisher.cursor, cursor |-> 0, found |-> 0]
      BY <2>4 DEF EndBatch, Ended
    <3>2. /\ publisher.pc = "publish" /\ UNCHANGED faults /\ readers' = readers \ {Publisher}
          /\ publisher'.pc = pc /\ pc # "publish"
      BY <2>4, <3>1 DEF EndBatch, Publishing, CloseReader
    <3>3. publisher' \in [pc : {"idle", "publish", "asleep"}, last : 0..MaxRows,
                         cursor : 0..MaxRows, found : 0..BatchSize]
      BY <2>0, <3>1
    <3> QED
      BY <3>2, <3>3
  <2>5. CASE Wake
    BY <2>5 DEF Wake
  <2>6. CASE Throw
    <3>1. /\ publisher.pc = "publish" /\ readers' = readers \ {Publisher}
          /\ publisher' = [publisher EXCEPT !.pc = "asleep", !.cursor = 0, !.found = 0]
          /\ faults < MaxFaults /\ faults' = faults + 1
      BY <2>6 DEF Throw, Publishing, CloseReader
    <3>2. publisher' = [pc |-> "asleep", last |-> publisher.last, cursor |-> 0, found |-> 0]
      BY <3>1
    <3> QED
      BY <2>0, <3>1, <3>2
  <2> QED
    BY <2>1, <2>2, <2>3, <2>4, <2>5, <2>6 DEF Loop
<1> QED
  BY <1>1, <1>3 DEF SqlTypeOK

\* What leaves the message thread where it was.
LEMMA ThreadsUnmoved ==
  ASSUME SInv, UNCHANGED <<table, params, loadName, queue, thread>>
  PROVE  \A t \in Threads : Assigned(t)' /\ InProgress(t)'
<1> TAKE t \in Threads
<1>1. Assigned(t)'
  BY DEF SInv, Assigned, At, Passed
<1>2. \A c : Versions(c)' = Versions(c)
  BY DEF Versions
<1>3. \A c, p, v : StoredUpTo(c, p, v)' <=> StoredUpTo(c, p, v)
  BY DEF StoredUpTo, Stored
<1>4. InProgress(t)'
  BY <1>2, <1>3 DEF SInv, InProgress, At, Appending, StoredUpTo, Stored
<1> QED
  BY <1>1, <1>4

\* Nothing else depends on where the publisher is.
LEMMA PublisherStep ==
  ASSUME SInv, Loop \/ Wake \/ Throw
  PROVE  SInv'
<1>1. UNCHANGED <<table, params, loadName, queue, thread>>
  BY DEF Loop, OpenReader, RefuseReader, PublishNext, EndBatch, Ended, Wake, Throw, connectionVars
<1>2. SqlTypeOK'
  BY PublisherTypes DEF SInv
<1>3. FewVersions' /\ QueueIsSuffix' /\ Gapless'
  <2>1. \A c \in Messages : Versions(c)' = Versions(c)
    BY <1>1 DEF Versions
  <2> QED
    BY <1>1, <2>1 DEF SInv, FewVersions, QueueIsSuffix, Gapless
<1>4. \A t \in Threads : Assigned(t)' /\ InProgress(t)'
  BY <1>1, ThreadsUnmoved
<1>5. HandledIsStored' /\ HandledMeansStored'
  BY <1>1 DEF SInv, HandledIsStored, HandledMeansStored, AllStored, Stored, At
<1> QED
  BY <1>2, <1>3, <1>4, <1>5 DEF SInv

-----------------------------------------------------------------------------
\* The steps of the message thread.

\* What leaves the table and the queues as they are.
LEMMA TableUnmoved ==
  ASSUME SInv, UNCHANGED <<table, queue>>
  PROVE  /\ FewVersions' /\ QueueIsSuffix' /\ Gapless' /\ HandledMeansStored'
         /\ \A c : Versions(c)' = Versions(c)
         /\ \A c, p, v : Stored(c, p, v)' <=> Stored(c, p, v)
<1>1. \A c : Versions(c)' = Versions(c)
  BY DEF Versions
<1>2. \A c, p, v : Stored(c, p, v)' <=> Stored(c, p, v)
  BY DEF Stored
<1> QED
  BY <1>1, <1>2 DEF SInv, FewVersions, QueueIsSuffix, Gapless, HandledMeansStored

LEMMA LoadStep ==
  ASSUME SInv, NEW t \in Threads, \A u \in Threads : u = t,
         BeginLoad(t) \/ ExecuteLoad(t) \/ CloseLoad(t)
  PROVE  SInv'
<1>1. /\ thread \in [Threads -> Places] /\ queue \in [Threads -> Seq(Messages)]
      /\ readers \subseteq Threads \union {Publisher}
      /\ Publisher \in readers <=> publisher.pc = "publish"
      /\ thread[t].pc \in Pcs /\ thread[t].part \in 0..Parts /\ thread[t].expected \in 0..MaxRows
      /\ t \in readers <=> thread[t].pc = "reading"
      /\ thread[t] \in Places
  BY DEF SInv, SqlTypeOK, Places, Pcs
<1>2. UNCHANGED <<table, params, queue, publisher, faults>>
  BY DEF BeginLoad, ExecuteLoad, CloseLoad
<1>3. /\ FewVersions' /\ QueueIsSuffix' /\ Gapless' /\ HandledMeansStored'
      /\ \A c : Versions(c)' = Versions(c)
      /\ \A c, p, v : Stored(c, p, v)' <=> Stored(c, p, v)
  BY <1>2, TableUnmoved
<1>4. InProgress(t) /\ Publisher # t /\ queue[t] \in Seq(Messages)
  BY <1>1, ThreadAssumption DEF SInv
<1>5. Parts \in Nat \ {0} /\ MaxRows \in Nat
  BY SqlAssumption
<1>6. SUFFICES /\ loadName' \in Messages \union {"none"}
               /\ readers' \subseteq Threads \union {Publisher}
               /\ t \in readers' <=> thread'[t].pc = "reading"
               /\ Publisher \in readers' <=> publisher.pc = "publish"
               /\ thread' \in [Threads -> Places]
               /\ ~At(t, "data")' /\ ~At(t, "version")' /\ ~At(t, "execute")' /\ ~At(t, "handled")'
               /\ InProgress(t)'
  <2>1. SqlTypeOK'
    BY <1>2, <1>6 DEF SInv, SqlTypeOK, Places, Pcs
  <2>2. \A v \in Threads : Assigned(v)' /\ InProgress(v)'
    BY <1>6 DEF Assigned
  <2>3. HandledIsStored'
    BY <1>6 DEF HandledIsStored
  <2> QED
    BY <1>3, <2>1, <2>2, <2>3 DEF SInv
<1>7. CASE BeginLoad(t)
  <2>1. /\ thread' = [thread EXCEPT ![t].pc = "load"] /\ queue[t] # <<>> /\ loadName' = Head(queue[t])
        /\ UNCHANGED <<readers, queue>> /\ thread[t].pc = "idle"
    BY <1>7 DEF BeginLoad, Go, At
  <2>2. thread'[t] = [thread[t] EXCEPT !.pc = "load"] /\ thread'[t].pc = "load"
    BY <1>1, <2>1
  <2>3. thread' \in [Threads -> Places]
    BY <1>1, <2>1 DEF Places, Pcs
  <2>4. Head(queue[t]) \in Messages
    BY <1>4, <2>1
  <2>5. InProgress(t)'
    BY <2>1, <2>2 DEF InProgress, At, Appending
  <2> QED
    BY <1>1, <2>1, <2>2, <2>3, <2>4, <2>5 DEF SInv, SqlTypeOK, At
<1>8. CASE ExecuteLoad(t)
  <2>1. /\ thread' = [thread EXCEPT ![t].pc = "reading", ![t].expected = LastVersion(loadName)]
        /\ readers = {} /\ readers' = {t} /\ UNCHANGED <<loadName, queue>> /\ thread[t].pc = "load"
    BY <1>8 DEF ExecuteLoad, At, Busy
  <2>2. loadName = Head(queue[t]) /\ queue[t] # <<>>
    BY <1>4, <2>1 DEF InProgress, At
  <2>3. Head(queue[t]) \in Messages
    BY <1>4, <2>2
  <2>4. PICK n \in 0..Len(table) : Versions(loadName) = 1..n
    BY <2>2, <2>3 DEF SInv, Gapless
  <2>5. n \in Nat /\ n \in 0..MaxRows
    BY <1>5, <2>4 DEF SInv, SqlTypeOK
  <2>6. LastVersion(loadName) = n
    BY <2>4, <2>5, LastOfGapless
  <2>7. thread'[t] = [thread[t] EXCEPT !.pc = "reading", !.expected = n]
    BY <1>1, <2>1, <2>6
  <2>8. thread'[t].pc = "reading" /\ thread'[t].expected = n
    BY <1>1, <2>7 DEF Places
  <2>9. thread' \in [Threads -> Places]
    BY <1>1, <2>1, <2>5, <2>6 DEF Places, Pcs
  <2>10. InProgress(t)'
    BY <1>3, <2>1, <2>2, <2>4, <2>8 DEF InProgress, At, Appending
  <2> QED
    BY <1>1, <1>4, <2>1, <2>8, <2>9, <2>10 DEF SInv, SqlTypeOK, At
<1>9. CASE CloseLoad(t)
  <2>1. /\ thread' = [thread EXCEPT ![t].pc = "name", ![t].part = 1]
        /\ readers' = readers \ {t} /\ UNCHANGED <<loadName, queue>> /\ thread[t].pc = "reading"
    BY <1>9 DEF CloseLoad, At
  <2>2. thread'[t].pc = "name" /\ thread'[t].part = 1 /\ thread'[t].expected = thread[t].expected
    BY <1>1, <2>1 DEF Places
  <2>3. thread' \in [Threads -> Places]
    <3>1. 1 \in 0..Parts
      BY <1>5
    <3> QED
      BY <1>1, <2>1, <3>1 DEF Places, Pcs
  <2>4. queue[t] # <<>> /\ Versions(Head(queue[t])) = 1..thread[t].expected
    BY <1>4, <2>1 DEF InProgress, At
  <2>5. InProgress(t)'
    BY <1>1, <1>3, <2>1, <2>2, <2>4 DEF InProgress, At, Appending, StoredUpTo
  <2> QED
    BY <1>1, <1>4, <2>1, <2>2, <2>3, <2>5 DEF SInv, SqlTypeOK, At
<1> QED
  BY <1>7, <1>8, <1>9

\* One parameter more holds what the thread passed.
LEMMA SetParameterStep ==
  ASSUME SInv, NEW t \in Threads, \A u \in Threads : u = t, SetParameter(t)
  PROVE  SInv'
<1>1. /\ thread \in [Threads -> Places] /\ queue \in [Threads -> Seq(Messages)]
      /\ thread[t].part \in 0..Parts /\ thread[t].expected \in 0..MaxRows
      /\ thread[t].pc \in {"name", "data", "version"}
      /\ ~At(t, "idle") /\ Appending(t) /\ InProgress(t) /\ Assigned(t)
  BY DEF SInv, SqlTypeOK, Places, Pcs, SetParameter, After, At, Appending
<1>2. /\ UNCHANGED <<table, loadName, readers, queue, publisher, faults>>
      /\ thread' = [thread EXCEPT ![t].pc = After[thread[t].pc]]
      /\ params' = [params EXCEPT ![thread[t].pc] = Passed(t)[thread[t].pc]]
  BY DEF SetParameter, Go
<1>3. /\ FewVersions' /\ QueueIsSuffix' /\ Gapless' /\ HandledMeansStored'
      /\ \A c : Versions(c)' = Versions(c)
      /\ \A c, p, v : Stored(c, p, v)' <=> Stored(c, p, v)
  BY <1>2, TableUnmoved
<1>4. /\ After[thread[t].pc] \in {"data", "version", "execute"}
      /\ thread[t].pc = "name" => After[thread[t].pc] = "data"
      /\ thread[t].pc = "data" => After[thread[t].pc] = "version"
      /\ thread[t].pc = "version" => After[thread[t].pc] = "execute"
  BY <1>1 DEF After
<1>5. /\ thread'[t].pc = After[thread[t].pc] /\ thread'[t].part = thread[t].part
      /\ thread'[t].expected = thread[t].expected
  BY <1>1, <1>2 DEF Places
<1>6. Passed(t)' = Passed(t)
  BY <1>2, <1>5 DEF Passed
<1>7. /\ queue[t] # <<>> /\ Head(queue[t]) \in Messages
      /\ thread[t].part \in 1..thread[t].expected + 1
  BY <1>1 DEF InProgress
<1>8. Passed(t) \in [name : Messages, data : Data, version : 1..MaxRows + 1]
  BY <1>1, <1>7, SqlAssumption DEF Passed, Data
<1>9. /\ params \in [name : Messages \union {"none"}, data : Data \union {NoData}, version : 0..MaxRows + 1]
      /\ params' \in [name : Messages \union {"none"}, data : Data \union {NoData}, version : 0..MaxRows + 1]
      /\ params'.name = IF thread[t].pc = "name" THEN Passed(t).name ELSE params.name
      /\ params'.data = IF thread[t].pc = "data" THEN Passed(t).data ELSE params.data
      /\ params'.version = IF thread[t].pc = "version" THEN Passed(t).version ELSE params.version
  <2>1. params \in [name : Messages \union {"none"}, data : Data \union {NoData}, version : 0..MaxRows + 1]
    BY DEF SInv, SqlTypeOK
  <2>2. /\ Passed(t).name \in Messages /\ Passed(t).data \in Data /\ Passed(t).version \in 0..MaxRows + 1
    BY <1>8, SqlAssumption
  <2>3. CASE thread[t].pc = "name"
    <3>1. params' = [params EXCEPT !.name = Passed(t).name]
      BY <1>2, <2>3
    <3> QED
      BY <2>1, <2>2, <2>3, <3>1
  <2>4. CASE thread[t].pc = "data"
    <3>1. params' = [params EXCEPT !.data = Passed(t).data]
      BY <1>2, <2>4
    <3> QED
      BY <2>1, <2>2, <2>4, <3>1
  <2>5. CASE thread[t].pc = "version"
    <3>1. params' = [params EXCEPT !.version = Passed(t).version]
      BY <1>2, <2>5
    <3> QED
      BY <2>1, <2>2, <2>5, <3>1
  <2> QED
    BY <1>1, <2>1, <2>3, <2>4, <2>5
<1>10. thread' \in [Threads -> Places]
  <2>1. [thread[t] EXCEPT !.pc = After[thread[t].pc]] \in Places
    BY <1>1, <1>4 DEF Places, Pcs
  <2> QED
    BY <1>1, <1>2, <2>1
<1>11. SqlTypeOK'
  BY <1>1, <1>2, <1>4, <1>5, <1>9, <1>10 DEF SInv, SqlTypeOK, Places, Pcs
<1>12. Assigned(t)'
  BY <1>1, <1>4, <1>5, <1>6, <1>9 DEF Assigned, At
<1>13. InProgress(t)'
  <2>1. ~At(t, "load")' /\ ~At(t, "reading")'
    BY <1>4, <1>5 DEF At
  <2>2. /\ Versions(Head(queue[t])) = 1..thread[t].expected
        /\ StoredUpTo(Head(queue[t]), thread[t].part - 1, thread[t].expected)
    BY <1>1 DEF InProgress
  <2>3. StoredUpTo(Head(queue[t]), thread[t].part - 1, thread[t].expected)'
    BY <1>2, <1>3, <1>5, <2>2 DEF StoredUpTo
  <2> QED
    BY <1>2, <1>3, <1>5, <1>7, <2>1, <2>2, <2>3 DEF InProgress
<1>14. HandledIsStored'
  BY <1>4, <1>5 DEF HandledIsStored, At
<1> QED
  BY <1>3, <1>11, <1>12, <1>13, <1>14 DEF SInv

\* What was stored of the message stays, its handling starts again.
LEMMA RefuseStep ==
  ASSUME SInv, NEW t \in Threads, \A u \in Threads : u = t, Refuse(t)
  PROVE  SInv'
<1>1. /\ UNCHANGED <<table, params, loadName, readers, queue, publisher, faults>>
      /\ thread' = [thread EXCEPT ![t] = Waiting]
      /\ thread[t].pc # "reading"
  BY DEF Refuse, connectionVars, At
<1>2. thread \in [Threads -> Places] /\ Waiting \in Places /\ Waiting.pc = "idle"
  BY SqlAssumption DEF SInv, SqlTypeOK, Places, Pcs, Waiting
<1>3. thread' \in [Threads -> Places] /\ thread'[t].pc = "idle"
  BY <1>1, <1>2
<1>4. SqlTypeOK'
  BY <1>1, <1>3 DEF SInv, SqlTypeOK, Places, Pcs
<1>5. Assigned(t)' /\ InProgress(t)' /\ HandledIsStored'
  BY <1>3 DEF Assigned, InProgress, Appending, At, HandledIsStored
<1>6. FewVersions' /\ QueueIsSuffix' /\ Gapless' /\ HandledMeansStored'
  BY <1>1, TableUnmoved
<1> QED
  BY <1>4, <1>5, <1>6 DEF SInv

\* The message that leaves the queue is the one whose events are stored.
LEMMA RemoveStep ==
  ASSUME SInv, NEW t \in Threads, \A u \in Threads : u = t, Remove(t)
  PROVE  SInv'
<1> DEFINE q == queue[t]
           all == QueueOf[t]
<1>1. /\ UNCHANGED <<table, params, loadName, readers, publisher, faults>>
      /\ queue' = [queue EXCEPT ![t] = Tail(queue[t])]
      /\ thread' = [thread EXCEPT ![t] = Waiting]
      /\ thread[t].pc = "handled" /\ At(t, "handled")
  BY DEF Remove, connectionVars, At
<1>2. thread \in [Threads -> Places] /\ Waiting \in Places /\ Waiting.pc = "idle"
  BY SqlAssumption DEF SInv, SqlTypeOK, Places, Pcs, Waiting
<1>3. thread' \in [Threads -> Places] /\ thread'[t].pc = "idle"
  BY <1>1, <1>2
<1>4. /\ q \in Seq(Messages) /\ all \in Seq(Messages) /\ q # <<>> /\ queue \in [Threads -> Seq(Messages)]
  <2>1. q # <<>>
    BY <1>1 DEF SInv, InProgress, At
  <2> QED
    BY <2>1, SqlAssumption DEF SInv, SqlTypeOK
<1>5. /\ Len(q) \in Nat \ {0} /\ Len(all) \in Nat /\ Len(q) <= Len(all)
      /\ \A k \in 1..Len(q) : q[k] = all[Len(all) - Len(q) + k]
      /\ Tail(q) \in Seq(Messages) /\ Len(Tail(q)) = Len(q) - 1
      /\ \A k \in 1..Len(q) - 1 : Tail(q)[k] = q[k + 1]
  <2>1. /\ Len(q) <= Len(all)
        /\ \A k \in 1..Len(q) : q[k] = all[Len(all) - Len(q) + k]
    BY DEF SInv, QueueIsSuffix
  <2> QED
    BY <1>4, <2>1
<1>6. queue' \in [Threads -> Seq(Messages)] /\ queue'[t] = Tail(q)
  BY <1>1, <1>4, <1>5
<1>7. SqlTypeOK'
  BY <1>1, <1>3, <1>6 DEF SInv, SqlTypeOK, Places, Pcs
<1>8. QueueIsSuffix'
  <2>1. Len(Tail(q)) <= Len(all)
    BY <1>5
  <2>2. ASSUME NEW k \in 1..Len(Tail(q))
        PROVE  Tail(q)[k] = all[Len(all) - Len(Tail(q)) + k]
    <3>1. k \in 1..Len(q) - 1 /\ k + 1 \in 1..Len(q)
      BY <1>5
    <3>2. Tail(q)[k] = q[k + 1] /\ q[k + 1] = all[Len(all) - Len(q) + (k + 1)]
      BY <1>5, <3>1
    <3>3. Len(all) - Len(q) + (k + 1) = Len(all) - (Len(q) - 1) + k
      <4>1. \A a, b, c \in Int : a - b + (c + 1) = a - (b - 1) + c
        OBVIOUS
      <4>2. Len(all) \in Int /\ Len(q) \in Int /\ k \in Int
        BY <1>5
      <4> HIDE DEF q, all
      <4> QED
        BY <4>1, <4>2
    <3> QED
      BY <1>5, <3>2, <3>3
  <2> QED
    BY <1>6, <2>1, <2>2 DEF QueueIsSuffix
<1>9. Assigned(t)' /\ InProgress(t)' /\ HandledIsStored'
  BY <1>3 DEF Assigned, InProgress, Appending, At, HandledIsStored
<1>10. FewVersions' /\ Gapless'
  <2>1. \A c : Versions(c)' = Versions(c)
    BY <1>1 DEF Versions
  <2> QED
    BY <1>1, <2>1 DEF SInv, FewVersions, Gapless
<1>11. HandledMeansStored'
  <2>1. \A c, p, v : Stored(c, p, v)' <=> Stored(c, p, v)
    BY <1>1 DEF Stored
  <2>2. SUFFICES ASSUME NEW i \in 1..Len(all) - Len(Tail(q))
                 PROVE  AllStored(all[i])
    BY <1>6, <2>1, <2>2 DEF HandledMeansStored, AllStored
  <2>3. CASE i <= Len(all) - Len(q)
    <3>1. i \in 1..Len(all) - Len(q)
      BY <1>5, <2>3
    <3> QED
      BY <3>1 DEF SInv, HandledMeansStored, AllStored
  <2>4. CASE ~(i <= Len(all) - Len(q))
    <3>1. i = Len(all) - Len(q) + 1 /\ 1 \in 1..Len(q)
      BY <1>5, <2>4
    <3>2. all[i] = Head(q)
      BY <1>4, <1>5, <3>1
    <3> QED
      BY <1>1, <3>2 DEF SInv, HandledIsStored
  <2> QED
    BY <2>3, <2>4
<1> QED
  BY <1>7, <1>8, <1>9, <1>10, <1>11 DEF SInv

\* ExecuteNonQuery: the row gets the version after the last one of its stream.
LEMMA ExecuteStep ==
  ASSUME SInv, NEW t \in Threads, \A u \in Threads : u = t, Execute(t)
  PROVE  SInv'
<1>0. PICK c, e, part :
        c = Head(queue[t]) /\ e = thread[t].expected /\ part = thread[t].part
  OBVIOUS
<1>1. /\ UNCHANGED <<params, loadName, readers, queue, publisher, faults>>
      /\ table' = Append(table, params) /\ Len(table) < MaxRows
      /\ thread' = [thread EXCEPT ![t] = IF part = Parts THEN [thread[t] EXCEPT !.pc = "handled"]
                      ELSE [pc |-> "name", part |-> part + 1, expected |-> e + 1]]
      /\ At(t, "execute") /\ thread[t].pc = "execute" /\ Appending(t)
  BY <1>0 DEF Execute, NextEvent, At, Appending
<1>2. /\ thread \in [Threads -> Places] /\ thread[t] \in Places /\ part \in 0..Parts /\ e \in 0..MaxRows
      /\ table \in Seq(Call) /\ Len(table) \in Nat /\ queue \in [Threads -> Seq(Messages)]
      /\ params \in [name : Messages \union {"none"}, data : Data \union {NoData}, version : 0..MaxRows + 1]
      /\ Parts \in Nat \ {0} /\ MaxRows \in Nat
  <2>1. thread \in [Threads -> Places] /\ table \in Seq(Call) /\ queue \in [Threads -> Seq(Messages)]
    BY DEF SInv, SqlTypeOK, Places, Pcs
  <2>2. params \in [name : Messages \union {"none"}, data : Data \union {NoData}, version : 0..MaxRows + 1]
    BY DEF SInv, SqlTypeOK
  <2>3. thread[t] \in Places
    BY <2>1
  <2>4. part \in 0..Parts /\ e \in 0..MaxRows
    BY <1>0, <2>3 DEF Places
  <2> QED
    BY <2>1, <2>2, <2>3, <2>4, SqlAssumption
<1>3. /\ queue[t] # <<>> /\ part \in 1..e + 1 /\ Versions(c) = 1..e
      /\ StoredUpTo(c, part - 1, e)
      /\ params.name = c /\ params.data = [cmd |-> c, part |-> part] /\ params.version = e + 1
  <2>1. InProgress(t) /\ Assigned(t)
    BY DEF SInv
  <2>2. ~At(t, "idle") /\ params.name = Passed(t).name /\ params.data = Passed(t).data
        /\ params.version = Passed(t).version
    BY <1>1, <2>1 DEF Assigned, At
  <2> QED
    BY <1>0, <1>1, <2>1, <2>2 DEF InProgress, Passed
<1>4. c \in Messages
  BY <1>0, <1>2, <1>3
<1>5. PICK n \in 0..Len(table) : Versions(c) = 1..n
  BY <1>4 DEF SInv, Gapless
<1>6. n = e /\ e <= Len(table)
  <2>1. \A a, b \in Nat : 1..a = 1..b => a = b
    <3> SUFFICES ASSUME NEW a \in Nat, NEW b \in Nat, 1..a = 1..b PROVE a = b
      OBVIOUS
    <3>1. \A k \in Int : k \in 1..a <=> k \in 1..b
      OBVIOUS
    <3>2. (a > 0 => a \in 1..b) /\ (b > 0 => b \in 1..a)
      OBVIOUS
    <3> QED
      BY <3>2
  <2> QED
    BY <1>2, <1>3, <1>5, <2>1
<1>7. params = [name |-> c, data |-> [cmd |-> c, part |-> part], version |-> e + 1]
  BY <1>2, <1>3
<1>8. params \in Call
  BY <1>2, <1>3, <1>4, <1>7 DEF Call, Data
<1>9. /\ table' \in Seq(Call) /\ Len(table') = Len(table) + 1 /\ Len(table') <= MaxRows
      /\ \A k \in 1..Len(table) : table'[k] = table[k]
      /\ table'[Len(table) + 1] = params
  BY <1>1, <1>2, <1>8
<1>10. \A x : Versions(x)' = IF c = x THEN 1..e + 1 ELSE Versions(x)
  <2>1. \A x : Versions(x)' = IF params.name = x THEN Versions(x) \union {params.version} ELSE Versions(x)
    BY <1>1, <1>2, <1>8, VersionsOfAppend
  <2>2. (1..e) \union {e + 1} = 1..e + 1
    BY <1>2
  <2> QED
    BY <1>3, <2>1, <2>2
<1>11. \A x, p, v : Stored(x, p, v) => Stored(x, p, v)'
  BY <1>1, <1>2, <1>8, StoredStays
<1>12. Stored(c, part, e + 1)'
  <2>1. Len(table) + 1 \in DOMAIN table'
    BY <1>2, <1>9
  <2> QED
    BY <1>1, <1>7, <1>9, <2>1 DEF Stored
<1>13. StoredUpTo(c, part, e + 1)'
  <2>1. SUFFICES ASSUME NEW p \in 1..part
                 PROVE  Stored(c, p, (e + 1) - part + p)'
    BY <2>1 DEF StoredUpTo
  <2>2. CASE p = part
    <3>1. (e + 1) - part + p = e + 1
      BY <1>2, <2>2
    <3> QED
      BY <1>12, <2>2, <3>1
  <2>3. CASE p # part
    <3>1. p \in 1..part - 1 /\ (e + 1) - part + p = e - (part - 1) + p
      BY <1>2, <2>3
    <3>2. Stored(c, p, e - (part - 1) + p)
      BY <1>3, <3>1 DEF StoredUpTo
    <3> QED
      BY <1>11, <3>1, <3>2
  <2> QED
    BY <2>2, <2>3
<1>14. FewVersions'
  <2>1. ASSUME NEW k \in 1..Len(table) + 1 PROVE table'[k].version <= k
    <3>1. CASE k \in 1..Len(table)
      BY <1>9, <3>1 DEF SInv, FewVersions
    <3>2. CASE k = Len(table) + 1
      BY <1>2, <1>3, <1>6, <1>9, <3>2
    <3> QED
      BY <1>2, <3>1, <3>2
  <2> QED
    BY <1>9, <2>1 DEF FewVersions
<1>15. QueueIsSuffix'
  BY <1>1 DEF SInv, QueueIsSuffix
<1>16. Gapless'
  <2>1. SUFFICES ASSUME NEW x \in Messages PROVE \E m \in 0..Len(table) + 1 : Versions(x)' = 1..m
    BY <1>9 DEF Gapless
  <2>2. CASE x = c
    <3>1. e + 1 \in 0..Len(table) + 1
      BY <1>2, <1>6
    <3> QED
      BY <1>10, <2>2, <3>1
  <2>3. CASE x # c
    <3>1. PICK m \in 0..Len(table) : Versions(x) = 1..m
      BY DEF SInv, Gapless
    <3>2. m \in 0..Len(table) + 1
      BY <1>2
    <3> QED
      BY <1>10, <2>3, <3>1, <3>2
  <2> QED
    BY <2>2, <2>3
<1>17. HandledMeansStored'
  <2>1. \A x : AllStored(x) => AllStored(x)'
    BY <1>11 DEF AllStored
  <2>2. \A v \in Threads : \A i \in 1..Len(QueueOf[v]) - Len(queue[v]) : AllStored(QueueOf[v][i])
    BY DEF SInv, HandledMeansStored, AllStored
  <2> QED
    BY <1>1, <2>1, <2>2 DEF HandledMeansStored, AllStored
<1>18. CASE part = Parts
  <2>1. thread' = [thread EXCEPT ![t] = [pc |-> "handled", part |-> part, expected |-> e]]
    <3>1. [thread[t] EXCEPT !.pc = "handled"] = [pc |-> "handled", part |-> part, expected |-> e]
      BY <1>0, <1>2 DEF Places
    <3> QED
      BY <1>1, <1>18, <3>1
  <2>2. [pc |-> "handled", part |-> part, expected |-> e] \in Places
    BY <1>2 DEF Places, Pcs
  <2>3. thread' \in [Threads -> Places] /\ thread'[t].pc = "handled"
    BY <1>2, <2>1, <2>2
  <2>4. SqlTypeOK'
    BY <1>1, <1>9, <2>3 DEF SInv, SqlTypeOK, Places, Pcs
  <2>5. Assigned(t)' /\ InProgress(t)'
    BY <1>1, <1>3, <2>3 DEF Assigned, InProgress, Appending, At
  <2>6. AllStored(c)'
    <3>1. (e + 1) - Parts + 1 \in 1..MaxRows
      BY <1>1, <1>2, <1>3, <1>6, <1>18
    <3>2. \A p \in 1..Parts : ((e + 1) - Parts + 1) - 1 + p = (e + 1) - part + p
      BY <1>2, <1>18
    <3>3. \A p \in 1..Parts : Stored(c, p, ((e + 1) - Parts + 1) - 1 + p)'
      <4>1. SUFFICES ASSUME NEW p \in 1..Parts
                     PROVE  Stored(c, p, ((e + 1) - Parts + 1) - 1 + p)'
        BY <4>1
      <4>2. PICK v : v = (e + 1) - part + p /\ v = ((e + 1) - Parts + 1) - 1 + p
        BY <3>2
      <4>3. Stored(c, p, (e + 1) - part + p)'
        BY <1>13, <1>18 DEF StoredUpTo
      <4>4. Stored(c, p, v)'
        BY <4>2, <4>3, Zenon DEF Stored
      <4> QED
        BY <4>2, <4>4, Zenon DEF Stored
    <3> QED
      BY <1>1, <3>1, <3>3 DEF AllStored
  <2>7. HandledIsStored'
    BY <1>0, <1>1, <2>6 DEF HandledIsStored
  <2> QED
    BY <1>14, <1>15, <1>16, <1>17, <2>4, <2>5, <2>7 DEF SInv
<1>19. CASE part # Parts
  <2>1. thread' = [thread EXCEPT ![t] = [pc |-> "name", part |-> part + 1, expected |-> e + 1]]
    BY <1>1, <1>19
  <2>2. [pc |-> "name", part |-> part + 1, expected |-> e + 1] \in Places
    BY <1>1, <1>2, <1>6, <1>19 DEF Places, Pcs
  <2>3. /\ thread' \in [Threads -> Places]
        /\ thread'[t] = [pc |-> "name", part |-> part + 1, expected |-> e + 1]
    BY <1>2, <2>1, <2>2
  <2>4. SqlTypeOK'
    <3>1. thread'[t].pc = "name" /\ \A u \in Threads : u = t
      BY <2>3
    <3>2. \A u \in Threads : u \in readers' <=> thread'[u].pc = "reading"
      BY <1>1, <3>1 DEF SInv, SqlTypeOK
    <3> QED
      BY <1>1, <1>9, <2>3, <3>2 DEF SInv, SqlTypeOK, Places, Pcs
  <2>5. Assigned(t)'
    BY <2>3 DEF Assigned, At
  <2>6. InProgress(t)'
    <3>1. part + 1 \in 1..(e + 1) + 1 /\ (part + 1) - 1 = part
      BY <1>2, <1>3
    <3>2. Versions(c)' = 1..e + 1
      BY <1>10
    <3>3. Head(queue[t])' = c
      BY <1>0, <1>1
    <3> QED
      BY <1>1, <1>3, <1>13, <2>3, <3>1, <3>2, <3>3 DEF InProgress, Appending, At
  <2>7. HandledIsStored'
    BY <2>3 DEF HandledIsStored, At
  <2> QED
    BY <1>14, <1>15, <1>16, <1>17, <2>4, <2>5, <2>6, <2>7 DEF SInv
<1> QED
  BY <1>18, <1>19

LEMMA SqlInductive ==
  ASSUME \A u, t \in Threads : u = t
  PROVE  SInv /\ [SqlNext]_sqlVars => SInv'
<1> SUFFICES ASSUME SInv, [SqlNext]_sqlVars PROVE SInv'
  OBVIOUS
<1>1. ASSUME NEW t \in Threads, Handle(t) PROVE SInv'
  <2>1. \A u \in Threads : u = t
    OBVIOUS
  <2> QED
    BY <1>1, <2>1, LoadStep, SetParameterStep, ExecuteStep, RefuseStep, RemoveStep DEF Handle
<1>2. CASE Loop \/ Wake \/ Throw
  BY <1>2, PublisherStep
<1>3. CASE UNCHANGED sqlVars
  <2>1. UNCHANGED <<table, params, loadName, readers, queue, thread, publisher, faults>>
    BY <1>3 DEF sqlVars
  <2>2. SqlTypeOK'
    BY <2>1 DEF SInv, SqlTypeOK
  <2>3. FewVersions' /\ QueueIsSuffix' /\ Gapless' /\ HandledMeansStored'
    BY <2>1, TableUnmoved
  <2>4. \A t \in Threads : Assigned(t)' /\ InProgress(t)'
    BY <2>1, ThreadsUnmoved
  <2>5. HandledIsStored'
    BY <2>1 DEF SInv, HandledIsStored, AllStored, Stored, At
  <2> QED
    BY <2>2, <2>3, <2>4, <2>5 DEF SInv
<1> QED
  BY <1>1, <1>2, <1>3 DEF SqlNext

\* The parameters and the table keep their types, and a reader belongs to a thread
\* inside Load or ReadFrom, if there is one message thread.
THEOREM SqlTypeCorrect ==
  ASSUME \A u, t \in Threads : u = t
  PROVE  SqlSpec => []SqlTypeOK
<1>1. SInv => SqlTypeOK
  BY DEF SInv
<1> QED
  BY <1>1, SqlInitially, SqlInductive, PTL DEF SqlSpec

\* With one message thread in the process, whatever statements of it and of the
\* publisher meet on the connection, a command that is gone from the queue has all
\* its events in its stream, one after the other.
THEOREM HandledIsKept ==
  ASSUME \A u, t \in Threads : u = t
  PROVE  SqlSpec => []HandledMeansStored
<1>1. SInv => HandledMeansStored
  BY DEF SInv
<1> QED
  BY <1>1, SqlInitially, SqlInductive, PTL DEF SqlSpec
=============================================================================
