------------------------ MODULE EventPublication_proofs ------------------------
(***************************************************************************)
(* The publisher loop publishes at least once, in order and repeats only   *)
(* what faults account for; over a table whose ids become visible out of   *)
(* order it skips only what it could not see.  For any number of events    *)
(* and of INSERTs at once, any batch size and any exceptions, crashes and  *)
(* power failures.                                                         *)
(***************************************************************************)
EXTENDS EventPublication, TLAPS

(* The loop for itself: EventStorePublisher.                               *)

\* The loop has an id unless it has not read it yet, and PublishEvents only goes
\* forward from it.
Control ==
  /\ pc = "down" => last = Null
  /\ pc \in {"publish", "store", "write"} => last # Null
  /\ pc = "publish" => last <= cursor

\* Only stored events are published, and ids are handed out once.
Table ==
  /\ \A i \in log : i <= lastId
  /\ \A i \in Ids : Published(i) => i \in log
  /\ last <= lastId /\ cursor <= lastId /\ doc <= lastId

\* What the loop takes to be published is, also where a restart would resume;
\* what lies beyond was published only by attempts that failed.
Progress ==
  /\ \A i \in log : i <= doc \/ i <= last => Published(i)
  /\ pc = "publish" => \A i \in log : i <= cursor => Published(i)
  /\ \A i \in Ids :
       Position < i /\ Position # Emptied => sent[i] <= faults

PInv ==
  /\ TypeOK
  /\ Control
  /\ Table
  /\ LoopNotBehindDocument
  /\ Progress
  /\ FirstTimeInOrder
  /\ RepeatsNeedFaults

-----------------------------------------------------------------------------
LEMMA Initial == Init => PInv
BY PublisherAssumption
DEF Init, PInv, TypeOK, Control, Table, LoopNotBehindDocument, Progress, Position,
    FirstTimeInOrder, RepeatsNeedFaults, Published, Ids, Missing, Emptied, Null

\* The steps of the command handlers.
LEMMA TableStep ==
  ASSUME PInv, AppendEvent \/ SkipId
  PROVE  PInv'
<1> USE PublisherAssumption
    DEF PInv, TypeOK, Control, Table, LoopNotBehindDocument, Progress, Position,
        FirstTimeInOrder, RepeatsNeedFaults, Published, Ids, Missing, Emptied, Null
<1>1. CASE AppendEvent
  BY <1>1 DEF AppendEvent
<1>2. CASE SkipId
  BY <1>2 DEF SkipId
<1> QED
  BY <1>1, <1>2

\* The steps that move the loop without publishing anything.
LEMMA LoopStep ==
  ASSUME PInv,
         \/ ReadLastPublishedEventId
         \/ OpenReader
         \/ EndBatch
         \/ OpenDocument
         \/ WriteDocument
  PROVE  PInv'
<1> USE PublisherAssumption
    DEF PInv, TypeOK, Control, Table, LoopNotBehindDocument, Progress, Position,
        FirstTimeInOrder, RepeatsNeedFaults, Published, Ids, Missing, Emptied, Null
<1>1. CASE ReadLastPublishedEventId
  BY <1>1 DEF ReadLastPublishedEventId
<1>2. CASE OpenReader
  BY <1>2 DEF OpenReader
<1>3. CASE EndBatch
  BY <1>3 DEF EndBatch, Leave
<1>4. CASE OpenDocument
  BY <1>4 DEF OpenDocument
<1>5. CASE WriteDocument
  BY <1>5 DEF WriteDocument
<1> QED
  BY <1>1, <1>2, <1>3, <1>4, <1>5

LEMMA PublishStep ==
  ASSUME PInv, PublishNext
  PROVE  PInv'
<1>1. PICK i \in log : IsNext(i) /\ sent' = [sent EXCEPT ![i] = @ + 1] /\ cursor' = i
  BY DEF PublishNext, Publish
<1>2. /\ pc = "publish" /\ found # BatchSize /\ found' = found + 1
      /\ UNCHANGED <<log, lastId, doc, pc, last, snapshot, faults>>
  BY DEF PublishNext, Publish, BatchFull
<1>3. i \in Ids /\ cursor < i /\ i <= lastId
  BY <1>1 DEF IsNext, Unread, PInv, TypeOK, Table
\* Nothing between the cursor and i is in the table.
<1>4. \A j \in log : j < i => j <= cursor
  BY <1>1, <1>3, PublisherAssumption
  DEF IsNext, Unread, PInv, TypeOK, Ids
<1>5. \A j \in Ids : sent'[j] = IF j = i THEN sent[j] + 1 ELSE sent[j]
  BY <1>1 DEF PInv, TypeOK
<1>6. TypeOK'
  BY <1>1, <1>2, <1>3, PublisherAssumption DEF PInv, TypeOK, Ids
<1>7. Control' /\ Table' /\ LoopNotBehindDocument'
  BY <1>1, <1>2, <1>3, <1>5, PublisherAssumption
  DEF PInv, TypeOK, Control, Table, LoopNotBehindDocument, Published, Ids, Null, Missing,
      Emptied
<1>8. sent[i] <= faults
  BY <1>2, <1>3
  DEF PInv, Progress, Position, TypeOK, Ids, Emptied
<1>9. Progress'
  <2>1. /\ Position = cursor /\ Position' = i
        /\ cursor \in Int /\ cursor # Emptied /\ i # Emptied /\ i \in Int
        /\ log \subseteq Ids /\ Ids \subseteq Int
        /\ \A j \in Ids : sent[j] \in Nat
    BY <1>1, <1>2, <1>3, PublisherAssumption
    DEF PInv, TypeOK, Position, Ids, Null, Missing, Emptied
  <2>2. \A j \in log : Published(j) => Published(j)'
    BY <1>5, <2>1 DEF Published
  <2>3. \A j \in log : j <= doc \/ j <= last => Published(j)'
    BY <2>2 DEF PInv, Progress
  <2>4. \A j \in log : j <= i => Published(j)'
    <3>1. Published(i)'
      BY <1>3, <1>5, <2>1 DEF Published
    <3>2. \A j \in log : j <= cursor => Published(j)
      BY <1>2 DEF PInv, Progress
    <3>3. \A j \in log : j <= i => j = i \/ j <= cursor
      BY <1>4, <2>1
    <3> QED
      BY <2>2, <3>1, <3>2, <3>3
  <2>5. \A j \in Ids : i < j => sent'[j] <= faults
    <3>1. \A j \in Ids : cursor < j => sent[j] <= faults
      BY <2>1 DEF PInv, Progress
    <3> QED
      BY <1>3, <1>5, <2>1, <3>1
  <2> QED
    BY <1>1, <1>2, <2>1, <2>3, <2>4, <2>5 DEF Progress, Ids
<1>10. FirstTimeInOrder'
  BY <1>1, <1>2, <1>3, <1>4, <1>5, PublisherAssumption
  DEF PInv, TypeOK, Control, Progress, Position, FirstTimeInOrder, Published, Ids, Null,
      Emptied
<1>11. RepeatsNeedFaults'
  BY <1>1, <1>2, <1>3, <1>5, <1>8, PublisherAssumption
  DEF PInv, TypeOK, RepeatsNeedFaults, Ids
<1> QED
  BY <1>6, <1>7, <1>9, <1>10, <1>11 DEF PInv

LEMMA FaultStep ==
  ASSUME PInv, Start \/ Throw \/ Crash
  PROVE  PInv'
<1> USE PublisherAssumption
    DEF PInv, TypeOK, Control, Table, LoopNotBehindDocument, Progress, Position,
        FirstTimeInOrder, RepeatsNeedFaults, Published, Ids, Missing, Emptied, Null
<1>1. CASE Start
  BY <1>1 DEF Start
<1>2. CASE Throw
  BY <1>2 DEF Throw, Leave
<1>3. CASE Crash
  BY <1>3 DEF Crash, Leave
<1> QED
  BY <1>1, <1>2, <1>3

LEMMA Stutter ==
  ASSUME PInv, UNCHANGED vars
  PROVE  PInv'
BY
DEF vars, PInv, TypeOK, Control, Table, LoopNotBehindDocument, Progress, Position,
    FirstTimeInOrder, RepeatsNeedFaults, Published

\* PInv is inductive.
LEMMA Inductive == PInv /\ [Next]_vars => PInv'
<1> SUFFICES ASSUME PInv, [Next]_vars PROVE PInv'
  OBVIOUS
<1> QED
  BY TableStep, LoopStep, PublishStep, FaultStep, Stutter
  DEF Next, Loop, ReadEmptied

LEMMA Invariance == Spec => []PInv
  BY Initial, Inductive, PTL DEF Spec

\* The loop's variables keep their types and no batch exceeds its size.
THEOREM TypeCorrect == Spec => []TypeOK
  BY Invariance, PTL DEF PInv

\* Whatever crashes or throws, no event up to the stored id is unpublished.
THEOREM NoEventIsSkipped == Spec => []NothingSkipped
<1>1. PInv => NothingSkipped
  BY DEF PInv, Progress, NothingSkipped
<1> QED
  BY <1>1, Invariance, PTL

\* Subscribers can rely on the order in which they first hear of events.
THEOREM PublishedInOrder == Spec => []FirstTimeInOrder
  BY Invariance, PTL DEF PInv

\* The number of times an event is published is bounded by the faults.
THEOREM RepeatsAreBounded == Spec => []RepeatsNeedFaults
  BY Invariance, PTL DEF PInv

\* The stored id never overtakes the loop.
THEOREM DocumentNotAhead == Spec => []LoopNotBehindDocument
  BY Invariance, PTL DEF PInv

\* Once the document accounts for an event, it is never published again.
THEOREM SavedIsFinal == Spec => NoRepeatOnceSaved
<1>1. ASSUME PInv, [Next]_vars
      PROVE  [\A i \in Ids : sent'[i] # sent[i] => doc < i]_vars
  <2>1. CASE PublishNext
    <3>1. PICK i \in log : IsNext(i) /\ sent' = [sent EXCEPT ![i] = @ + 1]
      BY <2>1 DEF PublishNext, Publish
    <3>2. doc < i
      BY <1>1, <2>1, <3>1
      DEF PublishNext, Publish, IsNext, Unread, PInv, TypeOK, Control, LoopNotBehindDocument, Ids,
          Null, Missing, Emptied
    <3> QED
      BY <1>1, <3>1, <3>2 DEF PInv, TypeOK
  <2>2. CASE sent' = sent
    BY <2>2
  <2>3. PublishNext \/ sent' = sent
    BY <1>1
    DEF Next, vars, AppendEvent, SkipId, Start, ReadEmptied, Loop, Throw, Crash, OpenReader,
        ReadLastPublishedEventId, EndBatch, Leave, OpenDocument, WriteDocument
  <2> QED
    BY <2>1, <2>2, <2>3
<1> QED
  BY <1>1, Invariance, PTL DEF Spec, NoRepeatOnceSaved

-----------------------------------------------------------------------------
(* The loop over a table whose ids become visible out of order:            *)
(* EventPublication.                                                       *)

\* The loop goes forward, and no id it has is one that SQL Server did not give out.
Reading ==
  /\ Control
  /\ database = "SqlServer" => cursor <= lastId

\* SQLite has one writer, and the id it inserts is the highest.
OneWriter == database = "SQLite" => inserting \subseteq {lastId}

Behind(i) == i <= doc \/ i <= last \/ (pc = "publish" /\ i <= cursor)

\* What is behind the loop was published or could not be seen; what is still being
\* inserted there will not be seen.
Accounted ==
  /\ \A i \in log : Behind(i) /\ sent[i] = 0 => i \in overtaken \union reissued
  /\ \A i \in inserting : Behind(i) => i \in overtaken \union reissued

\* The rows taken over lie ahead of the loop, each with lower ids only; every id that
\* lies before one of them was taken over too, or left out by the scan at or before it.
Buffered ==
  /\ pc # "publish" => fetched = {}
  /\ \A r \in fetched : cursor < r.id /\ \A j \in r.unseen : j < r.id
  /\ \A q, r \in fetched : q.id = r.id => q = r
  /\ \A r \in fetched, j \in log \union inserting :
       cursor < j /\ j < r.id =>
         \E q \in fetched : q.id <= r.id /\ (j = q.id \/ j \in q.unseen)

UInv == PublicationTypeOK /\ Reading /\ OneWriter /\ Buffered /\ Accounted

-----------------------------------------------------------------------------
LEMMA PublicationInitially == PublicationInit => UInv
BY PublisherAssumption
DEF PublicationInit, UInv, PublicationTypeOK, Reading, Control, OneWriter, Buffered, Accounted,
    Behind, Ids, Null, Init, TypeOK, Missing, Emptied

\* The rows taken over are rows of the table.
LEMMA FetchedRows ==
  ASSUME PublicationTypeOK
  PROVE  \A r \in fetched :
           r.id \in log /\ r.id \in Nat /\ r.id <= lastId /\ r.unseen \subseteq Ids
<1>1. \A r \in fetched : r.id \in log /\ r.unseen \subseteq Ids
  BY DEF PublicationTypeOK
<1>2. \A i \in log : i \in Nat /\ i <= lastId
  BY PublisherAssumption DEF PublicationTypeOK, TypeOK, Ids
<1> QED
  BY <1>1, <1>2

\* What an INSERT adds lies beyond all that was taken over.
LEMMA BufferKept ==
  ASSUME UInv, UNCHANGED <<fetched, cursor, pc>>,
         log' \union inserting' \subseteq log \union inserting \union {lastId + 1}
  PROVE  Buffered'
<1>1. \A r \in fetched : r.id \in Nat /\ r.id <= lastId
  BY FetchedRows DEF UInv
<1>2. \A r \in fetched : ~(lastId + 1 < r.id)
  BY <1>1 DEF UInv, PublicationTypeOK, TypeOK
<1>3. ASSUME NEW r \in fetched, NEW j \in log' \union inserting', cursor < j, j < r.id
      PROVE  \E q \in fetched : q.id <= r.id /\ (j = q.id \/ j \in q.unseen)
  <2>1. j \in log \union inserting
    BY <1>2, <1>3
  <2> QED
    BY <1>3, <2>1 DEF UInv, Buffered
<1>4. \A r \in fetched : cursor < r.id /\ \A j \in r.unseen : j < r.id
  BY DEF UInv, Buffered
<1>5. /\ pc # "publish" => fetched = {}
      /\ \A q, r \in fetched : q.id = r.id => q = r
  BY DEF UInv, Buffered
<1> QED
  BY <1>3, <1>4, <1>5 DEF Buffered

\* The reader is closed.
LEMMA BufferEmptied ==
  ASSUME fetched' = {}
  PROVE  Buffered'
BY DEF Buffered

\* The steps of the command handlers.
LEMMA InsertStep ==
  ASSUME UInv, Allocate \/ \E i \in Ids : Commit(i) \/ RollBack(i)
  PROVE  UInv'
<1>0. Buffered'
  <2>1. /\ UNCHANGED <<fetched, cursor, pc>>
        /\ log' \union inserting' \subseteq log \union inserting \union {lastId + 1}
    BY DEF Allocate, Commit, RollBack, loopVars
  <2> QED
    BY <2>1, BufferKept
<1> SUFFICES (PublicationTypeOK /\ Reading /\ OneWriter /\ Accounted)'
  BY <1>0 DEF UInv
<1> USE PublisherAssumption
    DEF UInv, PublicationTypeOK, Reading, Control, OneWriter, Accounted, Behind, Position,
        Ids, Null, loopVars, history, TypeOK, Missing, Emptied
<1>1. CASE Allocate
  BY <1>1 DEF Allocate
<1>2. ASSUME NEW i \in Ids, Commit(i)
      PROVE  (PublicationTypeOK /\ Reading /\ OneWriter /\ Accounted)'
  BY <1>2 DEF Commit
<1>3. ASSUME NEW i \in Ids, RollBack(i)
      PROVE  (PublicationTypeOK /\ Reading /\ OneWriter /\ Accounted)'
  <2>1. i \in inserting /\ inserting' = inserting \ {i}
    BY <1>3 DEF RollBack
  <2>2. UNCHANGED <<database, log, doc, pc, last, cursor, snapshot, found, sent, faults,
                    fetched, overtaken, reissued>>
    BY <1>3 DEF RollBack
  \* In SQLite the only id under way is the last one, so all others are below it.
  <2>3. CASE database = "SQLite"
    <3>1. lastId' = lastId - 1 /\ i = lastId /\ inserting' = {}
      BY <1>3, <2>1, <2>3 DEF RollBack
    <3>2. lastId' \in 0..MaxId /\ \A j \in log : j <= lastId'
      BY <2>1, <3>1
    <3> QED
      BY <2>2, <2>3, <3>1, <3>2
  <2>4. CASE database = "SqlServer"
    <3>1. lastId' = lastId
      BY <1>3, <2>4 DEF RollBack
    <3> QED
      BY <2>1, <2>2, <2>4, <3>1
  <2> QED
    BY <2>3, <2>4
<1> QED
  BY <1>1, <1>2, <1>3

\* The steps of the loop, and the faults.
LEMMA MoveStep ==
  ASSUME UInv, Step \/ Fault \/ PowerLoss
  PROVE  UInv'
<1>0. fetched' = {}
  BY DEF Step, Fault, PowerLoss
<1> SUFFICES (PublicationTypeOK /\ Reading /\ OneWriter /\ Accounted)'
  BY <1>0, BufferEmptied DEF UInv
<1> USE PublisherAssumption
    DEF UInv, PublicationTypeOK, Reading, Control, OneWriter, Accounted, Behind, Ids, Null,
        history, Leave, TypeOK, Missing, Emptied
<1>1. CASE Step
  <2>1. CASE Start
    BY <1>0, <1>1, <2>1 DEF Step, Start
  <2>2. CASE ReadLastPublishedEventId
    BY <1>0, <1>1, <2>2 DEF Step, ReadLastPublishedEventId
  <2>3. CASE ReadEmptied
    BY <1>0, <1>1, <2>3 DEF Step, ReadEmptied, vars
  <2>4. CASE OpenReader
    BY <1>0, <1>1, <2>4 DEF Step, OpenReader
  <2>5. CASE EndBatch
    BY <1>0, <1>1, <2>5 DEF Step, EndBatch
  <2>6. CASE OpenDocument
    BY <1>0, <1>1, <2>6 DEF Step, OpenDocument
  <2>7. CASE WriteDocument
    BY <1>0, <1>1, <2>7 DEF Step, WriteDocument
  <2> QED
    BY <1>1, <2>1, <2>2, <2>3, <2>4, <2>5, <2>6, <2>7 DEF Step
<1>2. CASE Fault
  <2>1. CASE Throw
    BY <1>0, <1>2, <2>1 DEF Fault, Throw
  <2>2. CASE Crash
    BY <1>0, <1>2, <2>2 DEF Fault, Crash
  <2> QED
    BY <1>2, <2>1, <2>2 DEF Fault
<1>3. CASE PowerLoss
  <2>1. PICK k \in 0..lastId :
          /\ log' = {i \in log : i <= k}
          /\ lastId' = k
          /\ sent' = [i \in Ids |-> IF i <= k THEN sent[i] ELSE 0]
          /\ reissued' = {i \in reissued : i <= k}
    BY <1>3 DEF PowerLoss
  <2>2. /\ database = "SQLite" /\ faults' = faults + 1 /\ faults < MaxFaults
        /\ inserting' = {} /\ pc' = "down" /\ last' = Null
        /\ cursor' = 0 /\ snapshot' = {} /\ found' = 0
        /\ UNCHANGED <<database, doc, overtaken>>
    BY <1>3 DEF PowerLoss
  <2>3. PublicationTypeOK'
    <3>1. lastId' \in 0..MaxId /\ faults' \in 0..MaxFaults
      BY <2>1, <2>2
    <3>2. /\ log' \subseteq 1..MaxId /\ reissued' \subseteq 1..MaxId
          /\ \A i \in log' : i <= lastId'
      BY <2>1
    <3>3. sent' \in [1..MaxId -> Nat]
      BY <2>1
    <3> QED
      BY <1>0, <2>2, <3>1, <3>2, <3>3
  <2>4. Reading' /\ OneWriter'
    BY <2>2
  <2>5. Accounted'
    BY <2>1, <2>2
  <2> QED
    BY <2>3, <2>4, <2>5
<1> QED
  BY <1>1, <1>2, <1>3

\* The scan goes on to one more row.
LEMMA FetchStep ==
  ASSUME UInv, NEW i \in Ids, Fetch(i)
  PROVE  UInv'
<1> USE PublisherAssumption
    DEF UInv, PublicationTypeOK, Ids, TypeOK, Null, Missing, Emptied
<1> DEFINE new == [id |-> i, unseen |-> Unseen(i)]
<1>1. /\ pc = "publish" /\ i \in log /\ NotScanned(i)
      /\ \A j \in Shown : NotScanned(j) => i <= j
      /\ fetched' = fetched \union {new}
      /\ UNCHANGED <<log, lastId, doc, pc, last, cursor, snapshot, found, sent, faults>>
      /\ UNCHANGED <<database, inserting, overtaken, reissued>>
  BY DEF Fetch, vars, history
<1>0. \A p \in fetched : p.id \in Nat
  BY FetchedRows
<1>2. new \in [id : log, unseen : SUBSET Ids] /\ \A j \in Unseen(i) : j < i
  BY <1>1 DEF Unseen
<1>3. PublicationTypeOK'
  <2>1. fetched' \subseteq [id : log, unseen : SUBSET Ids]
    BY <1>1, <1>2
  <2> QED
    BY <1>1, <2>1
<1>4. Reading' /\ OneWriter' /\ Accounted'
  BY <1>1 DEF Reading, Control, OneWriter, Accounted, Behind
<1>5. Buffered'
  <2>1. \A r \in fetched' : cursor < r.id /\ \A j \in r.unseen : j < r.id
    BY <1>1, <1>2 DEF Buffered, NotScanned
  <2>2. ASSUME NEW r \in fetched', NEW j \in log \union inserting, cursor < j, j < r.id
        PROVE  \E q \in fetched' : q.id <= r.id /\ (j = q.id \/ j \in q.unseen)
    <3>1. /\ j \in Nat /\ r.id \in Nat /\ new.id = i
          /\ \A p \in fetched : p.id \in Nat
      <4>1. j \in Nat /\ i \in Nat
        OBVIOUS
      <4> QED
        BY <1>0, <1>1, <4>1
    <3>2. CASE \E p \in fetched : j <= p.id /\ p.id <= r.id
      <4>1. PICK p \in fetched : j <= p.id /\ p.id <= r.id
        BY <3>2
      <4>2. PICK q \in fetched : q.id <= p.id /\ (j = q.id \/ j \in q.unseen)
        <5>1. CASE j = p.id
          BY <3>1, <5>1
        <5>2. CASE j < p.id
          BY <2>2, <5>2 DEF Buffered
        <5> QED
          BY <3>1, <4>1, <5>1, <5>2
      <4>3. q.id <= r.id
        BY <3>1, <4>1, <4>2
      <4> QED
        BY <1>1, <4>2, <4>3
    <3>3. CASE \A p \in fetched : ~(j <= p.id /\ p.id <= r.id)
      <4>1. r = new
        BY <1>1, <2>2, <3>1, <3>3
      <4>2. NotScanned(j)
        <5>1. \A p \in fetched : p.id < i
          BY <1>1 DEF NotScanned
        <5>2. \A p \in fetched : p.id < j
          BY <3>1, <3>3, <4>1, <5>1
        <5> QED
          BY <2>2, <5>2 DEF NotScanned
      <4>3. ~(j \in log /\ j \in snapshot)
        <5>1. SUFFICES ASSUME j \in log, j \in snapshot PROVE FALSE
          OBVIOUS
        <5>2. i <= j
          BY <1>1, <4>2, <5>1 DEF Shown
        <5> QED
          BY <1>1, <2>2, <3>1, <4>1, <5>2
      <4>4. j \in Unseen(i)
        BY <2>2, <3>1, <4>1, <4>2, <4>3 DEF Unseen
      <4>5. new \in fetched' /\ new.id <= r.id /\ j \in new.unseen
        BY <1>1, <3>1, <4>1, <4>4
      <4> QED
        BY <4>5
    <3> QED
      BY <3>2, <3>3
  <2>3. \A p, q \in fetched' : p.id = q.id => p = q
    <3>1. \A p \in fetched : p.id \in Nat /\ p.id < i
      BY <1>0, <1>1 DEF NotScanned
    <3> QED
      BY <1>1, <3>1 DEF Buffered
  <2>4. pc' = "publish"
    BY <1>1
  <2> QED
    BY <1>1, <2>1, <2>2, <2>3, <2>4 DEF Buffered
<1> QED
  BY <1>3, <1>4, <1>5

\* A row is published, and what the scan left out before it is overtaken.
LEMMA OvertakeStep ==
  ASSUME UInv, PublishFetched
  PROVE  UInv'
<1> USE PublisherAssumption
    DEF UInv, PublicationTypeOK, Ids, TypeOK, Null, Missing, Emptied
<1>1. PICK r \in fetched :
        /\ \A q \in fetched : r.id <= q.id
        /\ sent' = [sent EXCEPT ![r.id] = @ + 1] /\ cursor' = r.id
        /\ fetched' = fetched \ {r}
        /\ overtaken' = overtaken \union r.unseen
        /\ found' = found + 1
        /\ UNCHANGED <<log, lastId, doc, pc, last, snapshot, faults>>
  BY DEF PublishFetched, Publish
<1>2. /\ pc = "publish" /\ found # BatchSize
      /\ UNCHANGED <<database, inserting, reissued>>
  BY DEF PublishFetched, BatchFull
<1>0. \A q \in fetched : q.id \in Nat
  BY FetchedRows
<1>3. PICK i \in 1..MaxId : i = r.id
  BY <1>1
<1>4. /\ cursor < i /\ i <= lastId /\ i \in log /\ i \notin inserting
      /\ r.unseen \subseteq 1..MaxId /\ \A j \in r.unseen : j < i
  BY <1>1, <1>3 DEF Buffered
\* What lies between the cursor and i was left out.
<1>5. \A j \in log \union inserting : cursor < j /\ j < i => j \in overtaken'
  <2> SUFFICES ASSUME NEW j \in log \union inserting, cursor < j, j < i
               PROVE  j \in overtaken'
    OBVIOUS
  <2>1. PICK q \in fetched : q.id <= r.id /\ (j = q.id \/ j \in q.unseen)
    BY <1>1, <1>3 DEF Buffered
  <2>2. r.id <= q.id
    BY <1>1
  <2>3. q.id = r.id
    BY <1>0, <2>1, <2>2
  <2>4. j # q.id /\ j \in Nat
    BY <1>3, <2>3
  <2>5. q = r
    BY <2>3, <1>1 DEF Buffered
  <2> QED
    BY <1>1, <2>1, <2>4, <2>5
<1>6. \A j \in 1..MaxId : sent'[j] = IF j = i THEN sent[j] + 1 ELSE sent[j]
  BY <1>1, <1>3
<1>7. PublicationTypeOK'
  <2>1. cursor' \in 0..MaxId /\ found' \in 0..BatchSize /\ sent' \in [1..MaxId -> Nat]
    BY <1>1, <1>2, <1>3
  <2>2. overtaken' \subseteq 1..MaxId
    BY <1>1, <1>4
  <2> QED
    BY <1>1, <1>2, <2>1, <2>2
<1>8. Reading' /\ OneWriter'
  BY <1>1, <1>2, <1>3, <1>4 DEF Reading, Control, OneWriter
<1>9. \A j \in log : Behind(j)' /\ sent'[j] = 0 => j \in overtaken' \union reissued'
  BY <1>1, <1>2, <1>3, <1>4, <1>5, <1>6 DEF Accounted, Behind, Reading, Control
<1>10. \A j \in inserting : Behind(j)' => j \in overtaken' \union reissued'
  BY <1>1, <1>2, <1>3, <1>4, <1>5 DEF Accounted, Behind
<1>11. Buffered'
  <2>1. \A p \in fetched' : p \in fetched /\ p # r /\ p.id \in Nat /\ i < p.id
    <3> SUFFICES ASSUME NEW p \in fetched'
                 PROVE  p \in fetched /\ p # r /\ p.id \in Nat /\ i < p.id
      OBVIOUS
    <3>1. p \in fetched /\ p # r
      BY <1>1
    <3>2. p.id # r.id /\ r.id <= p.id
      BY <1>1, <3>1 DEF Buffered
    <3> QED
      BY <1>0, <1>3, <3>1, <3>2
  <2>2. \A p \in fetched' : cursor' < p.id /\ \A j \in p.unseen : j < p.id
    BY <1>1, <1>3, <2>1 DEF Buffered
  <2>3. ASSUME NEW p \in fetched', NEW j \in log \union inserting, i < j, j < p.id
        PROVE  \E q \in fetched' : q.id <= p.id /\ (j = q.id \/ j \in q.unseen)
    <3>1. PICK q \in fetched : q.id <= p.id /\ (j = q.id \/ j \in q.unseen)
      <4>1. cursor < j
        BY <1>4, <2>3
      <4> QED
        BY <2>1, <2>3, <4>1 DEF Buffered
    <3>2. q # r
      BY <1>3, <1>4, <2>3, <3>1
    <3> QED
      BY <1>1, <3>1, <3>2
  <2>4. \A p, q \in fetched' : p.id = q.id => p = q
    BY <2>1 DEF Buffered
  <2> QED
    BY <1>1, <1>2, <1>3, <2>2, <2>3, <2>4 DEF Buffered
<1> QED
  BY <1>1, <1>2, <1>7, <1>8, <1>9, <1>10, <1>11 DEF Accounted

LEMMA PublicationInductive == UInv /\ [PublicationNext]_publicationVars => UInv'
<1> SUFFICES ASSUME UInv, [PublicationNext]_publicationVars PROVE UInv'
  OBVIOUS
<1>1. CASE UNCHANGED publicationVars
  BY <1>1 DEF publicationVars, vars, loopVars, history, UInv, PublicationTypeOK, TypeOK,
              Reading, Control, OneWriter, Buffered, Accounted, Behind
<1> QED
  BY <1>1, InsertStep, FetchStep, MoveStep, OvertakeStep DEF PublicationNext

LEMMA PublicationInvariance == PublicationSpec => []UInv
  BY PublicationInitially, PublicationInductive, PTL DEF PublicationSpec

\* Table, loop and document keep their types; ids are visible, under way or neither,
\* and in SQL Server nothing the loop stores is ahead of the identities given out.
THEOREM PublicationTypeCorrect == PublicationSpec => []PublicationTypeOK
  BY PublicationInvariance, PTL DEF UInv

\* The loop goes past a stored event without publishing it only if a reader opened
\* before the event was stored showed a higher id without it, or the id was given out
\* again after a power failure.
THEOREM OnlyUnseenAreSkipped == PublicationSpec => []SkippedOnlyIfUnseen
<1>1. UInv => SkippedOnlyIfUnseen
  <2> SUFFICES ASSUME UInv, NEW i \in log, Passed(i), sent[i] = 0
               PROVE  i \in overtaken \union reissued
    BY DEF SkippedOnlyIfUnseen
  <2>1. Behind(i)
    BY DEF Passed, Behind, Position, Null
  <2> QED
    BY <2>1 DEF UInv, Accounted
<1> QED
  BY <1>1, PublicationInvariance, PTL
================================================================================
