--------------------------- MODULE EventPublication ---------------------------
(***************************************************************************)
(* The publisher loop over a table whose ids do not become visible in the  *)
(* order in which they are given out.  SQL Server gives an INSERT its      *)
(* identity before the row can be read, so that of two processes the one   *)
(* with the higher id may be first; SQLite keeps ids and rows together but *)
(* loses the end of both in a power failure (PRAGMA synchronous=OFF), and  *)
(* gives the same ids out again.                                           *)
(*                                                                         *)
(* Allocate, Commit, RollBack and PowerLoss stand for AppendEvent and      *)
(* SkipId, which are one step each (Engine plays no part here).  Fetch and *)
(* PublishFetched stand for PublishNext: SqlDataReader takes rows over in  *)
(* advance, while the loop is still publishing those before.               *)
(*                                                                         *)
(* `overtaken' and `reissued' are history: the ids that the loop cannot    *)
(* have seen.                                                              *)
(***************************************************************************)
EXTENDS EventStorePublisher

VARIABLES
  database,   \* SQL Server or SQLite, of which a process has one
  inserting,  \* the ids of the INSERTs under way, in all processes
  fetched,    \* the rows taken over by the reader and not yet published, each with
              \* the lower ids that the scan had left out when it came to the row
  overtaken,  \* the ids left out before a row that was published
  reissued    \* the ids given out again that a saved document had accounted for

loopVars == <<doc, pc, last, cursor, snapshot, found>>
history == <<overtaken, reissued>>
publicationVars == <<vars, database, inserting, fetched, history>>

\* The variables keep their types; an id is visible, under way or neither, and
\* the loop may be ahead of the table only after a power failure.
PublicationTypeOK ==
  /\ database \in {"SQLite", "SqlServer"}
  /\ TypeOK
  /\ inserting \subseteq Ids \ log
  /\ fetched \subseteq [id : log, unseen : SUBSET Ids]
  /\ overtaken \subseteq Ids /\ reissued \subseteq Ids
  /\ \A i \in log \union inserting : i <= lastId
  /\ database = "SqlServer" => doc <= lastId /\ last <= lastId

PublicationInit ==
  /\ database \in {"SQLite", "SqlServer"}
  /\ Init
  /\ inserting = {}
  /\ fetched = {}
  /\ overtaken = {}
  /\ reissued = {}

-----------------------------------------------------------------------------
(* An INSERT gets its identity: the next one, in SQLite too since the      *)
(* sequence lost its end with the table.                                   *)
Allocate ==
  /\ lastId < MaxId
  /\ database = "SQLite" => inserting = {}
  /\ lastId' = lastId + 1
  /\ inserting' = inserting \union {lastId + 1}
  /\ reissued' = IF lastId + 1 <= Position \/ lastId + 1 <= doc
                 THEN reissued \union {lastId + 1} ELSE reissued
  /\ UNCHANGED <<database, log, loopVars, fetched, sent, faults, overtaken>>

(* Its row can be read.                                                    *)
Commit(i) ==
  /\ i \in inserting
  /\ inserting' = inserting \ {i}
  /\ log' = log \union {i}
  /\ UNCHANGED <<database, lastId, loopVars, fetched, sent, faults, history>>

(* The unique index refuses it, or its process dies: SQL Server does not   *)
(* take the identity back, SQLite does.                                    *)
RollBack(i) ==
  /\ i \in inserting
  /\ inserting' = inserting \ {i}
  /\ lastId' = IF database = "SQLite" THEN lastId - 1 ELSE lastId
  /\ UNCHANGED <<database, log, loopVars, fetched, sent, faults, history>>

\* The scan of the open reader, in the order of ids, has not come to i.
NotScanned(i) == cursor < i /\ \A r \in fetched : r.id < i

\* What a scan going past it must show: in SQLite all that is stored, since no INSERT
\* gets in between another one and its commit; in SQL Server, at any isolation level
\* and whatever it has buffered, only what was there when the reader was opened.
Shown == IF database = "SQLite" THEN log ELSE snapshot

\* The ids below i that the scan leaves out as it comes to row i.
Unseen(i) == {j \in inserting \union (log \ snapshot) : NotScanned(j) /\ j < i}

(* The reader takes over one more row.                                     *)
Fetch(i) ==
  /\ pc = "publish"
  /\ i \in log /\ NotScanned(i)
  /\ \A j \in Shown : NotScanned(j) => i <= j
  /\ fetched' = fetched \union {[id |-> i, unseen |-> Unseen(i)]}
  /\ UNCHANGED <<vars, database, inserting, history>>

(* Read returns the next row and the loop publishes it.  What was not to   *)
(* be seen before it is behind the loop from now on.                       *)
PublishFetched ==
  /\ pc = "publish"
  /\ ~BatchFull
  /\ \E r \in fetched :
       /\ \A q \in fetched : r.id <= q.id
       /\ Publish(r.id)
       /\ fetched' = fetched \ {r}
       /\ overtaken' = overtaken \union r.unseen
  /\ UNCHANGED <<database, inserting, reissued>>

(* The rest of the loop; the foreach ends at its count or with the rows.   *)
(* The reader is disposed, and what it had taken over is dropped.          *)
Step ==
  /\ \/ Start
     \/ ReadLastPublishedEventId
     \/ ReadEmptied
     \/ OpenReader
     \/ EndBatch /\ (BatchFull \/ fetched = {})
     \/ OpenDocument
     \/ WriteDocument
  /\ fetched' = {}
  /\ UNCHANGED <<database, inserting, history>>

(* Its exceptions and the death of its process.                            *)
Fault ==
  /\ Throw \/ Crash
  /\ fetched' = {}
  /\ UNCHANGED <<database, inserting, history>>

(* The machine goes down.  The rows after id k are gone and with them      *)
(* every trace of their ids; the document was on disk.                     *)
PowerLoss ==
  /\ database = "SQLite"
  /\ faults < MaxFaults
  /\ faults' = faults + 1
  /\ \E k \in 0..lastId :
       /\ log' = {i \in log : i <= k}
       /\ lastId' = k
       /\ sent' = [i \in Ids |-> IF i <= k THEN sent[i] ELSE 0]
       /\ reissued' = {i \in reissued : i <= k}
  /\ inserting' = {}
  /\ fetched' = {}
  /\ pc' = "down"
  /\ last' = Null
  /\ Leave
  /\ UNCHANGED <<database, doc, overtaken>>

PublicationNext ==
  \/ Allocate
  \/ \E i \in Ids : Commit(i) \/ RollBack(i) \/ Fetch(i)
  \/ PublishFetched \/ Step \/ Fault \/ PowerLoss

PublicationSpec == PublicationInit /\ [][PublicationNext]_publicationVars

\* The loop keeps running, INSERTs end, a dead process is started again.
FairPublicationSpec ==
  /\ PublicationSpec
  /\ WF_publicationVars((\E i \in Ids : Fetch(i)) \/ PublishFetched \/ Step)
  /\ \A i \in Ids : WF_publicationVars(Commit(i) \/ RollBack(i))

-----------------------------------------------------------------------------
Passed(i) == i <= Position \/ i <= doc

\* The loop goes past a stored event without publishing it in two cases only: a
\* reader that was opened before the event was stored came to a higher id without
\* showing it, or the id was given out a second time.  Nothing else (no batch limit,
\* no row fetched and dropped, exception, crash, gap in the ids) makes it skip one.
SkippedOnlyIfUnseen ==
  \A i \in log : Passed(i) /\ sent[i] = 0 => i \in overtaken \union reissued

\* Every other event is published in the end.
EventuallyPublishedIfSeen ==
  \A i \in Ids :
     i \in log ~> \/ sent[i] > 0
                  \/ i \notin log
                  \/ i \in overtaken \union reissued
                  \/ doc = Emptied /\ last = Null
=============================================================================
