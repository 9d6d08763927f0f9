---------------------------- MODULE EventDelivery ----------------------------
(***************************************************************************)
(* From the event store to the queues of the subscribers: the publisher    *)
(* loop of EventStorePublisher with MessageBus.Publish in the place of its *)
(* external IEventPublisher, and on the message thread of the same process *)
(* the SubscribeCommands that change the list of subscribers meanwhile.    *)
(* Both threads open the one document with the subscribers of the event    *)
(* type, and FileDocumentStore opens files for one at a time: whoever      *)
(* comes second gets an exception.                                         *)
(*                                                                         *)
(* An exception that repeats for ever (a null registration out of an       *)
(* emptied file) is shown as standing still.  `copies' and `joined' are    *)
(* history: what each queue was sent, and the last id when a registration  *)
(* was first stored.                                                       *)
(***************************************************************************)
EXTENDS Integers, Sequences, SequencesExt

CONSTANTS
  Engine, Truncates, BatchSize, MaxId, MaxFaults,  \* see EventStorePublisher
  Subscribers,  \* the input queues of the subscribing processes
  MaxRequests   \* bound on the SubscribeCommands in the queue

ASSUME DeliveryAssumption ==
  /\ Engine \in {"SQLite", "SqlServer"}
  /\ Truncates \in BOOLEAN
  /\ BatchSize \in Nat \ {0}
  /\ MaxId \in Nat
  /\ MaxFaults \in Nat
  /\ MaxRequests \in Nat

VARIABLES
  log, lastId, doc, pc, last, cursor, snapshot, found, sent, faults,
  file,        \* the SubscriptionRegistration document: "missing", "emptied" or "written"
  registered,  \* SubscriberQueueNames in it
  call,        \* the call of IEventPublisher.Publish the publisher thread is in
  requests,    \* the SubscribeCommands in the input queue
  handler,     \* the call of AddSubscriber the message thread is in
  retries,     \* exceptions of the message thread so far, bounded by MaxFaults too
  copies,      \* how often each event was sent to each subscriber
  joined       \* lastId when the subscriber was registered, Null before

Publisher == INSTANCE EventStorePublisher

loopVars == <<log, lastId, doc, pc, last, cursor, snapshot, found, sent, faults>>
callVars == <<call, copies>>
handlerVars == <<registered, requests, handler, retries, joined>>
vars == <<loopVars, file, callVars, handlerVars>>

Ids == Publisher!Ids
Null == Publisher!Null

NoCall == [at |-> "none", event |-> 0, todo |-> <<>>]
Waiting == [at |-> "waiting", names |-> <<>>]

\* The variables keep their types; nobody sends while the list is unread.
TypeOK ==
  /\ Publisher!TypeOK
  /\ file \in {"missing", "emptied", "written"}
  /\ registered \in Seq(Subscribers)
  /\ call \in [at : {"none", "subscribers", "sending"}, event : Ids \union {0},
               todo : Seq(Subscribers)]
  /\ requests \in Seq(Subscribers)
  /\ handler \in [at : {"waiting", "put", "writing", "handled"}, names : Seq(Subscribers)]
  /\ retries \in 0..MaxFaults
  /\ copies \in [Subscribers -> [Ids -> Nat]]
  /\ joined \in [Subscribers -> Nat \union {Null}]
  /\ call.at # "none" => pc = "publish" /\ call.event \in log
  /\ handler.at # "waiting" => requests # <<>>

Init ==
  /\ Publisher!Init
  /\ file = "missing"
  /\ registered = <<>>
  /\ call = NoCall
  /\ requests = <<>>
  /\ handler = Waiting
  /\ retries = 0
  /\ copies = [s \in Subscribers |-> [i \in Ids |-> 0]]
  /\ joined = [s \in Subscribers |-> Null]

-----------------------------------------------------------------------------
(* The publisher thread.                                                   *)

\* The loop outside MessageBus.Publish, and the command handlers that feed it.
OutsidePublish ==
  /\ call = NoCall
  /\ \/ Publisher!Start
     \/ Publisher!ReadLastPublishedEventId
     \/ Publisher!OpenReader
     \/ Publisher!EndBatch
     \/ Publisher!OpenDocument
     \/ Publisher!WriteDocument
  /\ UNCHANGED <<file, callVars, handlerVars>>

StoreEvents ==
  /\ Publisher!AppendEvent \/ Publisher!SkipId
  /\ UNCHANGED <<file, callVars, handlerVars>>

(* The next row is read and handed to MessageBus.Publish.                  *)
CallPublish ==
  /\ pc = "publish"
  /\ call = NoCall
  /\ ~Publisher!BatchFull
  /\ \E i \in log : Publisher!IsNext(i) /\ call' = [NoCall EXCEPT !.at = "subscribers", !.event = i]
  /\ UNCHANGED <<loopVars, file, copies, handlerVars>>

(* GetSubscribers; without a document there are none.                      *)
GetSubscribers ==
  /\ call.at = "subscribers"
  /\ file # "emptied"
  /\ handler.at # "writing"
  /\ call' = [call EXCEPT !.at = "sending", !.todo = registered]
  /\ UNCHANGED <<loopVars, file, copies, handlerVars>>

(* One turn of the loop of MessageBus.Publish.                             *)
Send ==
  /\ call.at = "sending"
  /\ call.todo # <<>>
  /\ copies' = [copies EXCEPT ![Head(call.todo)][call.event] = @ + 1]
  /\ call' = [call EXCEPT !.todo = Tail(@)]
  /\ UNCHANGED <<loopVars, file, handlerVars>>

\* Mutant: a queue that cannot be reached does not stop the publisher.
PublishIgnoresFailures ==
  /\ call.at = "sending"
  /\ Publisher!PublishNext
  /\ call' = NoCall
  /\ UNCHANGED <<file, copies, handlerVars>>

(* MessageBus.Publish returns, PublishEvents moves on.                     *)
PublishReturns ==
  /\ call.at = "sending"
  /\ call.todo = <<>>
  /\ Publisher!PublishNext
  /\ call' = NoCall
  /\ UNCHANGED <<file, copies, handlerVars>>

(* Mutant: the loop takes up again behind the event that failed.           *)
ThrowSkipsEvent ==
  /\ call.at # "none"
  /\ faults < MaxFaults
  /\ faults' = faults + 1
  /\ pc' = "top"
  /\ last' = call.event
  /\ Publisher!Leave
  /\ call' = NoCall
  /\ UNCHANGED <<log, lastId, doc, sent, file, copies, handlerVars>>

(* An exception, a sharing violation for instance, ends the batch.         *)
Throw ==
  /\ Publisher!Throw
  /\ call' = NoCall
  /\ UNCHANGED <<file, copies, handlerVars>>

-----------------------------------------------------------------------------
(* The message thread.                                                     *)

(* A subscriber starts: AutoSubscribeToHandledMessages.                    *)
Subscribe(s) ==
  /\ Len(requests) < MaxRequests
  /\ requests' = Append(requests, s)
  /\ UNCHANGED <<loopVars, file, callVars, registered, handler, retries, joined>>

(* Mutant: a Peek that ended without a message is handled like one.        *)
ReadWithoutMessage ==
  /\ pc # "down"
  /\ handler.at = "waiting"
  /\ file # "emptied"
  /\ handler' = [at |-> "put", names |-> registered]
  /\ UNCHANGED <<loopVars, file, callVars, registered, requests, retries, joined>>

(* AddSubscriber: TryGet, or a new registration without a document.        *)
ReadRegistration ==
  /\ pc # "down"
  /\ handler.at = "waiting"
  /\ requests # <<>>
  /\ file # "emptied"
  /\ handler' = [at |-> "put", names |-> registered]
  /\ UNCHANGED <<loopVars, file, callVars, registered, requests, retries, joined>>

(* Put opens or creates the document, the serializer empties it.           *)
OpenForPut ==
  /\ handler.at = "put"
  /\ file' = IF Truncates \/ file = "missing" THEN "emptied" ELSE file
  /\ handler' = [handler EXCEPT !.at = "writing"]
  /\ UNCHANGED <<loopVars, callVars, registered, requests, retries, joined>>

\* Mutants: the list is not searched first; the list read is thrown away.
AddedTwice(names, s) == Append(names, s)
Replaced(names, s) == <<s>>

\* The name is added unless it is in the list.
Added(names, s) == IF Contains(names, s) THEN names ELSE Append(names, s)

WriteRegistration ==
  LET s == Head(requests) IN
  /\ handler.at = "writing"
  /\ registered' = Added(handler.names, s)
  /\ file' = "written"
  /\ handler' = [handler EXCEPT !.at = "handled"]
  /\ joined' = [joined EXCEPT ![s] = IF @ = Null THEN lastId ELSE @]
  /\ UNCHANGED <<loopVars, callVars, requests, retries>>

(* The handler has returned: ReceiveById removes the message.              *)
RemoveRequest ==
  /\ handler.at = "handled"
  /\ requests' = Tail(requests)
  /\ handler' = Waiting
  /\ UNCHANGED <<loopVars, file, callVars, registered, retries, joined>>

(* Mutant: a message that cannot be handled is removed.                    *)
HandlerDropsMessage ==
  /\ handler # Waiting
  /\ retries < MaxFaults
  /\ retries' = retries + 1
  /\ handler' = Waiting
  /\ requests' = Tail(requests)
  /\ UNCHANGED <<loopVars, file, callVars, registered, joined>>

(* The handler throws, the message stays: "Failure - try again".           *)
HandlerThrows ==
  /\ handler # Waiting
  /\ retries < MaxFaults
  /\ retries' = retries + 1
  /\ handler' = Waiting
  /\ UNCHANGED <<loopVars, file, callVars, registered, requests, joined>>

-----------------------------------------------------------------------------
(* The process is killed with both threads; files and queues stay.         *)
Crash ==
  /\ Publisher!Crash
  /\ call' = NoCall
  /\ handler' = Waiting
  /\ UNCHANGED <<file, copies, registered, requests, retries, joined>>

Loop ==
  \/ OutsidePublish \/ CallPublish \/ GetSubscribers \/ Send \/ PublishReturns

Handle == ReadRegistration \/ OpenForPut \/ WriteRegistration \/ RemoveRequest

Next ==
  \/ StoreEvents \/ Loop \/ Throw \/ Crash
  \/ \E s \in Subscribers : Subscribe(s)
  \/ Handle \/ HandlerThrows

Spec == Init /\ [][Next]_vars

\* Both threads keep running, a killed process is started again, and only
\* MaxFaults sharing violations, failed sends and crashes happen.  SubscribeCommands,
\* which arrive when a subscriber starts, do not keep the document in use for ever.
FairSpec ==
  Spec /\ WF_vars(Loop) /\ WF_vars(Handle) /\ SF_vars(GetSubscribers)

-----------------------------------------------------------------------------
\* Publish as the publisher loop sees it is one atomic step that may throw:
\* what was checked and proved of EventStorePublisher holds here.
ImplementsPublisher == Publisher!Spec

Received(s, i) == copies[s][i] > 0

\* Once the loop has moved past an event, every subscriber whose registration
\* was stored before the event was has a copy: neither a partially sent event
\* nor a registration lost between TryGet and Put leaves one out.
NoSubscriberIsMissed ==
  \A s \in Subscribers : \A i \in log :
     joined[s] # Null /\ joined[s] < i /\ sent[i] > 0 => Received(s, i)

\* No gaps: a subscriber that has received an event has received every later one
\* up to where the loop stands, whether it joined in time, late or in the middle
\* of a batch that is being repeated.  (Ahead of the loop there may be gaps: who
\* joins between events 2 and 3 gets 3, and when the loop has fallen back to the
\* start, 1 before 2.)
ReceivedWithoutGaps ==
  \A s \in Subscribers : \A i, j \in log :
     i < j /\ j <= Publisher!Position /\ Received(s, i) => Received(s, j)

\* A subscriber gets an event a second time only if something failed, even when
\* its SubscribeCommand was handled twice.
CopiesNeedFaults == \A s \in Subscribers : \A i \in Ids : copies[s][i] <= 1 + faults

\* An emptied document that nobody is writing stops the thread that needs it for good.
Stuck == (file = "emptied" /\ handler.at # "writing") \/ (doc = Publisher!Emptied /\ last = Null)

\* A subscriber in the queue gets registered.
EventuallyRegistered ==
  \A s \in Subscribers : Contains(requests, s) ~> (joined[s] # Null \/ Stuck)

\* A registered subscriber gets every event stored from then on.
EventuallyDelivered ==
  \A s \in Subscribers : \A i \in Ids :
     (joined[s] # Null /\ joined[s] < i /\ i \in log) ~> (Received(s, i) \/ Stuck)
=============================================================================
