------------------------- MODULE EventDelivery_proofs -------------------------
(***************************************************************************)
(* EventDelivery implements the publisher loop; no subscriber is left out, *)
(* has gaps or gets more copies than faults account for.  For any number   *)
(* of subscribers, events, exceptions and crashes.                         *)
(***************************************************************************)
EXTENDS EventDelivery, TLAPS

\* The theorems about the loop, which has a database to itself here: its ids are
\* visible as soon as they are given out.
Loops == INSTANCE EventPublication_proofs WITH
  database <- Engine, inserting <- {}, fetched <- {}, overtaken <- {},
  reissued <- {}

\* Ids are handed out in order, to events as to the registrations they follow.
Ordered ==
  /\ \A i \in log : i <= lastId
  /\ \A i \in Ids : sent[i] > 0 => i \in log
  /\ \A s \in Subscribers : joined[s] <= lastId

\* A registration is only ever added to: the list in the document, and the copy
\* the message thread is about to put, hold everyone who was registered.
Registrations ==
  /\ \A s \in Subscribers : joined[s] # Null => Contains(registered, s)
  /\ handler.at \in {"put", "writing"} => handler.names = registered

\* The event that is being published is the next one, and whoever is to have it
\* is still on the list of this call or has it.
Calls ==
  /\ call.at # "none" => Publisher!IsNext(call.event)
  /\ call.at = "sending" =>
       \A s \in Subscribers :
          joined[s] # Null /\ joined[s] < call.event =>
            Contains(call.todo, s) \/ Received(s, call.event)

DInv ==
  /\ TypeOK
  /\ Ordered
  /\ Registrations
  /\ Calls
  /\ NoSubscriberIsMissed

-----------------------------------------------------------------------------
\* Every step of the process is a step of the loop with an atomic Publish, or one
\* the loop does not notice.
THEOREM Refinement == Spec => Publisher!Spec
<1>1. Init => Publisher!Init
  BY DEF Init
<1>2. [Next]_vars => [Publisher!Next]_Publisher!vars
  <2> SUFFICES ASSUME [Next]_vars PROVE [Publisher!Next]_Publisher!vars
    OBVIOUS
  <2>1. CASE StoreEvents
    BY <2>1 DEF StoreEvents, Publisher!Next
  <2>2. CASE OutsidePublish
    BY <2>2 DEF OutsidePublish, Publisher!Next, Publisher!Loop
  <2>3. CASE PublishReturns
    BY <2>3 DEF PublishReturns, Publisher!Next, Publisher!Loop
  <2>4. CASE CallPublish \/ GetSubscribers \/ Send
    BY <2>4 DEF CallPublish, GetSubscribers, Send, loopVars, Publisher!vars
  <2>5. CASE Throw
    BY <2>5 DEF Throw, Publisher!Next
  <2>6. CASE Crash
    BY <2>6 DEF Crash, Publisher!Next
  <2>7. ASSUME NEW s \in Subscribers, Subscribe(s) PROVE UNCHANGED Publisher!vars
    BY <2>7 DEF Subscribe, loopVars, Publisher!vars
  <2>8. CASE Handle \/ HandlerThrows
    BY <2>8
    DEF Handle, HandlerThrows, ReadRegistration, OpenForPut, WriteRegistration, RemoveRequest,
        loopVars, Publisher!vars
  <2>9. CASE UNCHANGED vars
    BY <2>9 DEF vars, loopVars, Publisher!vars
  <2> QED
    BY <2>1, <2>2, <2>3, <2>4, <2>5, <2>6, <2>7, <2>8, <2>9 DEF Next, Loop
<1> QED
  BY <1>1, <1>2, PTL DEF Spec, Publisher!Spec

\* The same in the words of the run: MessageBus.Publish with the registrations beside
\* it is a publisher such as the loop expects.
THEOREM PublisherIsImplemented == Spec => ImplementsPublisher
BY Refinement DEF ImplementsPublisher

-----------------------------------------------------------------------------
\* The lists of subscribers are sequences of subscribers.
LEMMA AddedIsThere ==
  ASSUME NEW names \in Seq(Subscribers), NEW s \in Subscribers
  PROVE  /\ Added(names, s) \in Seq(Subscribers)
         /\ Contains(Added(names, s), s)
         /\ \A q : Contains(names, q) => Contains(Added(names, s), q)
<1>1. CASE Contains(names, s)
  BY <1>1 DEF Added
<1>2. CASE ~Contains(names, s)
  <2>1. Added(names, s) = Append(names, s)
    BY <1>2 DEF Added
  <2>2. /\ Append(names, s) \in Seq(Subscribers)
        /\ Len(Append(names, s)) = Len(names) + 1
        /\ Append(names, s)[Len(names) + 1] = s
        /\ \A k \in 1..Len(names) : Append(names, s)[k] = names[k]
    OBVIOUS
  <2>3. Len(names) \in Nat
    OBVIOUS
  <2> QED
    BY <2>1, <2>2, <2>3 DEF Contains
<1> QED
  BY <1>1, <1>2

LEMMA TailKeepsTheRest ==
  ASSUME NEW names \in Seq(Subscribers), names # <<>>
  PROVE  /\ Head(names) \in Subscribers
         /\ Tail(names) \in Seq(Subscribers)
         /\ \A q : Contains(names, q) /\ q # Head(names) => Contains(Tail(names), q)
<1>1. /\ Head(names) \in Subscribers /\ Head(names) = names[1]
      /\ Tail(names) \in Seq(Subscribers) /\ Len(Tail(names)) = Len(names) - 1
      /\ \A k \in 1..Len(names) - 1 : Tail(names)[k] = names[k + 1]
  OBVIOUS
<1>2. ASSUME NEW q, NEW k \in 1..Len(names), names[k] = q, q # names[1]
      PROVE  Contains(Tail(names), q)
  <2>1. k - 1 \in 1..Len(Tail(names)) /\ Tail(names)[k - 1] = names[k]
    BY <1>1, <1>2
  <2> QED
    BY <1>2, <2>1 DEF Contains
<1> QED
  BY <1>1, <1>2 DEF Contains

\* The loop keeps its types (every step but PublishNext).
LEMMA LoopTypes ==
  ASSUME Publisher!TypeOK,
         \/ Publisher!AppendEvent \/ Publisher!SkipId \/ Publisher!Start
         \/ Publisher!ReadLastPublishedEventId \/ Publisher!OpenReader \/ Publisher!EndBatch
         \/ Publisher!OpenDocument \/ Publisher!WriteDocument
         \/ Publisher!Throw \/ Publisher!Crash
  PROVE  Publisher!TypeOK'
<1> USE DeliveryAssumption
    DEF Publisher!TypeOK, Publisher!Ids, Publisher!Missing, Publisher!Emptied, Publisher!Null,
        Publisher!Leave
<1>1. CASE Publisher!AppendEvent
  BY <1>1 DEF Publisher!AppendEvent
<1>2. CASE Publisher!SkipId
  BY <1>2 DEF Publisher!SkipId
<1>3. CASE Publisher!Start
  BY <1>3 DEF Publisher!Start
<1>4. CASE Publisher!ReadLastPublishedEventId
  BY <1>4 DEF Publisher!ReadLastPublishedEventId
<1>5. CASE Publisher!OpenReader
  BY <1>5 DEF Publisher!OpenReader
<1>6. CASE Publisher!EndBatch
  BY <1>6 DEF Publisher!EndBatch
<1>7. CASE Publisher!OpenDocument
  BY <1>7 DEF Publisher!OpenDocument
<1>8. CASE Publisher!WriteDocument
  BY <1>8 DEF Publisher!WriteDocument
<1>9. CASE Publisher!Throw
  BY <1>9 DEF Publisher!Throw
<1>10. CASE Publisher!Crash
  BY <1>10 DEF Publisher!Crash
<1> QED
  BY <1>1, <1>2, <1>3, <1>4, <1>5, <1>6, <1>7, <1>8, <1>9, <1>10

\* A thread that is in no call has a well-typed one.
LEMMA Idle ==
  /\ NoCall \in [at : {"none", "subscribers", "sending"}, event : Ids \union {0},
                 todo : Seq(Subscribers)]
  /\ Waiting \in [at : {"waiting", "put", "writing", "handled"}, names : Seq(Subscribers)]
  /\ NoCall.at = "none" /\ Waiting.at = "waiting"
<1>1. <<>> \in Seq(Subscribers)
  OBVIOUS
<1> QED
  BY <1>1 DEF NoCall, Waiting

LEMMA Initial == Init => DInv
BY DeliveryAssumption
DEF Init, DInv, TypeOK, Ordered, Registrations, Calls, NoSubscriberIsMissed, NoCall, Waiting,
    Ids, Null, Publisher!Init, Publisher!TypeOK, Publisher!Ids, Publisher!Missing,
    Publisher!Emptied, Publisher!Null

\* A step that moves neither the loop nor the registration.
LEMMA Quiet ==
  ASSUME DInv, TypeOK',
         UNCHANGED <<log, lastId, pc, cursor, sent, call, copies, registered, joined>>,
         handler'.at \in {"put", "writing"} => handler'.names = registered
  PROVE  DInv'
<1>1. Ordered'
  BY DEF DInv, Ordered
<1>2. Registrations'
  BY DEF DInv, Registrations, Contains
<1>3. Calls'
  BY DEF DInv, Calls, Received, Contains, Publisher!IsNext, Publisher!Unread
<1>4. NoSubscriberIsMissed'
  BY DEF DInv, NoSubscriberIsMissed, Received
<1> QED
  BY <1>1, <1>2, <1>3, <1>4 DEF DInv

\* Command handlers: a new event has been sent to nobody and follows all others.
LEMMA StoreStep ==
  ASSUME DInv, StoreEvents
  PROVE  DInv'
<1>1. TypeOK'
  <2>1. Publisher!TypeOK'
    BY LoopTypes DEF StoreEvents, DInv, TypeOK
  <2> QED
    BY <2>1
    DEF StoreEvents, DInv, TypeOK, callVars, handlerVars, Publisher!AppendEvent, Publisher!SkipId
<1>2. /\ lastId \in Nat /\ lastId' = lastId + 1
      /\ log' \in {log, log \union {lastId + 1}}
      /\ UNCHANGED <<cursor, sent, call, copies, registered, handler, joined>>
  BY DeliveryAssumption
  DEF StoreEvents, DInv, TypeOK, callVars, handlerVars, Publisher!AppendEvent, Publisher!SkipId,
      Publisher!TypeOK
<1>3. Ordered'
  <2>1. \A i \in log : i \in Int
    BY DeliveryAssumption DEF DInv, TypeOK, Publisher!TypeOK, Publisher!Ids
  <2>2. \A s \in Subscribers : joined[s] \in Int
    BY DEF DInv, TypeOK, Null, Publisher!Null
  <2> QED
    BY <1>2, <2>1, <2>2 DEF DInv, Ordered
<1>4. Registrations'
  BY <1>2 DEF DInv, Registrations, Contains
<1>5. Calls'
  <2>1. ASSUME NEW i \in log, Publisher!IsNext(i) PROVE Publisher!IsNext(i)'
    <3>1. i \in Int /\ i <= lastId
      BY DeliveryAssumption DEF DInv, Ordered, TypeOK, Publisher!TypeOK, Publisher!Ids
    <3> QED
      BY <1>2, <2>1, <3>1 DEF Publisher!IsNext, Publisher!Unread
  <2>2. call.at # "none" => Publisher!IsNext(call.event)'
    <3>1. call.at # "none" => call.event \in log /\ Publisher!IsNext(call.event)
      BY DEF DInv, Calls, TypeOK
    <3> QED
      BY <1>2, <2>1, <3>1 DEF Publisher!IsNext, Publisher!Unread
  <2>3. call.at = "sending" =>
          \A s \in Subscribers :
             joined[s] # Null /\ joined[s] < call.event =>
               Contains(call.todo, s) \/ Received(s, call.event)
    BY DEF DInv, Calls
  <2> QED
    BY <1>2, <2>2, <2>3 DEF Calls, Received, Contains, Null, Publisher!Null
<1>6. NoSubscriberIsMissed'
  <2>1. \A i \in log' : sent[i] > 0 => i \in log
    BY <1>1, <1>2 DEF DInv, Ordered, TypeOK, Publisher!TypeOK, Ids
  <2> QED
    BY <1>2, <2>1 DEF DInv, NoSubscriberIsMissed, Received
<1> QED
  BY <1>1, <1>3, <1>4, <1>5, <1>6 DEF DInv

\* The loop between two calls of Publish.
LEMMA OutsideStep ==
  ASSUME DInv, OutsidePublish
  PROVE  DInv'
<1>1. TypeOK'
  <2>1. Publisher!TypeOK'
    BY LoopTypes DEF OutsidePublish, DInv, TypeOK
  <2> QED
    BY <2>1 DEF OutsidePublish, DInv, TypeOK, callVars, handlerVars, NoCall
<1>2. /\ UNCHANGED <<log, lastId, sent, call, copies, registered, handler, joined>>
      /\ call.at = "none"
  BY DEF OutsidePublish, callVars, handlerVars, NoCall, Publisher!Start,
         Publisher!ReadLastPublishedEventId, Publisher!OpenReader, Publisher!EndBatch,
         Publisher!OpenDocument, Publisher!WriteDocument
<1>3. Ordered' /\ Registrations' /\ Calls' /\ NoSubscriberIsMissed'
  BY <1>2
  DEF DInv, Ordered, Registrations, Calls, NoSubscriberIsMissed, Received, Contains
<1> QED
  BY <1>1, <1>3 DEF DInv

LEMMA CallStep ==
  ASSUME DInv, CallPublish
  PROVE  DInv'
<1>1. PICK i \in log : Publisher!IsNext(i) /\ call' = [NoCall EXCEPT !.at = "subscribers", !.event = i]
  BY DEF CallPublish
<1>2. call' = [at |-> "subscribers", event |-> i, todo |-> <<>>]
  BY <1>1 DEF NoCall
<1>3. UNCHANGED <<loopVars, file, copies, handlerVars>> /\ pc = "publish"
  BY DEF CallPublish
<1>4. TypeOK'
  <2>1. i \in Ids
    BY DEF DInv, TypeOK, Publisher!TypeOK, Ids
  <2>2. call' \in [at : {"none", "subscribers", "sending"}, event : Ids \union {0},
                   todo : Seq(Subscribers)]
    BY <1>2, <2>1
  <2>3. Publisher!TypeOK'
    BY <1>3 DEF DInv, TypeOK, loopVars, Publisher!TypeOK
  <2> QED
    BY <1>2, <1>3, <2>2, <2>3 DEF DInv, TypeOK, loopVars, handlerVars
<1>5. Ordered' /\ Registrations' /\ Calls' /\ NoSubscriberIsMissed'
  BY <1>1, <1>2, <1>3
  DEF DInv, Ordered, Registrations, Calls, NoSubscriberIsMissed, Received, Contains, loopVars,
      handlerVars, Publisher!IsNext, Publisher!Unread
<1> QED
  BY <1>4, <1>5 DEF DInv

\* Everyone registered before the event was stored is on the list that is read.
LEMMA SubscribersStep ==
  ASSUME DInv, GetSubscribers
  PROVE  DInv'
<1>1. /\ call.at = "subscribers"
      /\ call' = [call EXCEPT !.at = "sending", !.todo = registered]
      /\ UNCHANGED <<loopVars, file, copies, handlerVars>>
  BY DEF GetSubscribers
<1>2. call'.at = "sending" /\ call'.todo = registered /\ call'.event = call.event
  BY <1>1 DEF DInv, TypeOK
<1>3. TypeOK'
  BY <1>1 DEF DInv, TypeOK, loopVars, handlerVars, Publisher!TypeOK
<1>4. Ordered' /\ Registrations' /\ Calls' /\ NoSubscriberIsMissed'
  BY <1>1, <1>2
  DEF DInv, Ordered, Registrations, Calls, NoSubscriberIsMissed, Received, Contains, loopVars,
      handlerVars, Publisher!IsNext, Publisher!Unread
<1> QED
  BY <1>3, <1>4 DEF DInv

LEMMA SendStep ==
  ASSUME DInv, Send
  PROVE  DInv'
<1> DEFINE s == Head(call.todo)  i == call.event
<1>1. /\ call.at = "sending" /\ call.todo # <<>>
      /\ copies' = [copies EXCEPT ![s][i] = @ + 1]
      /\ call' = [call EXCEPT !.todo = Tail(@)]
      /\ UNCHANGED <<loopVars, file, handlerVars>>
  BY DEF Send
<1>2. call.todo \in Seq(Subscribers) /\ i \in log /\ i \in Ids
  BY <1>1 DEF DInv, TypeOK, Publisher!TypeOK, Ids
<1>3. call'.at = "sending" /\ call'.todo = Tail(call.todo) /\ call'.event = i
  BY <1>1 DEF DInv, TypeOK
<1>4. s \in Subscribers /\ Tail(call.todo) \in Seq(Subscribers)
  BY <1>1, <1>2, TailKeepsTheRest
<1>5. TypeOK'
  <2>1. call' \in [at : {"none", "subscribers", "sending"}, event : Ids \union {0},
                   todo : Seq(Subscribers)]
    BY <1>1, <1>4 DEF DInv, TypeOK
  <2>2. copies' \in [Subscribers -> [Ids -> Nat]]
    <3>1. copies \in [Subscribers -> [Ids -> Nat]]
      BY DEF DInv, TypeOK
    <3>2. [copies[s] EXCEPT ![i] = @ + 1] \in [Ids -> Nat]
      BY <1>2, <1>4, <3>1
    <3> QED
      BY <1>1, <1>4, <3>1, <3>2
  <2>3. Publisher!TypeOK'
    BY <1>1 DEF DInv, TypeOK, loopVars, Publisher!TypeOK
  <2> QED
    BY <1>1, <1>3, <2>1, <2>2, <2>3 DEF DInv, TypeOK, loopVars, handlerVars
<1>6. \A q \in Subscribers, j \in Ids :
        Received(q, j)' <=> Received(q, j) \/ (q = s /\ j = i)
  <2>1. copies \in [Subscribers -> [Ids -> Nat]]
    BY DEF DInv, TypeOK
  <2>2. copies[s] \in [Ids -> Nat] /\ copies[s][i] \in Nat
    BY <1>2, <1>4, <2>1
  <2>3. copies' = [copies EXCEPT ![s] = [copies[s] EXCEPT ![i] = copies[s][i] + 1]]
    BY <1>1
  <2>4. \A q \in Subscribers : q # s => copies'[q] = copies[q]
    BY <1>4, <2>1, <2>3
  <2>5. \A j \in Ids : copies'[s][j] = IF j = i THEN copies[s][i] + 1 ELSE copies[s][j]
    BY <1>2, <1>4, <2>1, <2>2, <2>3
  <2> QED
    BY <1>2, <1>4, <2>2, <2>4, <2>5 DEF Received
<1>7. Ordered' /\ Registrations' /\ NoSubscriberIsMissed'
  BY <1>1, <1>6
  DEF DInv, Ordered, Registrations, NoSubscriberIsMissed, TypeOK, Contains, loopVars,
      handlerVars, Publisher!TypeOK, Ids
<1>8. Calls'
  <2>1. Publisher!IsNext(call.event)'
    <3>1. Publisher!IsNext(i)
      BY <1>1 DEF DInv, Calls
    <3> QED
      BY <1>1, <1>3, <3>1 DEF loopVars, Publisher!IsNext, Publisher!Unread
  <2>2. ASSUME NEW q \in Subscribers, joined[q] # Null, joined[q] < i
        PROVE  Contains(Tail(call.todo), q) \/ Received(q, i)'
    BY <1>1, <1>2, <1>6, <2>2, TailKeepsTheRest DEF DInv, Calls
  <2> QED
    BY <1>1, <1>3, <2>1, <2>2 DEF Calls, handlerVars, Received, Contains, Null, Publisher!Null
<1> QED
  BY <1>5, <1>7, <1>8 DEF DInv

LEMMA ReturnStep ==
  ASSUME DInv, PublishReturns
  PROVE  DInv'
<1>1. PICK i \in log :
        /\ Publisher!IsNext(i)
        /\ sent' = [sent EXCEPT ![i] = @ + 1]
        /\ cursor' = i
  BY DEF PublishReturns, Publisher!PublishNext, Publisher!Publish
<1>2. /\ call.at = "sending" /\ call.todo = <<>> /\ call' = NoCall
      /\ pc = "publish" /\ found # BatchSize /\ found' = found + 1
      /\ UNCHANGED <<log, lastId, doc, pc, last, snapshot, faults, file, copies, handlerVars>>
  BY DEF PublishReturns, Publisher!PublishNext, Publisher!Publish, Publisher!BatchFull
<1>3. TypeOK'
  <2>1. Publisher!TypeOK'
    <3>1. Publisher!TypeOK
      BY DEF DInv, TypeOK
    <3>2. sent' \in [Publisher!Ids -> Nat]
      BY <1>1, <3>1 DEF Publisher!TypeOK
    <3>3. found' \in 0..BatchSize /\ cursor' \in 0..MaxId
      BY <1>1, <1>2, <3>1, DeliveryAssumption DEF Publisher!TypeOK, Publisher!Ids
    <3> QED
      BY <1>2, <3>1, <3>2, <3>3 DEF Publisher!TypeOK
  <2>2. call' \in [at : {"none", "subscribers", "sending"}, event : Ids \union {0},
                   todo : Seq(Subscribers)]
    BY <1>2, Idle
  <2> QED
    BY <1>2, <2>1, <2>2 DEF DInv, TypeOK, NoCall, handlerVars
<1>4. i = call.event /\ i \in Ids
  BY <1>1, <1>2
  DEF DInv, Calls, Publisher!IsNext, Publisher!Unread, TypeOK, Publisher!TypeOK, Publisher!Ids, Ids
<1>5. \A q \in Subscribers : joined[q] # Null /\ joined[q] < i => Received(q, i)
  BY <1>2, <1>4 DEF DInv, Calls, Contains
<1>6. \A j \in Ids : sent'[j] > 0 => sent[j] > 0 \/ j = i
  BY <1>1, <1>4 DEF DInv, TypeOK, Publisher!TypeOK, Ids
<1>7. Ordered' /\ Registrations' /\ Calls'
  BY <1>1, <1>2, <1>6
  DEF DInv, Ordered, Registrations, Calls, Contains, NoCall, handlerVars
<1>8. NoSubscriberIsMissed'
  BY <1>2, <1>5, <1>6
  DEF DInv, NoSubscriberIsMissed, Received, TypeOK, Publisher!TypeOK, Ids, handlerVars
<1> QED
  BY <1>3, <1>7, <1>8 DEF DInv

\* A call that fails half-way leaves what it sent, and nothing is published.
LEMMA FaultStep ==
  ASSUME DInv, Throw \/ Crash
  PROVE  DInv'
<1>1. TypeOK'
  <2>1. Publisher!TypeOK'
    BY LoopTypes DEF Throw, Crash, DInv, TypeOK
  <2>2. /\ call' = NoCall
        /\ call' \in [at : {"none", "subscribers", "sending"}, event : Ids \union {0},
                      todo : Seq(Subscribers)]
    BY Idle DEF Throw, Crash
  <2>3. handler' \in {handler, Waiting}
    BY DEF Throw, Crash, handlerVars
  <2>4. /\ handler' \in [at : {"waiting", "put", "writing", "handled"}, names : Seq(Subscribers)]
        /\ handler'.at # "waiting" => requests # <<>>
    BY <2>3, Idle DEF DInv, TypeOK, Throw, Crash, handlerVars
  <2> QED
    BY <2>1, <2>2, <2>4 DEF Throw, Crash, DInv, TypeOK, NoCall, handlerVars
<1>2. /\ UNCHANGED <<log, lastId, sent, copies, registered, joined>>
      /\ call' = NoCall
      /\ handler' = handler \/ handler' = Waiting
  BY DEF Throw, Crash, handlerVars, Publisher!Throw, Publisher!Crash
<1>3. Ordered' /\ Registrations' /\ Calls' /\ NoSubscriberIsMissed'
  BY <1>2
  DEF DInv, Ordered, Registrations, Calls, NoSubscriberIsMissed, Received, Contains, NoCall,
      Waiting
<1> QED
  BY <1>1, <1>3 DEF DInv
\* A message arrives; the list of the document in hand is not touched.
LEMMA SubscribeStep ==
  ASSUME DInv, NEW s \in Subscribers, Subscribe(s)
  PROVE  DInv'
<1>1. /\ requests' = Append(requests, s)
      /\ UNCHANGED <<loopVars, file, callVars, registered, handler, retries, joined>>
  BY DEF Subscribe
<1>2. requests' \in Seq(Subscribers) /\ requests' # <<>>
  BY <1>1 DEF DInv, TypeOK
<1>3. UNCHANGED <<log, lastId, pc, cursor, sent, call, copies, registered, handler, joined, retries, file>>
  BY <1>1 DEF loopVars, callVars
<1>4. TypeOK'
  <2>1. Publisher!TypeOK'
    BY <1>1 DEF DInv, TypeOK, loopVars, Publisher!TypeOK
  <2> QED
    BY <1>2, <1>3, <2>1 DEF DInv, TypeOK
<1>5. DInv'
  <2>1. handler'.at \in {"put", "writing"} => handler'.names = registered
    BY <1>3 DEF DInv, Registrations
  <2> QED
    BY <1>3, <1>4, <2>1, Quiet
<1> QED
  BY <1>5

\* The steps of AddSubscriber that leave the registration as it is: the copy that
\* is read is the one in the document, and as nobody else puts one it stays so.
LEMMA HandlerStep ==
  ASSUME DInv, ReadRegistration \/ OpenForPut \/ RemoveRequest \/ HandlerThrows
  PROVE  DInv'
<1>1. /\ UNCHANGED <<loopVars, callVars, registered, joined>>
      /\ requests' \in {requests, Tail(requests)}
      /\ requests' # requests => handler' = Waiting
      /\ retries' \in {retries, retries + 1} /\ (retries' # retries => retries < MaxFaults)
      /\ file' \in {file, "emptied"}
  BY DEF ReadRegistration, OpenForPut, RemoveRequest, HandlerThrows
<1>2. \/ handler' = Waiting
      \/ requests # <<>> /\ handler' = [at |-> "put", names |-> registered]
      \/ handler.at = "put" /\ handler' = [handler EXCEPT !.at = "writing"]
  BY DEF ReadRegistration, OpenForPut, RemoveRequest, HandlerThrows
<1>3. handler' \in [at : {"waiting", "put", "writing", "handled"}, names : Seq(Subscribers)]
  <2>1. CASE requests # <<>> /\ handler' = [at |-> "put", names |-> registered]
    BY <2>1 DEF DInv, TypeOK
  <2>2. CASE handler.at = "put" /\ handler' = [handler EXCEPT !.at = "writing"]
    BY <2>2 DEF DInv, TypeOK
  <2> QED
    BY <1>2, <2>1, <2>2, Idle
<1>4. requests' \in Seq(Subscribers)
  <2>1. requests = <<>> => requests' = requests
    BY DEF ReadRegistration, OpenForPut, RemoveRequest, HandlerThrows, DInv, TypeOK
  <2> QED
    BY <1>1, <2>1, TailKeepsTheRest DEF DInv, TypeOK
<1>5. handler'.at # "waiting" => requests' # <<>>
  <2>1. handler' # Waiting => requests' = requests
    BY <1>1
  <2> QED
    BY <1>2, <2>1, Idle DEF DInv, TypeOK
<1>6. handler'.at \in {"put", "writing"} => handler'.names = registered
  BY <1>2, Idle DEF DInv, Registrations, TypeOK
<1>7. UNCHANGED <<log, lastId, pc, cursor, sent, call, copies, registered, joined>>
  BY <1>1 DEF loopVars, callVars
<1>8. TypeOK'
  <2>1. Publisher!TypeOK'
    BY <1>1 DEF DInv, TypeOK, loopVars, Publisher!TypeOK
  <2>2. retries' \in 0..MaxFaults
    BY <1>1, DeliveryAssumption DEF DInv, TypeOK
  <2> QED
    BY <1>1, <1>3, <1>4, <1>5, <1>7, <2>1, <2>2 DEF DInv, TypeOK
<1> QED
  BY <1>6, <1>7, <1>8, Quiet DEF DInv

\* Put has written: nobody has lost a registration, and the new subscriber is to
\* have what is stored from now on.
LEMMA WriteStep ==
  ASSUME DInv, WriteRegistration
  PROVE  DInv'
<1> DEFINE s == Head(requests)
<1>1. /\ handler.at = "writing"
      /\ registered' = Added(handler.names, s)
      /\ file' = "written"
      /\ handler' = [handler EXCEPT !.at = "handled"]
      /\ joined' = [joined EXCEPT ![s] = IF @ = Null THEN lastId ELSE @]
      /\ UNCHANGED <<loopVars, callVars, requests, retries>>
  BY DEF WriteRegistration
<1>2. requests # <<>> /\ requests \in Seq(Subscribers)
  BY <1>1 DEF DInv, TypeOK
<1>3. s \in Subscribers
  BY <1>2, TailKeepsTheRest
<1>4. handler.names = registered /\ registered \in Seq(Subscribers)
  BY <1>1 DEF DInv, TypeOK, Registrations
<1>5. /\ registered' \in Seq(Subscribers)
      /\ Contains(registered', s)
      /\ \A q : Contains(registered, q) => Contains(registered', q)
  BY <1>1, <1>3, <1>4, AddedIsThere
<1>6. /\ \A q \in Subscribers : joined'[q] = joined[q] \/ (q = s /\ joined'[q] = lastId)
      /\ joined' \in [Subscribers -> Nat \union {Null}]
  <2>1. lastId \in Nat
    BY DeliveryAssumption DEF DInv, TypeOK, Publisher!TypeOK
  <2> QED
    BY <1>1, <1>3, <2>1 DEF DInv, TypeOK
<1>7. UNCHANGED <<log, lastId, pc, cursor, sent, call, copies, requests, retries>>
  BY <1>1 DEF loopVars, callVars
<1>8. TypeOK'
  <2>1. Publisher!TypeOK'
    BY <1>1 DEF DInv, TypeOK, loopVars, Publisher!TypeOK
  <2>2. handler' \in [at : {"waiting", "put", "writing", "handled"}, names : Seq(Subscribers)]
    BY <1>1 DEF DInv, TypeOK
  <2> QED
    BY <1>1, <1>2, <1>5, <1>6, <1>7, <2>1, <2>2 DEF DInv, TypeOK
<1>9. \A q \in Subscribers : \A i \in log : joined'[q] # Null /\ joined'[q] < i => joined[q] = joined'[q]
  <2>1. \A i \in log : ~(lastId < i)
    BY DeliveryAssumption DEF DInv, Ordered, TypeOK, Publisher!TypeOK, Publisher!Ids
  <2> QED
    BY <1>6, <2>1
<1>10. Ordered'
  <2>1. lastId \in Int
    BY DeliveryAssumption DEF DInv, TypeOK, Publisher!TypeOK
  <2> QED
    BY <1>6, <1>7, <2>1 DEF DInv, Ordered
<1>11. Registrations'
  <2>1. \A q \in Subscribers : joined'[q] # Null => Contains(registered', q)
    BY <1>5, <1>6 DEF DInv, Registrations
  <2>2. handler'.at = "handled"
    BY <1>1 DEF DInv, TypeOK
  <2> QED
    BY <2>1, <2>2 DEF Registrations, Contains, Null, Publisher!Null
<1>12. Calls'
  <2>1. call.at # "none" => call.event \in log
    BY DEF DInv, TypeOK
  <2>2. call.at # "none" => Publisher!IsNext(call.event)'
    BY <1>7 DEF DInv, Calls, Publisher!IsNext, Publisher!Unread
  <2>3. ASSUME call.at = "sending", NEW q \in Subscribers, joined'[q] # Null, joined'[q] < call.event
        PROVE  Contains(call.todo, q) \/ Received(q, call.event)
    BY <1>9, <2>1, <2>3 DEF DInv, Calls
  <2> QED
    BY <1>7, <2>2, <2>3 DEF Calls, Received, Contains, Null, Publisher!Null
<1>13. NoSubscriberIsMissed'
  BY <1>7, <1>9 DEF DInv, NoSubscriberIsMissed, Received, Null, Publisher!Null
<1> QED
  BY <1>8, <1>10, <1>11, <1>12, <1>13 DEF DInv

-----------------------------------------------------------------------------
LEMMA Inductive ==
  ASSUME DInv, [Next]_vars
  PROVE  DInv'
<1>1. CASE StoreEvents
  BY <1>1, StoreStep
<1>2. CASE OutsidePublish
  BY <1>2, OutsideStep
<1>3. CASE CallPublish
  BY <1>3, CallStep
<1>4. CASE GetSubscribers
  BY <1>4, SubscribersStep
<1>5. CASE Send
  BY <1>5, SendStep
<1>6. CASE PublishReturns
  BY <1>6, ReturnStep
<1>7. CASE Throw \/ Crash
  BY <1>7, FaultStep
<1>8. ASSUME NEW s \in Subscribers, Subscribe(s) PROVE DInv'
  BY <1>8, SubscribeStep
<1>9. CASE WriteRegistration
  BY <1>9, WriteStep
<1>10. CASE ReadRegistration \/ OpenForPut \/ RemoveRequest \/ HandlerThrows
  BY <1>10, HandlerStep
<1>11. CASE UNCHANGED vars
  <2>1. UNCHANGED <<loopVars, file, call, copies, registered, requests, handler, retries, joined>>
    BY <1>11 DEF vars, callVars, handlerVars
  <2>2. UNCHANGED <<log, lastId, pc, cursor, sent>>
    BY <2>1 DEF loopVars
  <2>3. Publisher!TypeOK'
    BY <2>1 DEF DInv, TypeOK, loopVars, Publisher!TypeOK
  <2>4. TypeOK'
    BY <2>1, <2>2, <2>3 DEF DInv, TypeOK
  <2>5. handler'.at \in {"put", "writing"} => handler'.names = registered
    BY <2>1 DEF DInv, Registrations
  <2> QED
    BY <2>1, <2>2, <2>4, <2>5, Quiet
<1> QED
  BY <1>1, <1>2, <1>3, <1>4, <1>5, <1>6, <1>7, <1>8, <1>9, <1>10, <1>11 DEF Next, Loop, Handle

THEOREM Invariance == Spec => []DInv
BY Initial, Inductive, PTL DEF Spec

\* The variables keep their types, and nobody sends while the list is unread.
THEOREM TypeCorrect == Spec => []TypeOK
<1>1. DInv => TypeOK
  BY DEF DInv
<1> QED
  BY <1>1, Invariance, PTL

\* Whatever is sent partially, repeated, registered or killed meanwhile, every
\* subscriber that was registered before an event was stored gets the event.
THEOREM NobodyIsMissed == Spec => []NoSubscriberIsMissed
<1>1. DInv => NoSubscriberIsMissed
  BY DEF DInv
<1> QED
  BY <1>1, Invariance, PTL

-----------------------------------------------------------------------------
(* What is sent twice, and in which order.                                  *)

\* Where the loop stands is nowhere behind its document and nowhere ahead of the
\* table.
LoopStands ==
  /\ pc = "down" => last = Null
  /\ pc \in {"publish", "store", "write"} => last # Null
  /\ pc = "publish" => last <= cursor
  /\ last # Null => doc <= last
  /\ Publisher!Position <= lastId

\* What was proved of the loop with an atomic Publish holds of this one.
LEMMA LoopInvariant == Spec => []LoopStands
<1>1. Publisher!Init => Loops!Init
  BY DEF Publisher!Init, Loops!Init, Publisher!Missing, Loops!Missing, Publisher!Null,
         Loops!Null, Publisher!Ids, Loops!Ids
<1>2. [Publisher!Next]_Publisher!vars => [Loops!Next]_Loops!vars
  BY DEF Publisher!Next, Loops!Next, Publisher!vars, Loops!vars,
         Publisher!AppendEvent, Loops!AppendEvent, Publisher!SkipId, Loops!SkipId,
         Publisher!Start, Loops!Start, Publisher!ReadEmptied, Loops!ReadEmptied,
         Publisher!Loop, Loops!Loop, Publisher!Throw, Loops!Throw,
         Publisher!Crash, Loops!Crash,
         Publisher!ReadLastPublishedEventId, Loops!ReadLastPublishedEventId,
         Publisher!OpenReader, Loops!OpenReader, Publisher!PublishNext, Loops!PublishNext,
         Publisher!Publish, Loops!Publish,
         Publisher!EndBatch, Loops!EndBatch, Publisher!OpenDocument, Loops!OpenDocument,
         Publisher!WriteDocument, Loops!WriteDocument, Publisher!Leave, Loops!Leave,
         Publisher!BatchFull, Loops!BatchFull, Publisher!MayEnd, Loops!MayEnd,
         Publisher!Unread, Loops!Unread, Publisher!IsNext, Loops!IsNext,
         Publisher!Missing, Loops!Missing, Publisher!Emptied, Loops!Emptied,
         Publisher!Null, Loops!Null
<1>3. Loops!Spec => []Loops!PInv
  BY DeliveryAssumption, Loops!Invariance
<1>4. Loops!PInv => LoopStands
  BY DEF Loops!PInv, Loops!Control, Loops!Table, Loops!LoopNotBehindDocument, Loops!Null,
         LoopStands, Null, Publisher!Null, Publisher!Position
<1> QED
  BY <1>1, <1>2, <1>3, <1>4, Refinement, PTL DEF Publisher!Spec, Loops!Spec

-----------------------------------------------------------------------------
NoRepeats(names) == \A j, k \in 1..Len(names) : names[j] = names[k] => j = k

\* Nobody is on a list twice, and whoever was sent anything stays registered.
Lists ==
  /\ NoRepeats(registered)
  /\ call.at = "sending" =>
       /\ NoRepeats(call.todo)
       /\ \A s \in Subscribers : Contains(call.todo, s) => Contains(registered, s)
  /\ \A s \in Subscribers : \A i \in Ids : Received(s, i) => Contains(registered, s)

\* An event the loop has still to publish.
Ahead(i) == Publisher!Position < i /\ Publisher!Position # Publisher!Emptied

\* What lies ahead of the loop was sent only by attempts that failed, except the
\* event it is sending.
SentAhead ==
  \A s \in Subscribers : \A i \in Ids :
    Ahead(i) => \/ copies[s][i] <= faults
                \/ call.at = "sending" /\ call.event = i /\ ~Contains(call.todo, s)

\* Whoever has received an earlier event is still to be sent this one, or was.
NextForAll ==
  call.at = "sending" =>
    \A s \in Subscribers : \A i \in log :
      i < call.event /\ Received(s, i) => Contains(call.todo, s) \/ Received(s, call.event)

SInv == Lists /\ SentAhead /\ NextForAll /\ ReceivedWithoutGaps /\ CopiesNeedFaults

-----------------------------------------------------------------------------
\* Numbers of the loop, for the arithmetic below.
LEMMA Numbers ==
  ASSUME TypeOK
  PROVE  /\ Publisher!Position \in Int /\ lastId \in Nat /\ faults \in Nat
         /\ Ids \subseteq Nat \ {0} /\ log \subseteq Ids
         /\ \A s \in Subscribers : \A i \in Ids : copies[s][i] \in Nat
<1>1. /\ Publisher!Position \in Int /\ lastId \in Nat /\ faults \in Nat
      /\ Ids \subseteq Nat \ {0} /\ log \subseteq Ids
  BY DeliveryAssumption
  DEF TypeOK, Publisher!TypeOK, Publisher!Position, Publisher!Ids, Ids, Publisher!Missing,
      Publisher!Emptied, Publisher!Null
<1>2. \A s \in Subscribers : \A i \in Ids : copies[s][i] \in Nat
  BY DEF TypeOK
<1> QED
  BY <1>1, <1>2

LEMMA InitiallySent == Init => SInv
<1> SUFFICES ASSUME Init PROVE SInv
  OBVIOUS
<1>1. \A s \in Subscribers : \A i \in Ids : copies[s][i] = 0 /\ ~Received(s, i)
  BY DEF Init, Received
<1>2. registered = <<>> /\ call.at = "none" /\ log = {} /\ faults = 0
  BY DEF Init, NoCall, Publisher!Init
<1> QED
  BY <1>1, <1>2 DEF SInv, Lists, NoRepeats, SentAhead, NextForAll, ReceivedWithoutGaps, CopiesNeedFaults

\* A step after which the loop takes no more events to be published than before,
\* and that sends nothing.
LEMMA NothingSent ==
  ASSUME SInv, TypeOK, TypeOK', UNCHANGED <<copies, registered, log, faults>>,
         call' = call \/ call'.at # "sending",
         call.at = "sending" => call' = call,
         \A i \in Ids : /\ i <= Publisher!Position' => i <= Publisher!Position
                        /\ Ahead(i)' => Ahead(i)
  PROVE  SInv'
<1>1. Lists'
  BY DEF SInv, Lists, NoRepeats, Received, Contains, Ids, Publisher!Ids
<1>2. SentAhead'
  BY DEF SInv, SentAhead, Contains, Ids, Publisher!Ids
<1>3. NextForAll'
  BY DEF SInv, NextForAll, Received, Contains
<1>4. ReceivedWithoutGaps'
  BY Numbers DEF SInv, ReceivedWithoutGaps, Received
<1>5. CopiesNeedFaults'
  BY DEF SInv, CopiesNeedFaults, Ids, Publisher!Ids
<1> QED
  BY <1>1, <1>2, <1>3, <1>4, <1>5 DEF SInv

\* A call of Publish begins, or the loop moves between two calls.
LEMMA LoopMoves ==
  ASSUME SInv, DInv, DInv', LoopStands, OutsidePublish \/ CallPublish
  PROVE  SInv'
<1>1. UNCHANGED <<copies, registered, log, faults>> /\ call.at = "none" /\ call'.at # "sending"
  <2>1. CASE OutsidePublish
    BY <2>1
    DEF OutsidePublish, callVars, handlerVars, NoCall, Publisher!Start,
        Publisher!ReadLastPublishedEventId, Publisher!OpenReader, Publisher!EndBatch,
        Publisher!OpenDocument, Publisher!WriteDocument
  <2>2. CASE CallPublish
    <3>1. PICK i \in log : call' = [NoCall EXCEPT !.at = "subscribers", !.event = i]
      BY <2>2 DEF CallPublish
    <3>2. call' = [at |-> "subscribers", event |-> i, todo |-> <<>>]
      BY <3>1 DEF NoCall
    <3> QED
      BY <2>2, <3>2 DEF CallPublish, handlerVars, loopVars, NoCall
  <2> QED
    BY <2>1, <2>2
<1>2. \A i \in Ids : /\ i <= Publisher!Position' => i <= Publisher!Position
                     /\ Ahead(i)' => Ahead(i)
  <2> USE DEF Ahead, Publisher!Position, LoopStands, Null, Publisher!Null, Publisher!Emptied
  <2>1. TypeOK /\ TypeOK'
    BY DEF DInv
  <2>2. CASE Publisher!Start
    BY <2>2 DEF Publisher!Start
  <2>3. CASE Publisher!ReadLastPublishedEventId
    BY <2>1, <2>3, Numbers DEF Publisher!ReadLastPublishedEventId, Publisher!Missing
  <2>4. CASE Publisher!OpenReader
    BY <2>4 DEF Publisher!OpenReader
  <2>5. CASE Publisher!EndBatch
    BY <2>1, <2>5 DEF Publisher!EndBatch, TypeOK, Publisher!TypeOK
  <2>6. CASE Publisher!OpenDocument
    BY <2>6 DEF Publisher!OpenDocument
  <2>7. CASE Publisher!WriteDocument
    BY <2>7 DEF Publisher!WriteDocument
  <2>8. CASE CallPublish
    BY <2>8 DEF CallPublish, loopVars
  <2> QED
    BY <2>2, <2>3, <2>4, <2>5, <2>6, <2>7, <2>8 DEF OutsidePublish
<1> QED
  BY <1>1, <1>2, NothingSent DEF DInv

\* A new event lies behind all others, hence ahead of the loop, unsent.
LEMMA NewEventUnsent ==
  ASSUME SInv, DInv, DInv', LoopStands, StoreEvents
  PROVE  SInv'
<1>1. /\ lastId' = lastId + 1
      /\ log' \in {log, log \union {lastId + 1}}
      /\ UNCHANGED <<pc, last, doc, cursor, sent, faults, call, copies, registered>>
  BY DEF StoreEvents, callVars, handlerVars, Publisher!AppendEvent, Publisher!SkipId
<1>2. Publisher!Position' = Publisher!Position
  BY <1>1 DEF Publisher!Position
<1>3. Lists' /\ SentAhead' /\ CopiesNeedFaults'
  BY <1>1, <1>2
  DEF SInv, Lists, NoRepeats, SentAhead, CopiesNeedFaults, Ahead, Received, Contains
<1>4. NextForAll'
  <2>1. call.at = "sending" => call.event \in log
    BY DEF DInv, TypeOK
  <2>2. \A i \in log' : call.at = "sending" /\ i < call.event => i \in log
    BY <1>1, <2>1, Numbers DEF DInv, Ordered
  <2> QED
    BY <1>1, <2>2 DEF SInv, NextForAll, Received, Contains
<1>5. ReceivedWithoutGaps'
  <2>1. \A i, j \in log' : i < j /\ j <= Publisher!Position => i \in log /\ j \in log
    BY <1>1, Numbers DEF DInv, LoopStands
  <2> QED
    BY <1>1, <1>2, <2>1 DEF SInv, ReceivedWithoutGaps, Received
<1> QED
  BY <1>3, <1>4, <1>5 DEF SInv

\* The list that is read holds everyone who was sent anything, once.
LEMMA ListIsRead ==
  ASSUME SInv, DInv, GetSubscribers
  PROVE  SInv'
<1>1. /\ call.at = "subscribers"
      /\ call' = [call EXCEPT !.at = "sending", !.todo = registered]
      /\ UNCHANGED <<loopVars, file, copies, handlerVars>>
  BY DEF GetSubscribers
<1>2. call'.at = "sending" /\ call'.todo = registered /\ call'.event = call.event
  BY <1>1 DEF DInv, TypeOK
<1>3. Publisher!Position' = Publisher!Position /\ UNCHANGED <<copies, registered, log, faults>>
  BY <1>1 DEF loopVars, handlerVars, Publisher!Position
<1>4. Lists'
  BY <1>2, <1>3 DEF SInv, Lists, NoRepeats, Received, Contains
<1>5. SentAhead' /\ ReceivedWithoutGaps' /\ CopiesNeedFaults'
  BY <1>1, <1>3
  DEF SInv, SentAhead, ReceivedWithoutGaps, CopiesNeedFaults, Ahead, Received
<1>6. NextForAll'
  <2>1. \A s \in Subscribers : \A i \in log : Received(s, i) => Contains(registered, s)
    BY Numbers DEF SInv, Lists, DInv
  <2> QED
    BY <1>2, <1>3, <2>1 DEF NextForAll, Received, Contains
<1> QED
  BY <1>4, <1>5, <1>6 DEF SInv

LEMMA TailOfDistinct ==
  ASSUME NEW names \in Seq(Subscribers), names # <<>>, NoRepeats(names)
  PROVE  /\ NoRepeats(Tail(names))
         /\ ~Contains(Tail(names), Head(names))
         /\ Contains(names, Head(names))
         /\ \A q : Contains(Tail(names), q) => Contains(names, q)
<1>1. /\ Head(names) = names[1] /\ Len(names) \in Nat \ {0}
      /\ Len(Tail(names)) = Len(names) - 1
      /\ \A k \in 1..Len(names) - 1 : Tail(names)[k] = names[k + 1]
  OBVIOUS
<1>2. \A k \in 1..Len(names) - 1 : k + 1 \in 1..Len(names) /\ k + 1 # 1
  BY <1>1
<1>3. 1 \in 1..Len(names)
  BY <1>1
<1>4. NoRepeats(Tail(names))
  BY <1>1, <1>2 DEF NoRepeats
<1>5. ~Contains(Tail(names), Head(names))
  BY <1>1, <1>2, <1>3 DEF NoRepeats, Contains
<1>6. Contains(names, Head(names))
  BY <1>1, <1>3 DEF Contains
<1>7. \A q : Contains(Tail(names), q) => Contains(names, q)
  BY <1>1, <1>2 DEF Contains
<1> QED
  BY <1>4, <1>5, <1>6, <1>7

\* The event that is sent lies ahead of the loop: the copy is one more than the
\* attempts before have sent, and no later event has to be there already.
LEMMA OneMoreCopy ==
  ASSUME SInv, DInv, DInv', Send
  PROVE  SInv'
<1> DEFINE s == Head(call.todo)  i == call.event
<1>1. /\ call.at = "sending" /\ call.todo # <<>>
      /\ copies' = [copies EXCEPT ![s][i] = @ + 1]
      /\ call' = [call EXCEPT !.todo = Tail(@)]
      /\ UNCHANGED <<loopVars, file, handlerVars>>
  BY DEF Send
<1>2. call.todo \in Seq(Subscribers) /\ i \in log /\ i \in Ids /\ pc = "publish"
  BY <1>1 DEF DInv, TypeOK, Publisher!TypeOK, Ids
<1>3. call'.at = "sending" /\ call'.todo = Tail(call.todo) /\ call'.event = i
  BY <1>1 DEF DInv, TypeOK
<1>4. /\ s \in Subscribers
      /\ \A q : Contains(call.todo, q) /\ q # s => Contains(Tail(call.todo), q)
  BY <1>1, <1>2, TailKeepsTheRest
<1>5. NoRepeats(call.todo) /\ \A q \in Subscribers : Contains(call.todo, q) => Contains(registered, q)
  BY <1>1 DEF SInv, Lists
<1>6. /\ NoRepeats(Tail(call.todo)) /\ ~Contains(Tail(call.todo), s) /\ Contains(call.todo, s)
      /\ \A q : Contains(Tail(call.todo), q) => Contains(call.todo, q)
  BY <1>1, <1>2, <1>5, TailOfDistinct
<1>7. /\ copies'[s][i] = copies[s][i] + 1
      /\ \A q \in Subscribers, j \in Ids : ~(q = s /\ j = i) => copies'[q][j] = copies[q][j]
  <2>1. copies \in [Subscribers -> [Ids -> Nat]]
    BY DEF DInv, TypeOK
  <2>2. copies' = [copies EXCEPT ![s] = [copies[s] EXCEPT ![i] = copies[s][i] + 1]]
    BY <1>1
  <2> QED
    BY <1>2, <1>4, <2>1, <2>2
<1>8. UNCHANGED <<registered, log, faults>> /\ Publisher!Position' = Publisher!Position
  BY <1>1 DEF loopVars, handlerVars, Publisher!Position
<1>9. Ahead(i)
  BY <1>1, <1>2, DeliveryAssumption
  DEF DInv, Calls, TypeOK, Publisher!TypeOK, Publisher!IsNext, Publisher!Unread, Ahead,
      Publisher!Position, Publisher!Emptied
<1> HIDE DEF s, i
<1>10. copies[s][i] <= faults
  BY <1>1, <1>2, <1>4, <1>6, <1>9 DEF SInv, SentAhead
<1>11. \A q \in Subscribers, j \in Ids : Received(q, j)' <=> Received(q, j) \/ (q = s /\ j = i)
  BY <1>2, <1>4, <1>7, Numbers DEF DInv, Received
<1>12. Lists'
  <2>1. Contains(registered, s)
    BY <1>4, <1>5, <1>6
  <2> QED
    BY <1>3, <1>5, <1>6, <1>8, <1>11, <2>1 DEF SInv, Lists, NoRepeats, Contains, Ids, Publisher!Ids
<1>13. SentAhead'
  <2> SUFFICES ASSUME NEW q \in Subscribers, NEW j \in Ids, Ahead(j)
               PROVE  copies'[q][j] <= faults \/ (j = i /\ ~Contains(Tail(call.todo), q))
    BY <1>3, <1>8 DEF SentAhead, Ahead, Ids, Publisher!Ids, Contains
  <2>1. CASE q = s /\ j = i
    BY <1>6, <2>1
  <2>2. CASE ~(q = s /\ j = i)
    <3>1. copies'[q][j] = copies[q][j]
      BY <1>7, <2>2
    <3>2. copies[q][j] <= faults \/ (call.event = j /\ ~Contains(call.todo, q))
      BY DEF SInv, SentAhead
    <3> QED
      BY <1>6, <3>1, <3>2 DEF i
  <2> QED
    BY <2>1, <2>2
<1>14. ASSUME NEW q \in Subscribers, NEW j \in log, j < i, Received(q, j)'
       PROVE  Contains(call'.todo, q) \/ copies'[q][i] > 0
  <2>1. j \in Ids /\ j # i
    BY <1>2, <1>14, Numbers DEF DInv
  <2>2. Received(q, j)
    BY <1>11, <1>14, <2>1
  <2>3. Contains(call.todo, q) \/ Received(q, i)
    BY <1>1, <1>14, <2>2 DEF SInv, NextForAll, i
  <2>4. CASE Received(q, i) \/ q = s
    BY <1>2, <1>4, <1>11, <2>4 DEF Received
  <2>5. CASE Contains(call.todo, q) /\ q # s
    <3>1. Contains(Tail(call.todo), q)
      BY <1>4, <2>5
    <3> QED
      BY <1>3, <3>1
  <2> QED
    BY <2>3, <2>4, <2>5
<1>15. ReceivedWithoutGaps'
  BY <1>8, <1>9, <1>11, Numbers DEF SInv, DInv, ReceivedWithoutGaps, Ahead
<1>16. CopiesNeedFaults'
  BY <1>2, <1>4, <1>7, <1>8, <1>10, Numbers DEF SInv, DInv, CopiesNeedFaults, Ids, Publisher!Ids
<1> QED
  <2>1. NextForAll'
    BY <1>3, <1>8, <1>14 DEF NextForAll, Received
  <2> QED
    BY <1>12, <1>13, <1>15, <1>16, <2>1 DEF SInv

\* The loop passes an event that everyone has who has an earlier one.
LEMMA LoopPasses ==
  ASSUME SInv, DInv, DInv', PublishReturns
  PROVE  SInv'
<1> DEFINE i == call.event
<1>1. /\ call.at = "sending" /\ call.todo = <<>> /\ call' = NoCall /\ pc = "publish"
      /\ UNCHANGED <<log, doc, pc, last, faults, copies, registered>>
      /\ i \in log /\ cursor < i
  BY DEF PublishReturns, Publisher!PublishNext, Publisher!Publish, handlerVars, DInv, TypeOK, Calls,
         Publisher!IsNext, Publisher!Unread
<1>2. cursor' = i /\ \A j \in log : j < i => j <= cursor
  <2>1. PICK e \in log : Publisher!IsNext(e) /\ cursor' = e
    BY DEF PublishReturns, Publisher!PublishNext, Publisher!Publish
  <2>2. Publisher!IsNext(i)
    BY <1>1 DEF DInv, Calls
  <2>3. cursor \in Int /\ \A j \in log : j \in Int
    BY DeliveryAssumption DEF DInv, TypeOK, Publisher!TypeOK, Publisher!Ids
  <2> HIDE DEF i
  <2> QED
    BY <1>1, <2>1, <2>2, <2>3 DEF Publisher!IsNext, Publisher!Unread
<1>3. Publisher!Position = cursor /\ Publisher!Position' = i
  BY <1>1, <1>2 DEF Publisher!Position
<1>4. \A s \in Subscribers : ~Contains(call.todo, s)
  BY <1>1 DEF Contains
<1>5. cursor \in Nat /\ i \in Nat
  <2>1. cursor \in Nat /\ \A j \in log : j \in Nat
    BY DeliveryAssumption DEF DInv, TypeOK, Publisher!TypeOK, Publisher!Ids
  <2> QED
    BY <1>1, <2>1
<1>6. Lists' /\ NextForAll' /\ CopiesNeedFaults'
  BY <1>1 DEF SInv, Lists, NextForAll, CopiesNeedFaults, NoRepeats, Received, Contains, NoCall,
              Ids, Publisher!Ids
<1>7. SentAhead'
  <2> SUFFICES ASSUME NEW s \in Subscribers, NEW j \in Ids, i < j
               PROVE  copies[s][j] <= faults
    BY <1>1, <1>3 DEF SentAhead, Ahead, Ids, Publisher!Ids
  <2>1. Ahead(j) /\ j # i
    BY <1>1, <1>3, <1>5, Numbers DEF Ahead, DInv, Publisher!Emptied
  <2> QED
    BY <2>1 DEF SInv, SentAhead
<1>8. ReceivedWithoutGaps'
  <2> SUFFICES ASSUME NEW s \in Subscribers, NEW j \in log, NEW k \in log,
                      j < k, k <= i, Received(s, j)
               PROVE  Received(s, k)
    BY <1>1, <1>3 DEF ReceivedWithoutGaps, Received
  <2>1. CASE k = i
    BY <1>1, <1>4, <2>1 DEF SInv, NextForAll
  <2>2. CASE k < i
    BY <1>2, <1>3, <2>2 DEF SInv, ReceivedWithoutGaps
  <2> QED
    BY <1>5, <2>1, <2>2, Numbers DEF DInv
<1> QED
  BY <1>6, <1>7, <1>8 DEF SInv

\* A fault puts the loop back and pays for what is sent again.
LEMMA FaultPays ==
  ASSUME SInv, DInv, DInv', LoopStands, Throw \/ Crash
  PROVE  SInv'
<1>1. /\ call' = NoCall /\ faults' = faults + 1
      /\ UNCHANGED <<copies, registered, log, doc>>
  BY DEF Throw, Crash, Publisher!Throw, Publisher!Crash, handlerVars
<1>2. Publisher!Position' <= Publisher!Position
  <2>1. /\ last \in Int /\ doc \in Int /\ cursor \in Int
    BY DeliveryAssumption DEF DInv, TypeOK, Publisher!TypeOK, Publisher!Missing,
                              Publisher!Emptied, Publisher!Null
  <2>2. CASE Throw
    BY <2>1, <2>2
    DEF LoopStands, Throw, Publisher!Throw, Publisher!Position, Null, Publisher!Null
  <2>3. CASE Crash
    BY <2>1, <2>3
    DEF LoopStands, Crash, Publisher!Crash, Publisher!Position, Null, Publisher!Null
  <2> QED
    BY <2>2, <2>3
<1>3. Lists' /\ NextForAll'
  BY <1>1 DEF SInv, Lists, NextForAll, NoRepeats, Received, Contains, NoCall, Ids, Publisher!Ids
<1>4. SentAhead' /\ CopiesNeedFaults'
  BY <1>1, Numbers DEF SInv, DInv, SentAhead, CopiesNeedFaults, Ids, Publisher!Ids
<1>5. ReceivedWithoutGaps'
  <2>1. Publisher!Position' \in Int
    <3>1. Publisher!TypeOK'
      BY DEF DInv, TypeOK
    <3> QED
      BY <3>1, DeliveryAssumption
      DEF Publisher!TypeOK, Publisher!Position, Publisher!Missing, Publisher!Emptied, Publisher!Null
  <2>2. Publisher!Position \in Int /\ \A i \in log : i \in Int
    BY Numbers DEF DInv
  <2> QED
    BY <1>1, <1>2, <2>1, <2>2 DEF SInv, ReceivedWithoutGaps, Received
<1> QED
  BY <1>3, <1>4, <1>5 DEF SInv

\* Whoever was on the list still is, nobody twice.
LEMMA ListIsWritten ==
  ASSUME SInv, DInv, DInv', WriteRegistration
  PROVE  SInv'
<1> DEFINE s == Head(requests)
<1>1. /\ registered' = Added(registered, s)
      /\ UNCHANGED <<log, pc, last, doc, cursor, faults, call, copies>>
  BY DEF WriteRegistration, loopVars, callVars, DInv, Registrations
<1>2. s \in Subscribers /\ registered \in Seq(Subscribers)
  <2>1. requests # <<>> /\ requests \in Seq(Subscribers) /\ registered \in Seq(Subscribers)
    BY DEF WriteRegistration, DInv, TypeOK
  <2> QED
    BY <2>1, TailKeepsTheRest
<1>3. \A q : Contains(registered, q) => Contains(registered', q)
  BY <1>1, <1>2, AddedIsThere
<1>4. NoRepeats(registered')
  <2>1. CASE Contains(registered, s)
    BY <1>1, <2>1 DEF Added, SInv, Lists
  <2>2. CASE ~Contains(registered, s)
    <3>1. registered' = Append(registered, s)
      BY <1>1, <2>2 DEF Added
    <3>2. /\ Len(Append(registered, s)) = Len(registered) + 1
          /\ Append(registered, s)[Len(registered) + 1] = s
          /\ \A k \in 1..Len(registered) : Append(registered, s)[k] = registered[k]
          /\ Len(registered) \in Nat
      BY <1>2
    <3>3. \A k \in 1..Len(registered) : registered[k] # s
      BY <2>2 DEF Contains
    <3> QED
      BY <3>1, <3>2, <3>3 DEF SInv, Lists, NoRepeats
  <2> QED
    BY <2>1, <2>2
<1>5. Lists'
  BY <1>1, <1>3, <1>4 DEF SInv, Lists, Received, NoRepeats, Contains, Ids, Publisher!Ids
<1>6. SentAhead' /\ NextForAll' /\ ReceivedWithoutGaps' /\ CopiesNeedFaults'
  BY <1>1
  DEF SInv, SentAhead, NextForAll, ReceivedWithoutGaps, CopiesNeedFaults, Ahead, Received,
      Contains, Publisher!Position, Ids, Publisher!Ids
<1> QED
  BY <1>5, <1>6 DEF SInv

LEMMA SentInductive ==
  ASSUME SInv, DInv, DInv', LoopStands, [Next]_vars
  PROVE  SInv'
<1>1. CASE StoreEvents
  BY <1>1, NewEventUnsent
<1>2. CASE OutsidePublish \/ CallPublish
  BY <1>2, LoopMoves
<1>3. CASE GetSubscribers
  BY <1>3, ListIsRead
<1>4. CASE Send
  BY <1>4, OneMoreCopy
<1>5. CASE PublishReturns
  BY <1>5, LoopPasses
<1>6. CASE Throw \/ Crash
  BY <1>6, FaultPays
<1>7. CASE WriteRegistration
  BY <1>7, ListIsWritten
<1>8. CASE UNCHANGED <<loopVars, callVars, registered>>
  <2>1. UNCHANGED <<log, pc, last, doc, cursor, faults, call, copies, registered>>
    BY <1>8 DEF loopVars, callVars
  <2>2. Publisher!Position' = Publisher!Position
    BY <2>1 DEF Publisher!Position
  <2> QED
    BY <2>1, <2>2, NothingSent DEF DInv, Ahead
<1>9. ASSUME NEW s \in Subscribers, Subscribe(s) PROVE SInv'
  BY <1>8, <1>9 DEF Subscribe
<1>10. CASE ReadRegistration \/ OpenForPut \/ RemoveRequest \/ HandlerThrows
  BY <1>8, <1>10 DEF ReadRegistration, OpenForPut, RemoveRequest, HandlerThrows
<1>11. CASE UNCHANGED vars
  BY <1>8, <1>11 DEF vars, handlerVars
<1> QED
  BY <1>1, <1>2, <1>3, <1>4, <1>5, <1>6, <1>7, <1>9, <1>10, <1>11 DEF Next, Loop, Handle

LEMMA SentInvariance == Spec => []SInv
<1>1. Init => SInv
  BY InitiallySent
<1>2. SInv /\ DInv /\ DInv' /\ LoopStands /\ [Next]_vars => SInv'
  BY SentInductive
<1> QED
  BY <1>1, <1>2, Invariance, LoopInvariant, PTL DEF Spec

\* Once a subscriber is in, it is in: late, in time or in a repeated batch.
THEOREM NobodyHasGaps == Spec => []ReceivedWithoutGaps
<1>1. SInv => ReceivedWithoutGaps
  BY DEF SInv
<1> QED
  BY <1>1, SentInvariance, PTL

\* Copies are paid for with faults, one each.
THEOREM CopiesAreBounded == Spec => []CopiesNeedFaults
<1>1. SInv => CopiesNeedFaults
  BY DEF SInv
<1> QED
  BY <1>1, SentInvariance, PTL
===============================================================================
