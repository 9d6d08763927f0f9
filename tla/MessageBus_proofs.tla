-------------------------- MODULE MessageBus_proofs --------------------------
(***************************************************************************)
(* At least once and in order: what the queue and the message thread       *)
(* promise for any commands and aggregates, any number of events a command *)
(* publishes and any number of conflicts, exceptions and crashes.  After   *)
(* it the dispatcher behind the queue, for any message types and handlers. *)
(***************************************************************************)
EXTENDS CommandProcessing, MessageDispatcher, FiniteSetTheorems, TLAPS

Gone(c) == Contains(sent, c) /\ ~Contains(queue, c)

AtHead(c) == queue # <<>> /\ c = Head(queue)

\* Every command is sent once, and the queue is the end of what was sent.
QueueIsSuffix ==
  /\ \A i, j \in 1..Len(sent) : sent[i] = sent[j] => i = j
  /\ Len(queue) <= Len(sent)
  /\ \A i \in 1..Len(queue) : queue[i] = sent[Len(sent) - Len(queue) + i]

\* Only the head and what went before it have events in a stream.
NothingEarly == \A c \in Commands : Begun(c) => Gone(c) \/ AtHead(c)

\* All events of c stand one after the other, the last at k.
Batch(c, k) ==
  /\ k \in Parts..Len(stream[Target[c]])
  /\ \A p \in 1..Parts : stream[Target[c]][k - Parts + p] = [cmd |-> c, part |-> p]

Stored(c) == \E k \in Nat : Batch(c, k)

\* While the head is handled the events it has stored end where the thread
\* expects the stream to end; what others append meanwhile comes after.
InProgress ==
  handler.pc = "append" =>
    /\ handler.part >= 1
    /\ handler.expected \in (handler.part - 1)..Len(stream[Target[Head(queue)]])
    /\ \A p \in 1..(handler.part - 1) :
          stream[Target[Head(queue)]][handler.expected - handler.part + 1 + p] =
             [cmd |-> Head(queue), part |-> p]

HandledIsStored == handler.pc = "handled" => Stored(Head(queue))

GoneIsStored == \A c \in Commands : Gone(c) => Stored(c)

\* One completion is free: the one for which the command leaves the queue.
FewCompletions ==
  \A c \in Commands :
    /\ Cardinality(Completions(c)) <= 1 + faults
    /\ Contains(queue, c) /\ ~(AtHead(c) /\ handler.pc = "handled") =>
          Cardinality(Completions(c)) <= faults

PInv ==
  /\ TypeOK
  /\ QueueIsSuffix
  /\ NothingEarly
  /\ InProgress
  /\ HandledIsStored
  /\ GoneIsStored
  /\ FewCompletions

-----------------------------------------------------------------------------
\* What an append does to a sequence.
LEMMA AppendFacts ==
  ASSUME NEW S, NEW s \in Seq(S), NEW x \in S
  PROVE  /\ Append(s, x) \in Seq(S)
         /\ Len(s) \in Nat
         /\ Len(Append(s, x)) = Len(s) + 1
         /\ Append(s, x)[Len(s) + 1] = x
         /\ \A i \in 1..Len(s) : Append(s, x)[i] = s[i]
OBVIOUS

\* What a first element and the rest of a sequence are.
LEMMA TailFacts ==
  ASSUME NEW S, NEW s \in Seq(S), s # <<>>
  PROVE  /\ Len(s) \in Nat \ {0}
         /\ Head(s) = s[1] /\ Head(s) \in S
         /\ Tail(s) \in Seq(S)
         /\ Len(Tail(s)) = Len(s) - 1
         /\ \A i \in 1..(Len(s) - 1) : Tail(s)[i] = s[i + 1]
OBVIOUS

LEMMA ContainsAppend ==
  ASSUME NEW S, NEW s \in Seq(S), NEW x \in S, NEW y
  PROVE  Contains(Append(s, x), y) <=> Contains(s, y) \/ y = x
<1>1. ASSUME Contains(s, y) PROVE Contains(Append(s, x), y)
  BY <1>1, AppendFacts DEF Contains
<1>2. ASSUME y = x PROVE Contains(Append(s, x), y)
  BY <1>2, AppendFacts DEF Contains
<1>3. ASSUME Contains(Append(s, x), y), y # x PROVE Contains(s, y)
  <2>1. PICK i \in 1..(Len(s) + 1) : Append(s, x)[i] = y
    BY <1>3, AppendFacts DEF Contains
  <2>2. i \in 1..Len(s)
    BY <1>3, <2>1, AppendFacts
  <2> QED
    BY <2>1, <2>2, AppendFacts DEF Contains
<1> QED
  BY <1>1, <1>2, <1>3

LEMMA ContainsTail ==
  ASSUME NEW S, NEW s \in Seq(S), s # <<>>, NEW y
  PROVE  Contains(s, y) <=> y = Head(s) \/ Contains(Tail(s), y)
<1>1. ASSUME y = Head(s) PROVE Contains(s, y)
  BY <1>1, TailFacts DEF Contains
<1>2. ASSUME Contains(Tail(s), y) PROVE Contains(s, y)
  <2>1. PICK i \in 1..(Len(s) - 1) : Tail(s)[i] = y
    BY <1>2, TailFacts DEF Contains
  <2>2. i + 1 \in 1..Len(s) /\ s[i + 1] = y
    BY <2>1, TailFacts
  <2> QED
    BY <2>2 DEF Contains
<1>3. ASSUME Contains(s, y), y # Head(s) PROVE Contains(Tail(s), y)
  <2>1. PICK i \in 1..Len(s) : s[i] = y
    BY <1>3 DEF Contains
  <2>2. i - 1 \in 1..(Len(s) - 1) /\ Tail(s)[i - 1] = y
    BY <1>3, <2>1, TailFacts
  <2> QED
    BY <2>2, TailFacts DEF Contains
<1> QED
  BY <1>1, <1>2, <1>3

\* Where a command is, told from QueueIsSuffix.
LEMMA QueueFacts ==
  ASSUME TypeOK, QueueIsSuffix
  PROVE  /\ \A c \in Commands : Contains(queue, c) => Contains(sent, c)
         /\ queue # <<>> =>
              /\ Head(queue) \in Commands /\ Target[Head(queue)] \in Aggregates
              /\ Contains(queue, Head(queue)) /\ ~Contains(Tail(queue), Head(queue))
<1>1. sent \in Seq(Commands) /\ queue \in Seq(Commands)
  BY DEF TypeOK
<1>2. Len(sent) \in Nat /\ Len(queue) \in Nat
  BY <1>1
<1>3. ASSUME NEW c \in Commands, Contains(queue, c) PROVE Contains(sent, c)
  <2>1. PICK i \in 1..Len(queue) : queue[i] = c
    BY <1>3 DEF Contains
  <2>2. Len(sent) - Len(queue) + i \in 1..Len(sent)
    BY <1>2, <2>1 DEF QueueIsSuffix
  <2> QED
    BY <2>1, <2>2 DEF QueueIsSuffix, Contains
<1>4. ASSUME queue # <<>> PROVE Head(queue) \in Commands /\ Target[Head(queue)] \in Aggregates /\ Contains(queue, Head(queue))
  BY <1>1, <1>4, TailFacts, ContainsTail, ProcessingAssumption
<1>5. ASSUME queue # <<>>, Contains(Tail(queue), Head(queue)) PROVE FALSE
  <2>1. PICK i \in 1..(Len(queue) - 1) : queue[i + 1] = queue[1]
    BY <1>1, <1>5, TailFacts DEF Contains
  <2>2. 1 \in 1..Len(queue) /\ i + 1 \in 1..Len(queue)
    BY <1>2, <2>1
  <2>3. sent[Len(sent) - Len(queue) + 1] = sent[Len(sent) - Len(queue) + (i + 1)]
    BY <2>1, <2>2 DEF QueueIsSuffix
  <2>4. Len(sent) - Len(queue) + 1 \in 1..Len(sent) /\ Len(sent) - Len(queue) + (i + 1) \in 1..Len(sent)
    BY <1>2, <2>2 DEF QueueIsSuffix
  <2>5. Len(sent) - Len(queue) + 1 = Len(sent) - Len(queue) + (i + 1)
    BY <2>3, <2>4 DEF QueueIsSuffix
  <2> QED
    BY <1>2, <2>1, <2>5
<1> QED
  BY <1>3, <1>4, <1>5

\* How the streams grow by one event.
LEMMA StreamFacts ==
  ASSUME TypeOK, NEW a \in Aggregates, NEW v \in Event,
         stream' = [stream EXCEPT ![a] = Append(@, v)]
  PROVE  /\ stream' \in [Aggregates -> Seq(Event)]
         /\ Len(stream'[a]) = Len(stream[a]) + 1 /\ stream'[a][Len(stream[a]) + 1] = v
         /\ \A b \in Aggregates \ {a} : stream'[b] = stream[b]
         /\ \A b \in Aggregates :
              /\ Len(stream[b]) \in Nat /\ Len(stream'[b]) \in Nat
              /\ Len(stream[b]) <= Len(stream'[b])
              /\ \A k \in 1..Len(stream[b]) : stream'[b][k] = stream[b][k]
<1>1. stream \in [Aggregates -> Seq(Event)]
  BY DEF TypeOK
<1>2. stream'[a] = Append(stream[a], v) /\ \A b \in Aggregates \ {a} : stream'[b] = stream[b]
  BY <1>1
<1>3. stream[a] \in Seq(Event)
  BY <1>1
<1>4. stream' \in [Aggregates -> Seq(Event)]
  BY <1>1, <1>3, AppendFacts
<1>5. Len(stream'[a]) = Len(stream[a]) + 1 /\ stream'[a][Len(stream[a]) + 1] = v
  BY <1>2, <1>3, AppendFacts
<1>6. ASSUME NEW b \in Aggregates
      PROVE  /\ Len(stream[b]) \in Nat /\ Len(stream'[b]) \in Nat
             /\ Len(stream[b]) <= Len(stream'[b])
             /\ \A k \in 1..Len(stream[b]) : stream'[b][k] = stream[b][k]
  <2>1. Len(stream[b]) \in Nat /\ Len(stream'[b]) \in Nat
    BY <1>1, <1>4
  <2>2. CASE b = a
    BY <1>2, <1>3, <2>1, <2>2, AppendFacts
  <2>3. CASE b # a
    BY <1>2, <2>1, <2>3
  <2> QED
    BY <2>1, <2>2, <2>3
<1> QED
  BY <1>2, <1>4, <1>5, <1>6

\* A batch stays where it is.
LEMMA StoredStays ==
  ASSUME TypeOK, NEW a \in Aggregates, NEW v \in Event,
         stream' = [stream EXCEPT ![a] = Append(@, v)]
  PROVE  \A c \in Commands : Stored(c) => Stored(c)'
<1> SUFFICES ASSUME NEW c \in Commands, NEW k \in Nat, Batch(c, k) PROVE Batch(c, k)'
  BY DEF Stored
<1> DEFINE b == Target[c]
<1>1. b \in Aggregates /\ Parts \in Nat \ {0}
  BY ProcessingAssumption
<1>2. /\ Len(stream[b]) \in Nat /\ Len(stream'[b]) \in Nat /\ Len(stream[b]) <= Len(stream'[b])
      /\ \A i \in 1..Len(stream[b]) : stream'[b][i] = stream[b][i]
  BY <1>1, StreamFacts
<1>3. k \in Parts..Len(stream[b]) /\ \A p \in 1..Parts : stream[b][k - Parts + p] = [cmd |-> c, part |-> p]
  BY DEF Batch
<1>4. k \in Parts..Len(stream'[b])
  BY <1>1, <1>2, <1>3
<1>5. \A p \in 1..Parts : k - Parts + p \in 1..Len(stream[b])
  BY <1>1, <1>2, <1>3
<1>6. \A p \in 1..Parts : stream'[b][k - Parts + p] = [cmd |-> c, part |-> p]
  BY <1>2, <1>3, <1>5
<1> QED
  BY <1>4, <1>6 DEF Batch

\* An event begins or completes only its own command.
LEMMA OtherEvents ==
  ASSUME TypeOK, NEW a \in Aggregates, NEW v \in Event,
         stream' = [stream EXCEPT ![a] = Append(@, v)],
         NEW c \in Commands
  PROVE  /\ v.cmd # c => (Begun(c)' => Begun(c)) /\ Completions(c)' = Completions(c)
         /\ v # [cmd |-> c, part |-> Parts] => Completions(c)' = Completions(c)
         /\ Completions(c)' \subseteq Completions(c) \union {Len(stream[Target[c]]) + 1}
<1> DEFINE b == Target[c]
           done == [cmd |-> c, part |-> Parts]
<1>1. b \in Aggregates
  BY ProcessingAssumption
<1>2. /\ Len(stream[b]) \in Nat /\ Len(stream'[b]) \in Nat /\ Len(stream[b]) <= Len(stream'[b])
      /\ \A i \in 1..Len(stream[b]) : stream'[b][i] = stream[b][i]
      /\ b = a => Len(stream'[b]) = Len(stream[b]) + 1 /\ stream'[b][Len(stream[b]) + 1] = v
      /\ b # a => stream'[b] = stream[b]
  BY <1>1, StreamFacts
<1>3. \A i \in 1..Len(stream'[b]) : i \in 1..Len(stream[b]) \/ (b = a /\ i = Len(stream[b]) + 1 /\ stream'[b][i] = v)
  BY <1>2
<1>4. \A i \in 1..Len(stream[b]) : i \in 1..Len(stream'[b])
  BY <1>2
<1>5. Completions(c) = {i \in 1..Len(stream[b]) : stream[b][i] = done} /\
      Completions(c)' = {i \in 1..Len(stream'[b]) : stream'[b][i] = done}
  BY DEF Completions
<1>6. v.cmd # c => v # done
  OBVIOUS
<1>7. v # done => Completions(c)' = Completions(c)
  BY <1>2, <1>3, <1>4, <1>5
<1>8. Completions(c)' \subseteq Completions(c) \union {Len(stream[b]) + 1}
  BY <1>2, <1>3, <1>5
<1>9. ASSUME v.cmd # c, Begun(c)' PROVE Begun(c)
  <2>1. PICK i \in 1..Len(stream'[b]) : stream'[b][i].cmd = c
    BY <1>9 DEF Begun
  <2>2. i \in 1..Len(stream[b]) /\ stream[b][i].cmd = c
    BY <1>2, <1>3, <1>9, <2>1
  <2> QED
    BY <2>2 DEF Begun
<1> QED
  BY <1>6, <1>7, <1>8, <1>9

\* Completions are finitely many, and there is none of a command not begun.
LEMMA CompletionsFacts ==
  ASSUME TypeOK, NEW c \in Commands
  PROVE  /\ IsFiniteSet(Completions(c)) /\ Cardinality(Completions(c)) \in Nat
         /\ ~Begun(c) => Cardinality(Completions(c)) = 0
<1>1. Target[c] \in Aggregates
  BY ProcessingAssumption
<1>2. Len(stream[Target[c]]) \in Nat
  BY <1>1 DEF TypeOK
<1>3. IsFiniteSet(1..Len(stream[Target[c]]))
  BY <1>2, FS_Interval
<1>4. Completions(c) \subseteq 1..Len(stream[Target[c]])
  BY DEF Completions
<1>5. IsFiniteSet(Completions(c)) /\ Cardinality(Completions(c)) \in Nat
  BY <1>3, <1>4, FS_Subset, FS_CardinalityType
<1>6. ~Begun(c) => Completions(c) = {}
  BY DEF Begun, Completions
<1> QED
  BY <1>5, <1>6, FS_EmptySet

LEMMA StreamsUnchanged ==
  ASSUME stream' = stream
  PROVE  \A c \in Commands :
           /\ Stored(c)' = Stored(c)
           /\ Begun(c)' = Begun(c)
           /\ Completions(c)' = Completions(c)
BY DEF Stored, Batch, Begun, Completions

-----------------------------------------------------------------------------
LEMMA Initial == Init => PInv
<1> SUFFICES ASSUME Init PROVE PInv
  OBVIOUS
<1>1. /\ sent = <<>> /\ queue = <<>> /\ stream = [a \in Aggregates |-> <<>>]
      /\ handler = [pc |-> "down", expected |-> 0, part |-> 0] /\ foreign = 0 /\ faults = 0
  BY DEF Init, Down
<1>2. Parts \in Nat \ {0} /\ MaxForeign \in Nat /\ MaxFaults \in Nat /\ Target \in [Commands -> Aggregates]
  BY ProcessingAssumption
<1>3. TypeOK
  BY <1>1, <1>2 DEF TypeOK
<1>4. \A c : ~Contains(sent, c) /\ ~Contains(queue, c)
  BY <1>1 DEF Contains
<1>5. \A c \in Commands : ~Begun(c)
  BY <1>1, <1>2 DEF Begun
<1>6. QueueIsSuffix
  BY <1>1 DEF QueueIsSuffix
<1>7. NothingEarly /\ GoneIsStored
  BY <1>4, <1>5 DEF NothingEarly, GoneIsStored, Gone
<1>8. InProgress /\ HandledIsStored
  BY <1>1 DEF InProgress, HandledIsStored
<1>9. FewCompletions
  BY <1>1, <1>3, <1>5, CompletionsFacts DEF FewCompletions
<1> QED
  BY <1>3, <1>6, <1>7, <1>8, <1>9 DEF PInv

\* A command is sent: nothing of it was stored before.
LEMMA SendStep ==
  ASSUME PInv, NEW c \in Commands, Send(c)
  PROVE  PInv'
<1>1. /\ ~Contains(sent, c) /\ sent' = Append(sent, c) /\ queue' = Append(queue, c)
      /\ UNCHANGED <<stream, handler, foreign, faults>>
  BY DEF Send
<1>2. TypeOK /\ QueueIsSuffix /\ sent \in Seq(Commands) /\ queue \in Seq(Commands)
  BY DEF PInv, TypeOK
<1>3. /\ \A d : Contains(sent', d) <=> Contains(sent, d) \/ d = c
      /\ \A d : Contains(queue', d) <=> Contains(queue, d) \/ d = c
  BY <1>1, <1>2, ContainsAppend
<1>4. ~Contains(queue, c) /\ ~Begun(c)
  <2>1. ~Contains(queue, c)
    BY <1>1, <1>2, QueueFacts
  <2>2. ~Gone(c) /\ ~AtHead(c)
    BY <1>1, <1>2, <2>1, QueueFacts DEF Gone, AtHead
  <2> QED
    BY <2>1, <2>2 DEF PInv, NothingEarly
<1>5. queue # <<>> => Head(queue') = Head(queue) /\ queue' # <<>>
  BY <1>1, <1>2
<1>6. TypeOK'
  <2>1. sent' \in Seq(Commands) /\ queue' \in Seq(Commands) /\ queue' # <<>>
    BY <1>1, <1>2, AppendFacts
  <2> QED
    BY <1>1, <1>2, <2>1 DEF TypeOK
<1>7. QueueIsSuffix'
  <2>1. /\ Len(sent) \in Nat /\ Len(sent') = Len(sent) + 1
        /\ sent'[Len(sent) + 1] = c /\ \A i \in 1..Len(sent) : sent'[i] = sent[i]
        /\ Len(queue) \in Nat /\ Len(queue') = Len(queue) + 1
        /\ queue'[Len(queue) + 1] = c /\ \A i \in 1..Len(queue) : queue'[i] = queue[i]
    BY <1>1, <1>2, AppendFacts
  <2>2. \A i \in 1..Len(sent) : sent[i] # c
    BY <1>1 DEF Contains
  <2>3. /\ \A i, j \in 1..Len(sent) : sent[i] = sent[j] => i = j
        /\ Len(queue) <= Len(sent)
        /\ \A i \in 1..Len(queue) : queue[i] = sent[Len(sent) - Len(queue) + i]
    BY <1>2 DEF QueueIsSuffix
  <2>4. ASSUME NEW i \in 1..Len(sent'), NEW j \in 1..Len(sent'), sent'[i] = sent'[j] PROVE i = j
    <3>1. /\ i \in 1..Len(sent) \/ (i = Len(sent) + 1 /\ sent'[i] = c)
          /\ j \in 1..Len(sent) \/ (j = Len(sent) + 1 /\ sent'[j] = c)
      BY <2>1
    <3> QED
      BY <2>1, <2>2, <2>3, <2>4, <3>1
  <2>5. ASSUME NEW i \in 1..Len(queue') PROVE queue'[i] = sent'[Len(sent') - Len(queue') + i]
    <3>1. CASE i = Len(queue) + 1
      BY <2>1, <2>3, <3>1
    <3>2. CASE i \in 1..Len(queue)
      <4>1. Len(sent) - Len(queue) + i \in 1..Len(sent)
        BY <2>1, <2>3, <3>2
      <4>2. Len(sent') - Len(queue') + i = Len(sent) - Len(queue) + i
        BY <2>1
      <4> QED
        BY <2>1, <2>3, <3>2, <4>1, <4>2
    <3> QED
      BY <2>1, <3>1, <3>2
  <2>6. Len(queue') <= Len(sent')
    BY <2>1, <2>3
  <2> QED
    BY <2>4, <2>5, <2>6 DEF QueueIsSuffix
<1>8. \A d \in Commands : /\ Stored(d)' = Stored(d) /\ Begun(d)' = Begun(d)
                          /\ Completions(d)' = Completions(d)
  BY <1>1, StreamsUnchanged
<1>9. \A d \in Commands \ {c} : (Gone(d)' <=> Gone(d)) /\ (AtHead(d) => AtHead(d)')
  BY <1>3, <1>5 DEF Gone, AtHead
<1>10. ~Gone(c)'
  BY <1>3 DEF Gone
<1>11. NothingEarly'
  BY <1>4, <1>8, <1>9 DEF PInv, NothingEarly
<1>12. GoneIsStored'
  BY <1>8, <1>9, <1>10 DEF PInv, GoneIsStored
<1>13. handler.pc \in {"append", "handled"} => queue # <<>> /\ Head(queue) \in Commands
  BY <1>2, QueueFacts DEF TypeOK
<1>14. InProgress'
  BY <1>1, <1>5, <1>13 DEF PInv, InProgress
<1>15. HandledIsStored'
  BY <1>1, <1>5, <1>8, <1>13 DEF PInv, HandledIsStored
<1>16. FewCompletions'
  <2>1. faults \in Nat
    BY <1>2, ProcessingAssumption DEF TypeOK
  <2>2. Cardinality(Completions(c)) = 0
    BY <1>2, <1>4, CompletionsFacts
  <2>3. ASSUME NEW d \in Commands, d # c
        PROVE  /\ Cardinality(Completions(d)') <= 1 + faults'
               /\ Contains(queue', d) /\ ~(AtHead(d)' /\ handler'.pc = "handled") =>
                     Cardinality(Completions(d)') <= faults'
    BY <1>1, <1>3, <1>8, <1>9, <2>3 DEF PInv, FewCompletions
  <2> QED
    BY <1>1, <1>8, <2>1, <2>2, <2>3 DEF FewCompletions
<1> QED
  BY <1>6, <1>7, <1>11, <1>12, <1>14, <1>15, <1>16 DEF PInv

\* Another process stores an event.
LEMMA ForeignStep ==
  ASSUME PInv, NEW a \in Aggregates, ForeignAppend(a)
  PROVE  PInv'
<1> DEFINE v == [cmd |-> Other, part |-> 0]
<1>1. /\ foreign < MaxForeign /\ foreign' = foreign + 1
      /\ stream' = [stream EXCEPT ![a] = Append(@, v)]
      /\ UNCHANGED <<sent, queue, handler, faults>>
  BY DEF ForeignAppend
<1>2. TypeOK /\ v \in Event /\ \A c \in Commands : v.cmd # c
  BY OtherAssumption, ProcessingAssumption DEF PInv, Event
<1> HIDE DEF v
<1>3. /\ \A c \in Commands : Stored(c) => Stored(c)'
      /\ \A c \in Commands : (Begun(c)' => Begun(c)) /\ Completions(c)' = Completions(c)
  BY <1>1, <1>2, StoredStays, OtherEvents
<1>4. stream' \in [Aggregates -> Seq(Event)]
      /\ \A b \in Aggregates : /\ Len(stream[b]) \in Nat /\ Len(stream'[b]) \in Nat
                               /\ Len(stream[b]) <= Len(stream'[b])
                               /\ \A k \in 1..Len(stream[b]) : stream'[b][k] = stream[b][k]
  BY <1>1, <1>2, StreamFacts
<1>5. TypeOK'
  <2>1. foreign' \in 0..MaxForeign
    BY <1>1, <1>2, ProcessingAssumption DEF TypeOK
  <2> QED
    BY <1>1, <1>2, <1>4, <2>1 DEF TypeOK
<1>6. QueueIsSuffix'
  BY <1>1 DEF PInv, QueueIsSuffix
<1>7. \A c : Gone(c)' = Gone(c) /\ AtHead(c)' = AtHead(c)
  BY <1>1 DEF Gone, AtHead
<1>8. NothingEarly' /\ GoneIsStored'
  BY <1>3, <1>7 DEF PInv, NothingEarly, GoneIsStored
<1>9. FewCompletions'
  BY <1>1, <1>3, <1>7 DEF PInv, FewCompletions
<1>10. handler.pc \in {"append", "handled"} => Head(queue) \in Commands /\ Target[Head(queue)] \in Aggregates
  BY <1>2, QueueFacts DEF PInv, TypeOK
<1>11. HandledIsStored'
  BY <1>1, <1>3, <1>10 DEF PInv, HandledIsStored
<1>12. InProgress'
  <2> SUFFICES ASSUME handler.pc = "append" PROVE InProgress'
    BY <1>1 DEF InProgress
  <2> DEFINE b == Target[Head(queue)] p == handler.part e == handler.expected
  <2>1. /\ p >= 1 /\ e \in (p - 1)..Len(stream[b])
        /\ \A q \in 1..(p - 1) : stream[b][e - p + 1 + q] = [cmd |-> Head(queue), part |-> q]
    BY DEF PInv, InProgress
  <2>2. p \in Nat /\ e \in Nat
    BY <1>2, ProcessingAssumption DEF TypeOK
  <2>3. b \in Aggregates
    BY <1>10
  <2>4. e \in (p - 1)..Len(stream'[b])
    BY <1>4, <2>1, <2>2, <2>3
  <2>5. \A q \in 1..(p - 1) : e - p + 1 + q \in 1..Len(stream[b])
    <3>1. Len(stream[b]) \in Nat
      BY <1>4, <2>3
    <3>2. p >= 1 /\ e >= p - 1 /\ e <= Len(stream[b])
      BY <2>1, <2>2, <3>1
    <3> HIDE DEF p, e, b
    <3> QED
      BY <2>2, <3>1, <3>2
  <2>6. \A q \in 1..(p - 1) : stream'[b][e - p + 1 + q] = [cmd |-> Head(queue), part |-> q]
    BY <1>4, <2>1, <2>3, <2>5
  <2> QED
    BY <1>1, <2>1, <2>4, <2>6 DEF InProgress
<1> QED
  BY <1>5, <1>6, <1>8, <1>9, <1>11, <1>12 DEF PInv

\* The thread starts, loads, is refused, throws or dies.  What it loses of a
\* head that was handled already is a completion, paid for by a fault.
LEMMA ThreadStep ==
  ASSUME PInv, Start \/ Load \/ Conflict \/ Reject \/ Throw \/ Crash
  PROVE  PInv'
<1>1. TypeOK /\ faults \in Nat /\ faults <= MaxFaults
  BY ProcessingAssumption DEF PInv, TypeOK
<1>2. UNCHANGED <<sent, queue, stream, foreign>>
  BY DEF Start, Load, Conflict, Reject, Throw, Crash, vars
<1>3. \/ faults' = faults + 1 /\ faults < MaxFaults
      \/ faults' = faults /\ (handler.pc = "handled" => handler' = handler)
  BY DEF Start, Load, Conflict, Reject, Throw, Crash, vars
<1>4. \/ handler' = handler
      \/ handler' = Peeking \/ handler' = Down
      \/ Load
  BY DEF Start, Conflict, Reject, Throw, Crash, vars
<1>5. Load => /\ queue # <<>> /\ Head(queue) \in Commands /\ Target[Head(queue)] \in Aggregates
              /\ handler' = [pc |-> "append", expected |-> Len(stream[Target[Head(queue)]]), part |-> 1]
              /\ Len(stream[Target[Head(queue)]]) \in Nat
  <2>1. queue # <<>> => /\ Head(queue) \in Commands /\ Target[Head(queue)] \in Aggregates
                        /\ Len(stream[Target[Head(queue)]]) \in Nat
    BY <1>1, QueueFacts DEF PInv, TypeOK
  <2> QED
    BY <2>1 DEF Load, Accepted
<1>6. TypeOK'
  <2>1. faults' \in 0..MaxFaults
    BY <1>1, <1>3, ProcessingAssumption
  <2>2. /\ handler' \in [pc : {"down", "peek", "append", "handled"}, expected : Nat, part : 0..Parts]
        /\ handler'.pc \in {"append", "handled"} => queue # <<>>
    BY <1>1, <1>4, <1>5, ProcessingAssumption DEF TypeOK, Peeking, Down
  <2> QED
    BY <1>1, <1>2, <2>1, <2>2 DEF TypeOK
<1>7. QueueIsSuffix'
  BY <1>2 DEF PInv, QueueIsSuffix
<1>8. \A c : Gone(c)' = Gone(c) /\ AtHead(c)' = AtHead(c)
  BY <1>2 DEF Gone, AtHead
<1>9. \A c \in Commands : /\ Stored(c)' = Stored(c) /\ Begun(c)' = Begun(c)
                          /\ Completions(c)' = Completions(c)
  BY <1>2, StreamsUnchanged
<1>10. NothingEarly' /\ GoneIsStored'
  BY <1>8, <1>9 DEF PInv, NothingEarly, GoneIsStored
<1>11. InProgress'
  <2>1. CASE handler' = handler
    BY <1>2, <2>1 DEF PInv, InProgress
  <2>2. CASE handler' = Peeking \/ handler' = Down
    BY <2>2 DEF InProgress, Peeking, Down
  <2>3. CASE Load
    BY <1>2, <1>5, <2>3 DEF InProgress
  <2> QED
    BY <1>4, <2>1, <2>2, <2>3
<1>12. HandledIsStored'
  <2>1. CASE handler' = handler
    <3> SUFFICES ASSUME handler.pc = "handled" PROVE HandledIsStored'
      BY <2>1 DEF HandledIsStored
    <3>1. Head(queue) \in Commands
      BY <1>1, QueueFacts DEF TypeOK
    <3> QED
      BY <1>2, <1>9, <2>1, <3>1 DEF PInv, HandledIsStored
  <2>2. handler' = Peeking \/ handler' = Down \/ Load => handler'.pc # "handled"
    BY <1>5 DEF Peeking, Down
  <2> QED
    BY <1>4, <2>1, <2>2 DEF HandledIsStored
<1>13. FewCompletions'
  <2> SUFFICES ASSUME NEW c \in Commands
               PROVE  /\ Cardinality(Completions(c)) <= 1 + faults'
                      /\ Contains(queue, c) /\ ~(AtHead(c) /\ handler'.pc = "handled") =>
                            Cardinality(Completions(c)) <= faults'
    BY <1>2, <1>8, <1>9 DEF FewCompletions
  <2>1. Cardinality(Completions(c)) \in Nat
    BY <1>1, CompletionsFacts
  <2>2. /\ Cardinality(Completions(c)) <= 1 + faults
        /\ Contains(queue, c) /\ ~(AtHead(c) /\ handler.pc = "handled") =>
              Cardinality(Completions(c)) <= faults
    BY DEF PInv, FewCompletions
  <2> QED
    BY <1>1, <1>3, <2>1, <2>2
<1> QED
  BY <1>6, <1>7, <1>10, <1>11, <1>12, <1>13 DEF PInv

\* The next event of the head is stored: the events before it are still there,
\* and the last one makes the batch whole.
LEMMA StoreStep ==
  ASSUME PInv, StoreNext
  PROVE  PInv'
<1>1. /\ handler.pc = "append" /\ handler.expected = Len(stream[Target[Head(queue)]])
      /\ UNCHANGED <<sent, queue, foreign, faults>>
  BY DEF StoreNext
<1>2. /\ TypeOK /\ QueueIsSuffix /\ faults \in Nat /\ Parts \in Nat \ {0}
      /\ handler \in [pc : {"down", "peek", "append", "handled"}, expected : Nat, part : 0..Parts]
  BY ProcessingAssumption DEF PInv, TypeOK
<1>3. queue # <<>> /\ Contains(queue, Head(queue))
  BY <1>1, <1>2, QueueFacts DEF TypeOK
<1>4a. PICK c \in Commands, a \in Aggregates, p \in Nat, e \in Nat :
         c = Head(queue) /\ a = Target[c] /\ p = handler.part /\ e = handler.expected
  <2>1. Head(queue) \in Commands /\ Target[Head(queue)] \in Aggregates
    BY <1>2, <1>3, QueueFacts
  <2>2. handler.part \in Nat /\ handler.expected \in Nat
    BY <1>2
  <2> QED
    BY <2>1, <2>2
<1>4. /\ c = Head(queue) /\ a = Target[c] /\ p = handler.part /\ e = handler.expected
      /\ e = Len(stream[a]) /\ e >= p - 1 /\ p >= 1 /\ p <= Parts
      /\ \A q \in 1..(p - 1) : stream[a][e - p + 1 + q] = [cmd |-> c, part |-> q]
  <2>1. p >= 1 /\ p <= Parts
    BY <1>1, <1>2, <1>4a DEF PInv, InProgress
  <2>2. /\ e >= p - 1
        /\ \A q \in 1..(p - 1) : stream[a][e - p + 1 + q] = [cmd |-> c, part |-> q]
    BY <1>1, <1>4a, <2>1 DEF PInv, InProgress
  <2> QED
    BY <1>1, <1>4a, <2>1, <2>2
<1> DEFINE v == [cmd |-> c, part |-> p]
<1>5. /\ p = Parts => handler'.pc = "handled"
      /\ p # Parts => handler'.pc = "append" /\ handler'.part = p + 1 /\ handler'.expected = e + 1
      /\ handler' \in [pc : {"down", "peek", "append", "handled"}, expected : Nat, part : 0..Parts]
  <2>1. CASE p = Parts
    <3>1. handler' = [handler EXCEPT !.pc = "handled"]
      BY <1>4, <2>1 DEF StoreNext
    <3> QED
      BY <1>2, <2>1, <3>1
  <2>2. CASE p # Parts
    <3>1. handler' = [handler EXCEPT !.expected = e + 1, !.part = p + 1]
      BY <1>4, <2>2 DEF StoreNext
    <3>2. p + 1 \in 0..Parts /\ e + 1 \in Nat
      BY <1>2, <1>4, <2>2
    <3> QED
      BY <1>1, <1>2, <2>2, <3>1, <3>2
  <2> QED
    BY <2>1, <2>2
<1>6. v \in Event /\ v.cmd = c /\ \A d : d # c => v.cmd # d
  BY <1>2, <1>3, <1>4 DEF Event
<1> HIDE DEF v
<1>7. /\ stream' = [stream EXCEPT ![a] = Append(@, v)]
      /\ stream' \in [Aggregates -> Seq(Event)]
      /\ Len(stream'[a]) = e + 1 /\ stream'[a][e + 1] = v
      /\ \A k \in 1..e : stream'[a][k] = stream[a][k]
  <2>1. stream' = [stream EXCEPT ![a] = Append(@, v)]
    BY <1>4 DEF StoreNext, v
  <2>2. /\ stream' \in [Aggregates -> Seq(Event)]
        /\ Len(stream'[a]) = Len(stream[a]) + 1 /\ stream'[a][Len(stream[a]) + 1] = v
        /\ \A k \in 1..Len(stream[a]) : stream'[a][k] = stream[a][k]
    BY <1>2, <1>6, <2>1, StreamFacts
  <2> QED
    BY <1>4, <2>1, <2>2
<1>8. \A q \in 1..p : stream'[a][e - p + 1 + q] = [cmd |-> c, part |-> q]
  <2> SUFFICES ASSUME NEW q \in 1..p PROVE stream'[a][e - p + 1 + q] = [cmd |-> c, part |-> q]
    OBVIOUS
  <2>1. CASE q = p
    <3>1. e - p + 1 + q = e + 1
      BY <1>4, <2>1
    <3> QED
      BY <1>7, <2>1, <3>1 DEF v
  <2>2. CASE q \in 1..(p - 1)
    <3>1. e - p + 1 + q \in 1..e
      <4>1. p \in Nat /\ e \in Nat /\ e >= p - 1
        BY <1>4
      <4>2. q \in Nat /\ q >= 1 /\ q <= p - 1
        BY <2>2, <4>1
      <4> QED
        BY <4>1, <4>2
    <3>2. stream'[a][e - p + 1 + q] = stream[a][e - p + 1 + q]
      BY <1>7, <3>1
    <3>3. stream[a][e - p + 1 + q] = [cmd |-> c, part |-> q]
      BY <1>4, <2>2
    <3> QED
      BY <3>2, <3>3
  <2> QED
    BY <1>4, <2>1, <2>2
<1>9. /\ \A d \in Commands : Stored(d) => Stored(d)'
      /\ \A d \in Commands \ {c} : (Begun(d)' => Begun(d)) /\ Completions(d)' = Completions(d)
      /\ v # [cmd |-> c, part |-> Parts] => Completions(c)' = Completions(c)
      /\ Completions(c)' \subseteq Completions(c) \union {e + 1}
  <2>1. \A d \in Commands : Stored(d) => Stored(d)'
    BY <1>2, <1>6, <1>7, StoredStays
  <2>2. \A d \in Commands \ {c} : (Begun(d)' => Begun(d)) /\ Completions(d)' = Completions(d)
    BY <1>2, <1>6, <1>7, OtherEvents
  <2>3. /\ v # [cmd |-> c, part |-> Parts] => Completions(c)' = Completions(c)
        /\ Completions(c)' \subseteq Completions(c) \union {Len(stream[Target[c]]) + 1}
    BY <1>2, <1>6, <1>7, OtherEvents
  <2> QED
    BY <1>4, <2>1, <2>2, <2>3
<1>10. TypeOK'
  <2>1. queue' # <<>>
    BY <1>1, <1>3
  <2> QED
    BY <1>1, <1>2, <1>5, <1>7, <2>1 DEF TypeOK
<1>11. QueueIsSuffix'
  BY <1>1 DEF PInv, QueueIsSuffix
<1>12. \A d : Gone(d)' = Gone(d) /\ AtHead(d)' = AtHead(d)
  BY <1>1 DEF Gone, AtHead
<1>13. NothingEarly' /\ GoneIsStored'
  <2>1. AtHead(c)
    BY <1>3, <1>4 DEF AtHead
  <2> QED
    BY <1>9, <1>12, <2>1 DEF PInv, NothingEarly, GoneIsStored
<1>14. InProgress'
  <2>1. CASE p = Parts
    BY <1>5, <2>1 DEF InProgress
  <2>2. CASE p # Parts
    <3>1. handler'.part = p + 1 /\ handler'.expected = e + 1
      BY <1>5, <2>2
    <3>2. Head(queue') = c /\ Target[Head(queue')] = a
      BY <1>1, <1>4
    <3>3. /\ handler'.part >= 1 /\ handler'.part - 1 = p
          /\ handler'.expected - handler'.part + 1 = e - p + 1
      <4>1. p + 1 >= 1 /\ (p + 1) - 1 = p /\ (e + 1) - (p + 1) + 1 = e - p + 1
        OBVIOUS
      <4> QED
        BY <3>1, <4>1
    <3>4. handler'.expected \in (handler'.part - 1)..Len(stream'[a])
      BY <1>4, <1>7, <3>1, <3>3
    <3>5. \A q \in 1..(handler'.part - 1) :
            stream'[a][handler'.expected - handler'.part + 1 + q] = [cmd |-> c, part |-> q]
      BY <1>8, <3>3
    <3> QED
      BY <3>2, <3>3, <3>4, <3>5 DEF InProgress
  <2> QED
    BY <2>1, <2>2
<1>15. HandledIsStored'
  <2> SUFFICES ASSUME handler'.pc = "handled" PROVE Stored(Head(queue))'
    BY DEF HandledIsStored
  <2>1. p = Parts /\ Head(queue') = c
    BY <1>1, <1>4a, <1>5
  <2>2. e + 1 \in Parts..Len(stream'[a]) /\ e + 1 \in Nat
    BY <1>2, <1>4, <1>7, <2>1
  <2>3. \A q \in 1..Parts : stream'[a][(e + 1) - Parts + q] = [cmd |-> c, part |-> q]
    <3>1. (e + 1) - Parts = e - p + 1
      BY <1>4, <2>1
    <3> QED
      BY <1>8, <2>1, <3>1
  <2>4. Batch(Head(queue), e + 1)'
    BY <1>4, <2>1, <2>2, <2>3 DEF Batch
  <2> QED
    BY <2>2, <2>4 DEF Stored
<1>16. FewCompletions'
  <2>1. ASSUME NEW d \in Commands, d # c
        PROVE  /\ Cardinality(Completions(d)') <= 1 + faults'
               /\ Contains(queue', d) /\ ~(AtHead(d)' /\ handler'.pc = "handled") =>
                     Cardinality(Completions(d)') <= faults'
    <3>1. ~AtHead(d)
      BY <1>4, <2>1 DEF AtHead
    <3> QED
      BY <1>1, <1>9, <2>1, <3>1 DEF PInv, FewCompletions
  <2>2. /\ IsFiniteSet(Completions(c)) /\ Cardinality(Completions(c)) \in Nat
        /\ Cardinality(Completions(c)) <= faults
    BY <1>1, <1>2, <1>3, <1>4, CompletionsFacts DEF PInv, FewCompletions
  <2>3. /\ p # Parts => Cardinality(Completions(c)') <= faults
        /\ Cardinality(Completions(c)') <= 1 + faults
    <3>1. p # Parts => Completions(c)' = Completions(c)
      BY <1>9 DEF v
    <3>2. /\ IsFiniteSet(Completions(c) \union {e + 1})
          /\ Cardinality(Completions(c) \union {e + 1}) \in Nat
          /\ Cardinality(Completions(c) \union {e + 1}) <= Cardinality(Completions(c)) + 1
      <4>1. IsFiniteSet(Completions(c) \union {e + 1})
        BY <2>2, FS_AddElement
      <4>2. Cardinality(Completions(c) \union {e + 1}) \in {Cardinality(Completions(c)), Cardinality(Completions(c)) + 1}
        BY <2>2, FS_AddElement
      <4> QED
        BY <2>2, <4>1, <4>2
    <3>3. /\ Cardinality(Completions(c)') <= Cardinality(Completions(c) \union {e + 1})
          /\ Cardinality(Completions(c)') \in Nat
      BY <1>9, <3>2, FS_Subset, FS_CardinalityType
    <3> QED
      BY <1>2, <2>2, <3>1, <3>2, <3>3
  <2>4. AtHead(c)'
    BY <1>3, <1>4, <1>12 DEF AtHead
  <2> QED
    BY <1>1, <1>5, <2>1, <2>3, <2>4 DEF FewCompletions
<1> QED
  BY <1>10, <1>11, <1>13, <1>14, <1>15, <1>16 DEF PInv

\* The message is removed: it is gone, and all of it is stored.
LEMMA ReceiveStep ==
  ASSUME PInv, ReceiveById
  PROVE  PInv'
<1>1. /\ handler.pc = "handled" /\ queue' = Tail(queue) /\ handler' = Peeking
      /\ UNCHANGED <<sent, stream, foreign, faults>>
  BY DEF ReceiveById
<1>2. TypeOK /\ QueueIsSuffix /\ queue \in Seq(Commands) /\ sent \in Seq(Commands)
  BY DEF PInv, TypeOK
<1>3. PICK c \in Commands :
        /\ queue # <<>> /\ c = Head(queue)
        /\ Contains(queue, c) /\ ~Contains(queue', c) /\ Contains(sent, c)
  BY <1>1, <1>2, QueueFacts DEF TypeOK
<1>4. \A d : Contains(queue, d) <=> d = c \/ Contains(queue', d)
  BY <1>1, <1>2, <1>3, ContainsTail
<1>5. /\ Len(queue) \in Nat \ {0} /\ queue' \in Seq(Commands) /\ Len(queue') = Len(queue) - 1
      /\ \A i \in 1..(Len(queue) - 1) : queue'[i] = queue[i + 1]
  BY <1>1, <1>2, <1>3, TailFacts
<1>6. TypeOK'
  BY <1>1, <1>2, <1>5, ProcessingAssumption DEF TypeOK, Peeking
<1>7. QueueIsSuffix'
  <2>1. /\ \A i, j \in 1..Len(sent) : sent[i] = sent[j] => i = j
        /\ Len(queue) <= Len(sent)
        /\ \A i \in 1..Len(queue) : queue[i] = sent[Len(sent) - Len(queue) + i]
    BY <1>2 DEF QueueIsSuffix
  <2>2. Len(sent) \in Nat
    BY <1>2
  <2>3. ASSUME NEW i \in 1..Len(queue') PROVE queue'[i] = sent[Len(sent) - Len(queue') + i]
    <3>1. i \in 1..(Len(queue) - 1) /\ i + 1 \in 1..Len(queue)
      BY <1>5
    <3>2. Len(sent) - Len(queue) + (i + 1) = Len(sent) - Len(queue') + i
      BY <1>5, <2>2
    <3> QED
      BY <1>5, <2>1, <3>1, <3>2
  <2>4. Len(queue') <= Len(sent)
    BY <1>5, <2>1, <2>2
  <2> QED
    BY <1>1, <2>1, <2>3, <2>4 DEF QueueIsSuffix
<1>8. \A d \in Commands : /\ Stored(d)' = Stored(d) /\ Begun(d)' = Begun(d)
                          /\ Completions(d)' = Completions(d)
  BY <1>1, StreamsUnchanged
<1>9. /\ Gone(c)' /\ \A d \in Commands : Gone(d) => Gone(d)'
      /\ \A d \in Commands : Gone(d)' => Gone(d) \/ d = c
  BY <1>1, <1>3, <1>4 DEF Gone
<1>10. \A d \in Commands : AtHead(d) => d = c
  BY <1>3 DEF AtHead
<1>11. Stored(c)
  BY <1>1, <1>3 DEF PInv, HandledIsStored
<1>12. NothingEarly'
  BY <1>8, <1>9, <1>10 DEF PInv, NothingEarly
<1>13. GoneIsStored'
  BY <1>3, <1>8, <1>9, <1>11 DEF PInv, GoneIsStored
<1>14. InProgress' /\ HandledIsStored'
  BY <1>1 DEF InProgress, HandledIsStored, Peeking
<1>15. FewCompletions'
  <2> SUFFICES ASSUME NEW d \in Commands
               PROVE  /\ Cardinality(Completions(d)) <= 1 + faults
                      /\ Contains(queue', d) => Cardinality(Completions(d)) <= faults
    BY <1>1, <1>8 DEF FewCompletions, Peeking
  <2>1. Contains(queue', d) => Contains(queue, d) /\ ~AtHead(d)
    BY <1>3, <1>4, <1>10
  <2> QED
    BY <2>1 DEF PInv, FewCompletions
<1> QED
  BY <1>6, <1>7, <1>12, <1>13, <1>14, <1>15 DEF PInv

LEMMA Step == PInv /\ [Next]_vars => PInv'
<1> SUFFICES ASSUME PInv, [Next]_vars PROVE PInv'
  OBVIOUS
<1>1. CASE \E c \in Commands : Send(c)
  BY <1>1, SendStep
<1>2. CASE \E a \in Aggregates : ForeignAppend(a)
  BY <1>2, ForeignStep
<1>3. CASE Handle
  BY <1>3, ThreadStep, StoreStep, ReceiveStep DEF Handle
<1>4. CASE Reject \/ Throw \/ Crash
  BY <1>4, ThreadStep
<1>5. CASE UNCHANGED vars
  <2>1. Stored(Head(queue))' = Stored(Head(queue))
    BY <1>5 DEF vars, Stored, Batch
  <2>2. \A c \in Commands : /\ Stored(c)' = Stored(c) /\ Begun(c)' = Begun(c)
                            /\ Completions(c)' = Completions(c)
    BY <1>5, StreamsUnchanged DEF vars
  <2>3. \A c : Gone(c)' = Gone(c) /\ AtHead(c)' = AtHead(c)
    BY <1>5 DEF vars, Gone, AtHead
  <2>4. TypeOK' /\ QueueIsSuffix' /\ InProgress'
    BY <1>5 DEF vars, PInv, TypeOK, QueueIsSuffix, InProgress
  <2>5. NothingEarly' /\ GoneIsStored' /\ FewCompletions'
    BY <1>5, <2>2, <2>3 DEF vars, PInv, NothingEarly, GoneIsStored, FewCompletions
  <2>6. HandledIsStored'
    BY <1>5, <2>1 DEF vars, PInv, HandledIsStored
  <2> QED
    BY <2>4, <2>5, <2>6 DEF PInv
<1> QED
  BY <1>1, <1>2, <1>3, <1>4, <1>5 DEF Next

THEOREM Invariance == Spec => []PInv
BY Initial, Step, PTL DEF Spec

\* The queue, the streams and the thread keep their types, whatever is sent and
\* whatever throws or dies.
THEOREM TypeCorrect == Spec => []TypeOK
<1>1. PInv => TypeOK
  BY DEF PInv
<1> QED
  BY <1>1, Invariance, PTL

\* MSMQMessageSource loses no command: one that has left the queue has all its
\* events in the stream of its aggregate, in order and with none in between.
THEOREM NoCommandIsLost == Spec => []RemovedMeansStored
<1>1. PInv => RemovedMeansStored
  <2> SUFFICES ASSUME PInv, NEW c \in Commands, Contains(sent, c), ~Contains(queue, c)
               PROVE  \E k \in Completions(c) : \A p \in 1..Parts :
                         stream[Target[c]][k - Parts + p] = [cmd |-> c, part |-> p]
    BY DEF RemovedMeansStored
  <2>1. PICK k \in Nat : Batch(c, k)
    BY DEF PInv, GoneIsStored, Gone, Stored
  <2>2. /\ k \in Parts..Len(stream[Target[c]])
        /\ \A p \in 1..Parts : stream[Target[c]][k - Parts + p] = [cmd |-> c, part |-> p]
    BY <2>1 DEF Batch
  <2>3. Parts \in Nat \ {0} /\ Len(stream[Target[c]]) \in Nat
    BY ProcessingAssumption DEF PInv, TypeOK
  <2>4. k \in 1..Len(stream[Target[c]]) /\ k - Parts + Parts = k /\ Parts \in 1..Parts
    BY <2>1, <2>2, <2>3
  <2>5. k \in Completions(c)
    BY <2>2, <2>4 DEF Completions
  <2> QED
    BY <2>2, <2>5
<1> QED
  BY <1>1, Invariance, PTL

\* The queue is served in its order, over all aggregates: a retry keeps its
\* place, so nothing of a later command is stored while an earlier one waits.
THEOREM CommandsKeepTheirOrder == Spec => []StoredInQueueOrder
<1>1. PInv => StoredInQueueOrder
  <2> SUFFICES ASSUME PInv, NEW i \in 1..Len(sent), NEW j \in 1..Len(sent), i < j,
                      Begun(sent[j]), Contains(queue, sent[i])
               PROVE  FALSE
    BY DEF StoredInQueueOrder
  <2>1. /\ TypeOK /\ sent \in Seq(Commands) /\ queue \in Seq(Commands)
        /\ Len(sent) \in Nat /\ Len(queue) \in Nat
    BY DEF PInv, TypeOK
  <2>2. /\ \A m, n \in 1..Len(sent) : sent[m] = sent[n] => m = n
        /\ Len(queue) <= Len(sent)
        /\ \A m \in 1..Len(queue) : queue[m] = sent[Len(sent) - Len(queue) + m]
    BY DEF PInv, QueueIsSuffix
  <2>3. PICK m \in 1..Len(queue) : queue[m] = sent[i]
    BY DEF Contains
  <2>4. i = Len(sent) - Len(queue) + m
    <3>1. Len(sent) - Len(queue) + m \in 1..Len(sent)
      BY <2>1, <2>2
    <3> QED
      BY <2>2, <2>3, <3>1
  <2>5. sent[j] \in Commands /\ queue # <<>> /\ Head(queue) = queue[1]
    BY <2>1, <2>3
  <2>6. Gone(sent[j]) \/ sent[j] = queue[1]
    BY <2>5 DEF PInv, NothingEarly, AtHead
  <2>7. CASE sent[j] = queue[1]
    <3>1. 1 \in 1..Len(queue) /\ Len(sent) - Len(queue) + 1 \in 1..Len(sent)
      BY <2>1, <2>2, <2>3
    <3>2. j = Len(sent) - Len(queue) + 1
      BY <2>2, <2>7, <3>1
    <3> QED
      BY <2>1, <2>3, <2>4, <3>2
  <2>8. CASE Gone(sent[j])
    <3>1. j - (Len(sent) - Len(queue)) \in 1..Len(queue)
      BY <2>1, <2>2, <2>3, <2>4
    <3>2. Len(sent) - Len(queue) + (j - (Len(sent) - Len(queue))) = j
      BY <2>1
    <3>3. queue[j - (Len(sent) - Len(queue))] = sent[j]
      BY <2>2, <3>1, <3>2
    <3> QED
      BY <2>8, <3>1, <3>3 DEF Gone, Contains
  <2> QED
    BY <2>6, <2>7, <2>8
<1> QED
  BY <1>1, Invariance, PTL

\* At least once, and more often only for a reason: a command is completed
\* again only if something threw or died after its last event was stored.
THEOREM CompletionsAreBounded == Spec => []CompletedTwiceNeedsFaults
<1>1. PInv => CompletedTwiceNeedsFaults
  BY DEF PInv, FewCompletions, CompletedTwiceNeedsFaults
<1> QED
  BY <1>1, Invariance, PTL

-----------------------------------------------------------------------------
\* MessageDispatcher: who is registered, who has run.

\* Handler h is in the list of type t.
Listed(h, t) == \E i \in DOMAIN index[t] : index[t][i] = h

\* What is registered is in the list of every type it was found for.
IndexIsComplete ==
  \A h \in Handlers, t \in Types :
     registered[HandlerIn[h]] > 0 /\ t \in GetAllInheritedClasses(h) => Listed(h, t)

\* No host runs without the handlers of all assemblies.
HostIsComplete == host # "stopped" => \A a \in Assemblies : registered[a] > 0

\* The overloads that sort leave every list in order.
ListsInOrder == SortsAll => \A t \in Types : InBaseOrder(index[t])

\* The attempt goes through the list, and whom it has passed has returned.
AttemptFollowsList ==
  host = "dispatching" =>
    /\ Len(attempt) = place
    /\ \A i \in 1..place : attempt[i] = Registered[i] /\ runs[head][Registered[i]] > 0

AttemptInOrder == SortsAll => BaseFirst

\* A message that is gone was handled by whoever registers for its type.
GoneIsHandled ==
  \A m \in 1..head - 1, h \in Handlers :
     Messages[m] \in GetAllInheritedClasses(h) => runs[m][h] > 0

\* The inductive invariant.
DInv ==
  /\ DispatcherTypeOK
  /\ IndexIsComplete
  /\ HostIsComplete
  /\ ListsInOrder
  /\ AttemptFollowsList
  /\ AttemptInOrder
  /\ GoneIsHandled

-----------------------------------------------------------------------------
\* What occurs in a list is counted, and what is counted occurs.
LEMMA OccurrencesFacts ==
  ASSUME NEW list \in Seq(Handlers), NEW h
  PROVE  /\ Occurrences(list, h) \in Nat
         /\ Occurrences(list, h) > 0 <=> \E i \in DOMAIN list : list[i] = h
<1> DEFINE at == {i \in DOMAIN list : list[i] = h}
<1>1. IsFiniteSet(at)
  <2>1. DOMAIN list = 1..Len(list) /\ 1 \in Int /\ Len(list) \in Int
    OBVIOUS
  <2>2. IsFiniteSet(1..Len(list)) /\ at \in SUBSET (1..Len(list))
    BY <2>1, FS_Interval
  <2> QED
    BY <2>2, FS_Subset
<1>2. Cardinality(at) \in Nat /\ (Cardinality(at) = 0 <=> at = {})
  BY <1>1, FS_CardinalityType, FS_EmptySet
<1>3. Occurrences(list, h) = Cardinality(at)
  BY DEF Occurrences
<1>4. (at = {}) <=> ~\E i \in DOMAIN list : list[i] = h
  OBVIOUS
<1> QED
  BY <1>2, <1>3, <1>4

\* Lists are sequences of handlers that lose and invent nothing.
LEMMA ListsFacts ==
  ASSUME NEW old \in Seq(Handlers), NEW found \in [Handlers -> Nat],
         NEW list \in Lists(old, found)
  PROVE  /\ list \in Seq(Handlers)
         /\ \A h \in Handlers : Occurrences(list, h) = Occurrences(old, h) + found[h]
<1> DEFINE count(h) == Occurrences(old, h) + found[h]
           entries(h) == {h} \X (1..count(h))
           all == {entries(h) : h \in Handlers}
<1>1. \A h \in Handlers : count(h) \in Nat
  BY OccurrencesFacts
<1>2. ASSUME NEW h \in Handlers PROVE IsFiniteSet(entries(h))
  <2>1. IsFiniteSet({h}) /\ IsFiniteSet(1..count(h))
    <3>1. count(h) \in Int /\ 1 \in Int
      BY <1>1
    <3> HIDE DEF count
    <3> QED
      BY <3>1, FS_Interval, FS_Singleton
  <2> QED
    BY <2>1, FS_Product
<1>3. IsFiniteSet(all)
  <2> DEFINE f == [h \in Handlers |-> entries(h)]
  <2> HIDE DEF entries
  <2>1. f \in Surjection(Handlers, all)
    BY DEF Surjection
  <2> QED
    BY <2>1, FS_Surjection, DispatcherAssumption
<1>4. IsFiniteSet(UNION all)
  <2>1. \A T \in all : IsFiniteSet(T)
    BY <1>2
  <2> HIDE DEF all
  <2> QED
    BY <1>3, <2>1, FS_UNION
<1>5. Cardinality(UNION all) \in Nat
  <2> HIDE DEF all
  <2> QED
    BY <1>4, FS_CardinalityType
<1>6. /\ list \in [1..Cardinality(UNION all) -> {h \in Handlers : count(h) > 0}]
      /\ \A h \in Handlers : Occurrences(list, h) = count(h)
  BY DEF Lists
<1>7. list \in Seq(Handlers)
  <2> DEFINE n == Cardinality(UNION all)
  <2>1. n \in Nat /\ list \in [1..n -> Handlers]
    BY <1>5, <1>6
  <2> HIDE DEF n
  <2> QED
    BY <2>1
<1> QED
  BY <1>6, <1>7

\* After a registration a list has who was in it and who was found, and nobody else.
LEMMA RegistrationsFacts ==
  ASSUME NEW old \in Seq(Handlers), NEW a, NEW t \in Types,
         NEW list \in Registrations(old, Found(a, t))
  PROVE  /\ list \in Seq(Handlers)
         /\ SortsAll => InBaseOrder(list)
         /\ \A h \in Handlers :
              (\E i \in DOMAIN list : list[i] = h) <=>
                 \/ \E i \in DOMAIN old : old[i] = h
                 \/ HandlerIn[h] = a /\ t \in GetAllInheritedClasses(h)
<1>1. list \in Lists(old, Found(a, t)) /\ (SortsAll => InBaseOrder(list))
  BY DEF Registrations
<1>2. Found(a, t) \in [Handlers -> Nat]
  BY DispatcherAssumption DEF Found
<1>3. /\ list \in Seq(Handlers)
      /\ \A h \in Handlers : Occurrences(list, h) = Occurrences(old, h) + Found(a, t)[h]
  BY <1>1, <1>2, ListsFacts
<1>4. ASSUME NEW h \in Handlers
      PROVE  (\E i \in DOMAIN list : list[i] = h) <=>
                \/ \E i \in DOMAIN old : old[i] = h
                \/ HandlerIn[h] = a /\ t \in GetAllInheritedClasses(h)
  <2>1. /\ Occurrences(list, h) \in Nat /\ Occurrences(old, h) \in Nat
        /\ Occurrences(list, h) > 0 <=> \E i \in DOMAIN list : list[i] = h
        /\ Occurrences(old, h) > 0 <=> \E i \in DOMAIN old : old[i] = h
    BY <1>3, OccurrencesFacts
  <2>2. Found(a, t)[h] \in Nat /\ (Found(a, t)[h] > 0 <=> HandlerIn[h] = a /\ t \in GetAllInheritedClasses(h))
    BY DispatcherAssumption DEF Found
  <2> QED
    BY <1>3, <2>1, <2>2
<1> QED
  BY <1>1, <1>3, <1>4

-----------------------------------------------------------------------------
LEMMA DispatcherInitially == DispatcherInit => DInv
<1> SUFFICES ASSUME DispatcherInit PROVE DInv
  OBVIOUS
<1> USE DispatcherAssumption DEF DispatcherInit
<1>1. DispatcherTypeOK
  BY DEF DispatcherTypeOK, NoHandlers, NotRegistered, Range
<1>2. IndexIsComplete
  <2>1. \A h \in Handlers : registered[HandlerIn[h]] = 0
    BY DEF NotRegistered, Assemblies
  <2> QED
    BY <2>1 DEF IndexIsComplete
<1>3. HostIsComplete /\ AttemptFollowsList
  BY DEF HostIsComplete, AttemptFollowsList
<1>4. ListsInOrder /\ AttemptInOrder
  BY DEF ListsInOrder, InBaseOrder, NoHandlers, AttemptInOrder, BaseFirst
<1>5. GoneIsHandled
  BY DEF GoneIsHandled
<1> QED
  BY <1>1, <1>2, <1>3, <1>4, <1>5 DEF DInv

\* A registration makes complete lists of complete lists.
LEMMA RegisterStep ==
  ASSUME DInv, NEW a \in Assemblies, RegisterMessageHandlers(a)
  PROVE  DInv'
<1>1. /\ host = "stopped" /\ registered' = [registered EXCEPT ![a] = @ + 1]
      /\ UNCHANGED <<host, head, place, attempt, runs, failures>>
  BY DEF RegisterMessageHandlers, history
<1>2. PICK new \in [Types -> UNION {Registrations(index[t], Found(a, t)) : t \in Types}] :
        /\ \A t \in Types : new[t] \in Registrations(index[t], Found(a, t))
        /\ index' = new
  BY DEF RegisterMessageHandlers
<1>3. index \in [Types -> Seq(Handlers)] /\ registered \in [Assemblies -> Nat]
  BY DEF DInv, DispatcherTypeOK
<1>4. ASSUME NEW t \in Types
      PROVE  /\ index'[t] \in Seq(Handlers)
             /\ SortsAll => InBaseOrder(index'[t])
             /\ \A h \in Handlers :
                  (\E i \in DOMAIN index'[t] : index'[t][i] = h) <=>
                     \/ \E i \in DOMAIN index[t] : index[t][i] = h
                     \/ HandlerIn[h] = a /\ t \in GetAllInheritedClasses(h)
  <2>1. PICK was, is : was = index[t] /\ is = index'[t]
    OBVIOUS
  <2>2. was \in Seq(Handlers) /\ is \in Registrations(was, Found(a, t))
    BY <1>2, <1>3, <2>1
  <2>3. /\ is \in Seq(Handlers)
        /\ SortsAll => InBaseOrder(is)
        /\ \A h \in Handlers :
             (\E i \in DOMAIN is : is[i] = h) <=>
                \/ \E i \in DOMAIN was : was[i] = h
                \/ HandlerIn[h] = a /\ t \in GetAllInheritedClasses(h)
    BY <2>2, RegistrationsFacts
  <2> QED
    BY <2>1, <2>3
<1>5. index' \in [Types -> Seq(Handlers)] /\ registered' \in [Assemblies -> Nat]
  <2>1. index' \in [Types -> Seq(Handlers)]
    BY <1>2, <1>4
  <2> QED
    BY <1>1, <1>3, <2>1
<1>6. DispatcherTypeOK'
  <2>1. ASSUME NEW t \in Types, NEW h \in Range(index'[t])
        PROVE  t = Parameter[h] \/ <<t, Parameter[h]>> \in Inherits
    <3>1. PICK i \in DOMAIN index'[t] : index'[t][i] = h
      BY DEF Range
    <3>2. h \in Handlers
      BY <1>4, <3>1
    <3>3. CASE \E j \in DOMAIN index[t] : index[t][j] = h
      <4>1. h \in Range(index[t])
        BY <3>3 DEF Range
      <4> QED
        BY <4>1 DEF DInv, DispatcherTypeOK
    <3>4. CASE t \in GetAllInheritedClasses(h)
      BY <3>4 DEF GetAllInheritedClasses
    <3> QED
      BY <1>4, <3>1, <3>2, <3>3, <3>4
  <2> QED
    BY <1>1, <1>5, <2>1 DEF DInv, DispatcherTypeOK
<1>7. IndexIsComplete'
  <2>1. SUFFICES ASSUME NEW h \in Handlers, NEW t \in Types,
                        registered'[HandlerIn[h]] > 0, t \in GetAllInheritedClasses(h)
                 PROVE  \E i \in DOMAIN index'[t] : index'[t][i] = h
    BY <2>1 DEF IndexIsComplete, Listed, GetAllInheritedClasses
  <2>2. CASE HandlerIn[h] = a
    BY <1>4, <2>1, <2>2
  <2>3. CASE HandlerIn[h] # a
    <3>1. registered[HandlerIn[h]] > 0
      BY <1>1, <1>3, <2>1, <2>3 DEF Assemblies
    <3>2. \E i \in DOMAIN index[t] : index[t][i] = h
      BY <2>1, <3>1 DEF DInv, IndexIsComplete, Listed
    <3> QED
      BY <1>4, <3>2
  <2> QED
    BY <2>2, <2>3
<1>8. HostIsComplete' /\ AttemptFollowsList'
  BY <1>1 DEF HostIsComplete, AttemptFollowsList
<1>9. ListsInOrder'
  BY <1>4 DEF ListsInOrder, InBaseOrder
<1>10. AttemptInOrder' /\ GoneIsHandled'
  BY <1>1 DEF DInv, AttemptInOrder, BaseFirst, GoneIsHandled, GetAllInheritedClasses
<1> QED
  BY <1>6, <1>7, <1>8, <1>9, <1>10 DEF DInv

\* What leaves the index alone.
LEMMA IndexUnmoved ==
  ASSUME DInv, UNCHANGED <<index, registered>>
  PROVE  IndexIsComplete' /\ ListsInOrder'
BY DEF DInv, IndexIsComplete, ListsInOrder, InBaseOrder, Listed, GetAllInheritedClasses

\* The steps that run no handler and remove no message.
LEMMA HostStep ==
  ASSUME DInv, StartHost \/ Receive \/ HandlerThrows
  PROVE  DInv'
<1>1. /\ UNCHANGED <<index, registered, head, runs>>
      /\ host' # "stopped" /\ failures' \in 0..MaxFailures
      /\ host' = "dispatching" => Receive
      /\ host = "stopped" => StartHost
      /\ \/ attempt' = attempt /\ place' = place
         \/ attempt' = <<>> /\ place' = 0
      /\ Receive => host' = "dispatching" /\ place' = 0 /\ attempt' = <<>> /\ head <= Len(Messages)
      /\ host' \in {"waiting", "dispatching"}
  <2>1. failures \in 0..MaxFailures /\ MaxFailures \in Nat
    BY DispatcherAssumption DEF DInv, DispatcherTypeOK
  <2>2. CASE StartHost
    BY <2>1, <2>2 DEF StartHost, Receive, history
  <2>3. CASE Receive
    BY <2>1, <2>3 DEF Receive, StartHost, history
  <2>4. CASE HandlerThrows
    BY <2>1, <2>4 DEF HandlerThrows, Receive, StartHost, history
  <2> QED
    BY <2>2, <2>3, <2>4
<1>2. DispatcherTypeOK'
  <2>1. head \in 1..Len(Messages) + 1 /\ Len(Messages) \in Nat /\ index \in [Types -> Seq(Handlers)]
    BY DispatcherAssumption DEF DInv, DispatcherTypeOK
  <2>2. Receive => Messages[head] \in Types
    BY <1>1, <2>1, DispatcherAssumption
  <2>3. Receive => place' <= Len(index[Messages[head]])
    BY <1>1, <2>1, <2>2
  <2>4. attempt' \in Seq(Handlers) /\ place' \in Nat
    <3>1. attempt \in Seq(Handlers) /\ place \in Nat /\ <<>> \in Seq(Handlers)
      BY DEF DInv, DispatcherTypeOK
    <3>2. CASE attempt' = attempt /\ place' = place
      BY <3>1, <3>2
    <3>3. CASE attempt' = <<>> /\ place' = 0
      BY <3>1, <3>3
    <3> QED
      BY <1>1, <3>2, <3>3
  <2>5. host' = "dispatching" => head <= Len(Messages) /\ place' <= Len(index[Messages[head]])
    BY <1>1, <2>3
  <2> QED
    BY <1>1, <2>4, <2>5 DEF DInv, DispatcherTypeOK
<1>3. IndexIsComplete' /\ ListsInOrder'
  BY <1>1, IndexUnmoved
<1>4. HostIsComplete'
  BY <1>1 DEF DInv, HostIsComplete, StartHost
<1>5. AttemptFollowsList'
  BY <1>1 DEF AttemptFollowsList
<1>6. AttemptInOrder' /\ GoneIsHandled'
  <2>1. GoneIsHandled'
    BY <1>1 DEF DInv, GoneIsHandled, GetAllInheritedClasses
  <2>2. CASE UNCHANGED attempt
    BY <2>1, <2>2 DEF DInv, AttemptInOrder, BaseFirst
  <2>3. CASE attempt' = <<>>
    BY <2>1, <2>3 DEF AttemptInOrder, BaseFirst
  <2> QED
    BY <1>1, <2>2, <2>3
<1> QED
  BY <1>2, <1>3, <1>4, <1>5, <1>6 DEF DInv

\* The process dies with its index; the queue stays.
LEMMA CrashStep ==
  ASSUME DInv, HostCrashes
  PROVE  DInv'
<1>1. /\ UNCHANGED <<head, place, attempt, runs>>
      /\ host' = "stopped" /\ index' = NoHandlers /\ registered' = NotRegistered
      /\ failures' \in 0..MaxFailures
  BY DispatcherAssumption DEF HostCrashes, history, DInv, DispatcherTypeOK
<1>2. DispatcherTypeOK'
  BY <1>1 DEF DInv, DispatcherTypeOK, NoHandlers, NotRegistered, Range
<1>3. IndexIsComplete'
  <2>1. \A h \in Handlers : registered'[HandlerIn[h]] = 0
    BY <1>1 DEF NotRegistered, Assemblies
  <2> QED
    BY <2>1 DEF IndexIsComplete
<1>4. HostIsComplete' /\ AttemptFollowsList'
  BY <1>1 DEF HostIsComplete, AttemptFollowsList
<1>5. ListsInOrder'
  BY <1>1 DEF ListsInOrder, InBaseOrder, NoHandlers
<1>6. AttemptInOrder' /\ GoneIsHandled'
  BY <1>1 DEF DInv, AttemptInOrder, BaseFirst, GoneIsHandled, GetAllInheritedClasses
<1> QED
  BY <1>2, <1>3, <1>4, <1>5, <1>6 DEF DInv

\* The next handler of the list has returned.
LEMMA InvokeStep ==
  ASSUME DInv, Invoke
  PROVE  DInv'
<1>0. PICK list, h : list = Registered /\ h = Registered[place + 1]
  OBVIOUS
<1>1. /\ UNCHANGED <<index, registered, host, head, failures>>
      /\ host = "dispatching" /\ place < Len(list) /\ place' = place + 1
      /\ attempt' = Append(attempt, h)
      /\ runs' = [runs EXCEPT ![head][h] = @ + 1]
  BY <1>0 DEF Invoke
<1>2. /\ index \in [Types -> Seq(Handlers)] /\ place \in Nat /\ attempt \in Seq(Handlers)
      /\ head \in 1..Len(Messages) /\ Messages \in Seq(Types)
      /\ runs \in [1..Len(Messages) -> [Handlers -> Nat]]
  <2>1. head \in 1..Len(Messages) + 1 /\ head <= Len(Messages) /\ Len(Messages) \in Nat
    BY <1>1, DispatcherAssumption DEF DInv, DispatcherTypeOK
  <2> QED
    BY <2>1, DispatcherAssumption DEF DInv, DispatcherTypeOK
<1>3. Messages[head] \in Types /\ list \in Seq(Handlers) /\ Registered' = list
  BY <1>0, <1>1, <1>2 DEF Registered
<1>4. place + 1 \in 1..Len(list) /\ h \in Handlers /\ h = list[place + 1]
  BY <1>0, <1>1, <1>2, <1>3
<1>5. /\ Len(attempt) = place
      /\ \A i \in 1..place : attempt[i] = list[i] /\ runs[head][list[i]] > 0
  BY <1>0, <1>1 DEF DInv, AttemptFollowsList
<1>6. /\ runs' \in [1..Len(Messages) -> [Handlers -> Nat]]
      /\ runs'[head][h] > 0
      /\ \A m \in 1..Len(Messages), g \in Handlers : runs[m][g] > 0 => runs'[m][g] > 0
  <2>1. runs' = [runs EXCEPT ![head] = [runs[head] EXCEPT ![h] = @ + 1]]
    BY <1>1, <1>2
  <2>2. runs[head] \in [Handlers -> Nat]
    BY <1>2
  <2>3. [runs[head] EXCEPT ![h] = @ + 1] \in [Handlers -> Nat]
    BY <1>4, <2>2
  <2>4. runs' \in [1..Len(Messages) -> [Handlers -> Nat]]
    BY <1>2, <2>1, <2>3
  <2>5. runs'[head] = [runs[head] EXCEPT ![h] = runs[head][h] + 1]
    BY <1>2, <2>1
  <2>6. runs'[head][h] > 0 /\ \A g \in Handlers : runs[head][g] > 0 => runs'[head][g] > 0
    BY <1>4, <2>2, <2>5
  <2>7. \A m \in 1..Len(Messages) : m # head => runs'[m] = runs[m]
    BY <1>2, <2>1
  <2> QED
    BY <2>4, <2>6, <2>7
<1>7. /\ attempt' \in Seq(Handlers) /\ Len(attempt') = place + 1
      /\ \A i \in 1..place + 1 : attempt'[i] = list[i]
  BY <1>1, <1>2, <1>4, <1>5
<1>8. DispatcherTypeOK'
  <2>1. place + 1 <= Len(index[Messages[head]])
    BY <1>0, <1>1, <1>2, <1>3 DEF Registered
  <2>2. /\ head \in 1..Len(Messages) + 1 /\ head <= Len(Messages) /\ place' \in Nat
        /\ place' <= Len(index'[Messages[head]])
    BY <1>1, <1>2, <2>1
  <2>3. \A t \in Types : \A g \in Range(index'[t]) : t = Parameter[g] \/ <<t, Parameter[g]>> \in Inherits
    BY <1>1 DEF DInv, DispatcherTypeOK
  <2>4. /\ index' \in [Types -> Seq(Handlers)] /\ registered' \in [Assemblies -> Nat]
        /\ failures' \in 0..MaxFailures /\ host' = "dispatching" /\ head' = head
    BY <1>1 DEF DInv, DispatcherTypeOK
  <2> QED
    BY <1>6, <1>7, <2>2, <2>3, <2>4 DEF DispatcherTypeOK
<1>9. IndexIsComplete' /\ ListsInOrder' /\ HostIsComplete'
  BY <1>1, IndexUnmoved DEF DInv, HostIsComplete
<1>10. AttemptFollowsList'
  <2>1. \A i \in 1..place + 1 : list[i] \in Handlers /\ (i = place + 1 \/ i \in 1..place)
    BY <1>1, <1>2, <1>3
  <2>2. \A i \in 1..place + 1 : runs'[head][list[i]] > 0
    BY <1>2, <1>4, <1>5, <1>6, <2>1
  <2> QED
    BY <1>1, <1>3, <1>7, <2>2 DEF AttemptFollowsList
<1>11. AttemptInOrder'
  <2>1. SortsAll => InBaseOrder(list)
    BY <1>0, <1>3 DEF DInv, ListsInOrder, Registered
  <2>2. DOMAIN attempt' = 1..place + 1 /\ 1..place + 1 \subseteq DOMAIN list
    BY <1>1, <1>2, <1>3, <1>7
  <2> QED
    BY <1>7, <2>1, <2>2 DEF AttemptInOrder, BaseFirst, InBaseOrder
<1>12. GoneIsHandled'
  <2>1. 1..head - 1 \subseteq 1..Len(Messages)
    BY <1>2
  <2> QED
    BY <1>1, <1>6, <2>1 DEF DInv, GoneIsHandled, GetAllInheritedClasses
<1> QED
  BY <1>8, <1>9, <1>10, <1>11, <1>12 DEF DInv

\* Dispatch has gone through a list that is complete.
LEMMA RemoveStep ==
  ASSUME DInv, RemoveMessage
  PROVE  DInv'
<1>1. /\ UNCHANGED <<index, registered, place, attempt, runs, failures>>
      /\ host = "dispatching" /\ place = Len(Registered) /\ host' = "waiting" /\ head' = head + 1
  BY DEF RemoveMessage, history
<1>2. head \in 1..Len(Messages) /\ Messages \in Seq(Types) /\ Len(Messages) \in Nat
      /\ index \in [Types -> Seq(Handlers)]
  BY <1>1, DispatcherAssumption DEF DInv, DispatcherTypeOK
<1>3. DispatcherTypeOK'
  <2>1. head + 1 \in 1..Len(Messages) + 1
    BY <1>2
  <2> QED
    BY <1>1, <2>1 DEF DInv, DispatcherTypeOK
<1>4. IndexIsComplete' /\ ListsInOrder' /\ HostIsComplete'
  BY <1>1, IndexUnmoved DEF DInv, HostIsComplete
<1>5. AttemptFollowsList' /\ AttemptInOrder'
  BY <1>1 DEF DInv, AttemptFollowsList, AttemptInOrder, BaseFirst
<1>6. ASSUME NEW h \in Handlers, Messages[head] \in GetAllInheritedClasses(h)
      PROVE  runs[head][h] > 0
  <2>1. HandlerIn[h] \in Assemblies /\ Messages[head] \in Types
    BY <1>2 DEF Assemblies
  <2>2. registered[HandlerIn[h]] > 0
    BY <1>1, <2>1 DEF DInv, HostIsComplete
  <2>3. PICK i \in DOMAIN Registered : Registered[i] = h
    BY <1>6, <2>1, <2>2 DEF DInv, IndexIsComplete, Listed, Registered
  <2>4. i \in 1..place
    BY <1>1, <1>2, <2>1, <2>3 DEF Registered
  <2> QED
    BY <1>1, <2>3, <2>4 DEF DInv, AttemptFollowsList
<1>7. GoneIsHandled'
  <2>1. \A m \in 1..(head + 1) - 1 : m = head \/ m \in 1..head - 1
    BY <1>2
  <2> QED
    BY <1>1, <1>6, <2>1 DEF DInv, GoneIsHandled, GetAllInheritedClasses
<1> QED
  BY <1>3, <1>4, <1>5, <1>7 DEF DInv

LEMMA DispatcherInductive == DInv /\ [DispatcherNext]_dispatcherVars => DInv'
<1> SUFFICES ASSUME DInv, [DispatcherNext]_dispatcherVars PROVE DInv'
  OBVIOUS
<1>1. CASE \E a \in Assemblies : RegisterMessageHandlers(a)
  BY <1>1, RegisterStep
<1>2. CASE StartHost \/ Receive \/ HandlerThrows
  BY <1>2, HostStep
<1>3. CASE Invoke
  BY <1>3, InvokeStep
<1>4. CASE RemoveMessage
  BY <1>4, RemoveStep
<1>5. CASE HostCrashes
  BY <1>5, CrashStep
<1>6. CASE UNCHANGED dispatcherVars
  <2>1. UNCHANGED <<index, registered, host, head, place, attempt, runs, failures>>
    BY <1>6 DEF dispatcherVars
  <2>2. DispatcherTypeOK'
    BY <2>1 DEF DInv, DispatcherTypeOK
  <2>3. IndexIsComplete' /\ ListsInOrder'
    BY <2>1, IndexUnmoved
  <2>4. HostIsComplete' /\ AttemptFollowsList' /\ AttemptInOrder' /\ GoneIsHandled'
    BY <2>1 DEF DInv, HostIsComplete, AttemptFollowsList, Registered, AttemptInOrder, BaseFirst,
      GoneIsHandled, GetAllInheritedClasses
  <2> QED
    BY <2>2, <2>3, <2>4 DEF DInv
<1> QED
  BY <1>1, <1>2, <1>3, <1>4, <1>5, <1>6 DEF DispatcherNext, Dispatch

\* The invariant holds whether or not the overload sorts.
LEMMA DispatcherInvariance == DispatcherSpec => []DInv
BY DispatcherInitially, DispatcherInductive, PTL DEF DispatcherSpec

\* The dispatcher keeps its types: a handler is in a list only if it takes the type.
THEOREM DispatcherTypeCorrect == DispatcherSpec => []DispatcherTypeOK
<1>1. DInv => DispatcherTypeOK
  BY DEF DInv
<1> QED
  BY <1>1, DispatcherInvariance, PTL

\* With an overload that sorts, no handler runs in an attempt after one of a type that
\* inherits from its own, however often and in whatever order assemblies were
\* registered.
THEOREM BaseTypesFirst ==
  ASSUME SortsAll
  PROVE  DispatcherSpec => []BaseFirst
<1>1. DInv => BaseFirst
  BY DEF DInv, AttemptInOrder
<1> QED
  BY <1>1, DispatcherInvariance, PTL

\* Where types that inherit from one another are in one assembly, a message that is
\* gone was handled by every handler of its type and of its base types, whatever threw
\* or died.
THEOREM GoneWasHandled ==
  ASSUME \A h \in Handlers, t \in Types :
           <<t, Parameter[h]>> \in Inherits => AssemblyOf[t] = AssemblyOf[Parameter[h]]
  PROVE  DispatcherSpec => []RemovedMeansHandled
<1>1. DInv => RemovedMeansHandled
  <2> SUFFICES ASSUME DInv, NEW m \in 1..head - 1, NEW h \in Handlers,
                      Messages[m] = Parameter[h] \/ <<Messages[m], Parameter[h]>> \in Inherits
               PROVE  runs[m][h] > 0
    BY DEF RemovedMeansHandled
  <2>1. Messages[m] \in Types
    BY DispatcherAssumption DEF DInv, DispatcherTypeOK
  <2>2. Messages[m] \in GetAllInheritedClasses(h)
    BY <2>1 DEF GetAllInheritedClasses
  <2> QED
    BY <2>2 DEF DInv, GoneIsHandled
<1> QED
  BY <1>1, DispatcherInvariance, PTL
=============================================================================
