---------------------------- MODULE StreamHistory ----------------------------
(***************************************************************************)
(* What an event store promises its command handlers, whatever the         *)
(* interleaving of their loads and appends: each aggregate has one history *)
(* to which events are added at the end, one at a time, each of them       *)
(* decided by an aggregate that knew the whole history before it.          *)
(***************************************************************************)
EXTENDS Integers, Sequences

CONSTANTS
  Aggregates,  \* aggregate identities
  Durable      \* FALSE: a power failure may cost the histories their ends

VARIABLE history  \* for every aggregate its events, oldest first

\* `known' is the number of events the deciding aggregate had applied.
Event == [kind : {"created", "updated"}, known : Nat]

Init == history = [n \in Aggregates |-> <<>>]

Commit(n) ==
  \E kind \in {"created", "updated"} :
    /\ (kind = "created") <=> (history[n] = <<>>)
    /\ history' = [history EXCEPT ![n] = Append(@, [kind |-> kind, known |-> Len(@)])]

LoseEnds ==
  /\ ~Durable
  /\ history' \in [Aggregates -> Seq(Event)]
  /\ \A n \in Aggregates : \E k \in 0..Len(history[n]) : history'[n] = SubSeq(history[n], 1, k)

Next == LoseEnds \/ \E n \in Aggregates : Commit(n)

Spec == Init /\ [][Next]_history
=============================================================================
