----------------------- MODULE FileDocumentStore_proofs -----------------------
(***************************************************************************)
(* A store whose serializer cuts the file implements the register, and     *)
(* nothing of an old document is left behind a new one.  For any number of *)
(* clients, keys, documents of any length and torn Puts.                   *)
(***************************************************************************)
EXTENDS FileDocumentStore, TLAPS

\* What the clients are in.
Calls ==
  [pc : {"idle"}]
  \union [pc : {"get", "read", "delete"}, key : Keys]
  \union [pc : {"write"}, key : Keys, value : Values, pos : Nat, cut : BOOLEAN]
  \union [pc : {"clear"}, todo : SUBSET Keys, error : BOOLEAN]

CallsTyped == client \in [Clients -> Calls]

\* Up to the position of a Put the file holds the new document, behind it what is
\* left of the old one, and nothing once it is cut; before its first chunk the
\* file still reads as the old document, unless it was just created.
Put(put) ==
  LET content == file[put.key] IN
  /\ put.pos <= Length[put.value] /\ put.pos <= Len(content)
  /\ \A i \in 1..put.pos : content[i] = <<put.value, i>>
  /\ put.cut => Len(content) = put.pos
  /\ put.pos = 0 /\ content # <<>> => Deserialize(serializer, content) = before[put.key]

Puts == \A c \in Clients : At(c, "write") => Put(client[c])

\* As long as no Put was torn, a file that none is at holds one document, if the
\* serializer cuts it.
Whole ==
  faults = 0 /\ serializer # "DataContract" =>
    \A k \in Keys : file[k] # NoFile /\ ~IsPut(k) => \E v \in Values : file[k] = Chunks(v)

FInv ==
  /\ TypeOK
  /\ CallsTyped
  /\ Puts
  /\ Whole

\* Whoever clears the store has no answer yet.
Clearing == \A c \in Clients : At(c, "clear") => answer[c] = "clearing"

-----------------------------------------------------------------------------
(* Documents and what they are read as.                                     *)

LEMMA Pieces ==
  ASSUME NEW v \in Values
  PROVE  /\ Chunks(v) \in Content
         /\ Length[v] \in Nat \ {0} /\ Len(Chunks(v)) = Length[v]
         /\ \A i \in 1..Length[v] : Chunks(v)[i] = <<v, i>>
  BY DocumentAssumption DEF Chunks, Content, AnyChunk

\* A file that is not there is told from every content.
LEMMA NoFileIsNone ==
  ASSUME NEW content \in Content
  PROVE  content # NoFile
<1>1. SUFFICES ASSUME content = NoFile PROVE FALSE
  OBVIOUS
<1>2. Len(content) = 1 /\ content[1][2] = 0
  BY <1>1 DEF NoFile
<1>3. content[1] \in AnyChunk
  <2>1. ASSUME NEW S, NEW s \in Seq(S), Len(s) = 1 PROVE s[1] \in S
    BY <2>1
  <2> QED
    BY <1>2, <2>1 DEF Content
<1>4. PICK v \in Values : content[1] \in {<<v, i>> : i \in 1..Length[v]}
  BY <1>3 DEF AnyChunk
<1>5. PICK i \in 1..Length[v] : content[1] = <<v, i>>
  BY <1>4
<1> QED
  BY <1>2, <1>5, DocumentAssumption

\* What is read as a document begins with its first chunk.
LEMMA ReadFromStart ==
  ASSUME NEW s, NEW content \in Content, NEW v \in Values, IsReadAs(s, content, v)
  PROVE  content # <<>> /\ content[1] = <<v, 1>>
<1>1. CASE content = Chunks(v)
  BY <1>1, Pieces
<1>2. CASE IsPrefix(Chunks(v), content)
  <2>1. /\ Len(Chunks(v)) >= 1 /\ Len(Chunks(v)) <= Len(content)
        /\ SubSeq(Chunks(v), 1, Len(Chunks(v))) = SubSeq(content, 1, Len(Chunks(v)))
    BY <1>2, Pieces DEF IsPrefix
  <2>2. SubSeq(Chunks(v), 1, Len(Chunks(v)))[1] = Chunks(v)[1]
    BY <2>1, Pieces DEF Content
  <2>3. SubSeq(content, 1, Len(Chunks(v)))[1] = content[1]
    BY <2>1, Pieces DEF Content
  <2> QED
    BY <2>1, <2>2, <2>3, Pieces DEF Content
<1> QED
  BY <1>1, <1>2 DEF IsReadAs

\* Without a chunk there is nothing to read, and the first chunk tells which
\* document it can be.
LEMMA FirstChunkTells ==
  ASSUME NEW s, NEW content \in Content
  PROVE  /\ content = <<>> => Deserialize(s, content) = Corrupt
         /\ \A v \in Values : content[1] = <<v, 1>> => Deserialize(s, content) \in {v, Corrupt}
<1>1. content # NoFile
  BY NoFileIsNone
<1>2. content = <<>> => ~\E u \in Values : IsReadAs(s, content, u)
  BY ReadFromStart
<1>3. ASSUME NEW v \in Values, content[1] = <<v, 1>>, NEW u \in Values, IsReadAs(s, content, u)
      PROVE  u = v
  BY <1>3, ReadFromStart
<1>4. content = <<>> => Deserialize(s, content) = Corrupt
  BY <1>1, <1>2 DEF Deserialize
<1>5. ASSUME NEW v \in Values, content[1] = <<v, 1>>
      PROVE  Deserialize(s, content) \in {v, Corrupt}
  BY <1>1, <1>3, <1>5 DEF Deserialize
<1> QED
  BY <1>4, <1>5

\* What was put is what is got.
LEMMA ReadBack ==
  ASSUME NEW s, NEW v \in Values
  PROVE  Deserialize(s, Chunks(v)) = v
<1> DEFINE content == Chunks(v)
<1>1. content \in Content /\ content # NoFile
  BY Pieces, NoFileIsNone
<1>2. IsReadAs(s, content, v)
  BY DEF IsReadAs, IsPrefix
<1>3. ASSUME NEW u \in Values, IsReadAs(s, content, u) PROVE u = v
  BY <1>1, <1>2, <1>3, ReadFromStart
<1> HIDE DEF content
<1>4. Deserialize(s, content) = v
  BY <1>1, <1>2, <1>3 DEF Deserialize
<1> QED
  BY <1>4 DEF content

LEMMA Readings ==
  ASSUME NEW s, NEW content
  PROVE  Deserialize(s, content) \in Values \union {None, Corrupt}
BY DEF Deserialize

\* Overwriting keeps what is before the position, ...
LEMMA Overwriting ==
  ASSUME NEW content \in Content, NEW chunk \in AnyChunk, NEW pos \in Nat, pos <= Len(content),
         NEW new, new = Overwritten(content, pos, chunk)
  PROVE  /\ new \in Content
         /\ pos + 1 <= Len(new)
         /\ Len(content) = pos => Len(new) = pos + 1
         /\ \A i \in 1..pos : new[i] = content[i]
         /\ new[pos + 1] = chunk
<1> USE DEF Content
<1>1. CASE pos < Len(content)
  BY <1>1 DEF Overwritten
<1>2. CASE pos = Len(content)
  <2>1. new = Append(content, chunk)
    BY <1>2 DEF Overwritten
  <2> QED
    BY <1>2, <2>1
<1> QED
  BY <1>1, <1>2

\* ... and so does cutting.
LEMMA Cutting ==
  ASSUME NEW S, NEW content \in Seq(S), NEW pos \in Nat, pos <= Len(content)
  PROVE  LET new == SubSeq(content, 1, pos) IN
         /\ new \in Seq(S)
         /\ Len(new) = pos
         /\ \A i \in 1..pos : new[i] = content[i]
OBVIOUS

\* What a call has to do with, by where it is.
LEMMA CallIs ==
  ASSUME CallsTyped, NEW c \in Clients
  PROVE  /\ client[c] \in Calls
         /\ At(c, "write") =>
              client[c] \in [pc : {"write"}, key : Keys, value : Values, pos : Nat, cut : BOOLEAN]
         /\ client[c].pc \in {"get", "read", "delete"} => client[c].key \in Keys
         /\ At(c, "clear") => client[c] \in [pc : {"clear"}, todo : SUBSET Keys, error : BOOLEAN]
BY DEF CallsTyped, Calls, At

-----------------------------------------------------------------------------
(* The invariant.                                                           *)

LEMMA Initially ==
  ASSUME Init
  PROVE  FInv
<1>1. TypeOK
  <2>1. Openers
    BY NobodyAssumption DEF Init, Openers, Holds, Idle
  <2>2. opened \in [Keys -> Clients \union {Nobody}] /\ faults \in 0..MaxFaults
    BY DocumentAssumption DEF Init
  <2>3. /\ file \in [Keys -> Content \union {NoFile}]
        /\ before \in [Keys -> Values \union {None, Corrupt}]
    BY DEF Init
  <2> QED
    BY <2>1, <2>2, <2>3 DEF Init, TypeOK, Answers
<1>2. CallsTyped
  BY DEF Init, CallsTyped, Calls, Idle
<1>3. Puts /\ Whole
  BY DEF Init, Puts, Whole, At, Idle
<1> QED
  BY <1>1, <1>2, <1>3 DEF Init, FInv

\* A step that leaves the files of the Puts alone, and ends one only if it is torn or
\* has written its document.
LEMMA QuietStep ==
  ASSUME FInv, TypeOK', CallsTyped', UNCHANGED <<serializer, before>>,
         faults' = 0 => faults = 0,
         \A k \in Keys : file'[k] \in {file[k], NoFile},
         \A d \in Clients : At(d, "write")' =>
            client'[d] = client[d] /\ file'[client[d].key] = file[client[d].key],
         \A k \in Keys : IsPut(k) /\ ~IsPut(k)' /\ faults' = 0 /\ serializer # "DataContract" =>
            \E v \in Values : file[k] = Chunks(v)
  PROVE  FInv'
<1>1. Puts'
  <2> SUFFICES ASSUME NEW d \in Clients, At(d, "write")' PROVE Put(client[d])'
    BY DEF Puts
  <2>1. client'[d] = client[d] /\ file'[client[d].key] = file[client[d].key]
    OBVIOUS
  <2>2. Put(client[d])
    BY <2>1 DEF FInv, Puts, At
  <2> QED
    BY <2>1, <2>2 DEF Put
<1>2. Whole'
  BY DEF FInv, Whole
<1> QED
  BY <1>1, <1>2 DEF FInv

\* A step that leaves every call but that of c where it was, and opens and closes
\* what c holds.
LEMMA OneCall ==
  ASSUME TypeOK, CallsTyped, NEW c \in Clients, NEW call \in Calls, Go(c, call),
         \A k \in Keys : /\ opened'[k] = c <=> Holds(call, k)
                         /\ \A d \in Clients \ {c} : opened'[k] = d <=> opened[k] = d
  PROVE  /\ CallsTyped' /\ Openers' /\ client'[c] = call
         /\ \A d \in Clients \ {c} : client'[d] = client[d]
BY DEF TypeOK, CallsTyped, Go, Openers

\* Who holds what.
LEMMA HeldByOne ==
  ASSUME TypeOK, CallsTyped, NEW c \in Clients
  PROVE  /\ At(c, "write") => /\ client[c].key \in Keys
                              /\ opened[client[c].key] = c /\ IsPut(client[c].key)
                              /\ file[client[c].key] \in Content
         /\ At(c, "read") => client[c].key \in Keys /\ opened[client[c].key] = c
         /\ client[c].pc \notin {"write", "read"} => \A k \in Keys : opened[k] # c
         /\ \A k \in Keys : opened[k] = c /\ At(c, "write") => client[c].key = k
         /\ \A k \in Keys : opened[k] = Nobody \/ file[k] = NoFile => ~IsPut(k)
<1>1. client[c] \in Calls
  BY DEF CallsTyped
<1>2. client[c].pc \in {"write", "read"} => client[c].key \in Keys
  BY <1>1 DEF Calls
<1> QED
  BY <1>2, NobodyAssumption DEF TypeOK, Openers, Holds, At, IsPut

LEMMA OpenPutStep ==
  ASSUME FInv, NEW c \in Clients, NEW k \in Keys, NEW v \in Values, OpenPut(c, k, v),
         UNCHANGED serializer
  PROVE  FInv'
<1> DEFINE call == Putting("write", k, v, 0, FALSE)
<1>1. call \in Calls /\ Go(c, call)
  BY DEF OpenPut, Begin, Putting, Calls
<1>2. /\ opened[k] = Nobody /\ opened' = [opened EXCEPT ![k] = c] /\ directory'
      /\ before' = [before EXCEPT ![k] = Deserialize(serializer, file[k])]
      /\ file' = [file EXCEPT ![k] = IF @ = NoFile THEN <<>> ELSE @]
      /\ answer' = [answer EXCEPT ![c] = "called"] /\ faults' = faults /\ At(c, "idle")
  BY DEF OpenPut, Open, GetFileName, Begin, Putting
<1>3. \A j \in Keys : /\ opened'[j] = c <=> Holds(call, j)
                      /\ \A d \in Clients \ {c} : opened'[j] = d <=> opened[j] = d
  BY <1>2, HeldByOne, NobodyAssumption DEF FInv, TypeOK, Holds, Putting, At
<1>4. /\ CallsTyped' /\ Openers' /\ client'[c] = call
      /\ \A d \in Clients \ {c} : client'[d] = client[d]
  <2> HIDE DEF call
  <2> QED
    BY <1>1, <1>3, OneCall DEF FInv
<1>5. /\ file'[k] = IF file[k] = NoFile THEN <<>> ELSE file[k]
      /\ file'[k] \in Content /\ file'[k] # NoFile
      /\ \A j \in Keys \ {k} : file'[j] = file[j]
      /\ file' \in [Keys -> Content \union {NoFile}]
  <2>1. <<>> \in Content
    BY DEF Content
  <2> QED
    BY <1>2, <2>1, NoFileIsNone DEF FInv, TypeOK
<1>6. TypeOK'
  <2>1. before' \in [Keys -> Values \union {None, Corrupt}]
    BY <1>2, Readings DEF FInv, TypeOK
  <2> QED
    BY <1>2, <1>4, <1>5, <2>1 DEF FInv, TypeOK, Answers
<1>7. Puts'
  <2> SUFFICES ASSUME NEW d \in Clients, At(d, "write")' PROVE Put(client[d])'
    BY DEF Puts
  <2>1. CASE d = c
    <3>1. /\ client'[d] = call /\ before'[k] = Deserialize(serializer, file[k])
          /\ Length[v] \in Nat
      BY <1>2, <1>4, <2>1, Pieces DEF FInv, TypeOK
    <3> QED
      BY <1>5, <3>1 DEF Put, Putting, Content
  <2>2. CASE d # c
    <3>1. client'[d] = client[d] /\ At(d, "write")
      BY <1>4, <2>2 DEF At
    <3>2. client[d].key \in Keys \ {k} /\ Put(client[d])
      BY <1>2, <3>1, HeldByOne, NobodyAssumption DEF FInv, Puts
    <3>3. before'[client[d].key] = before[client[d].key]
      BY <1>2, <3>2 DEF FInv, TypeOK
    <3> QED
      BY <1>5, <3>1, <3>2, <3>3 DEF Put
  <2> QED
    BY <2>1, <2>2
<1>8. Whole'
  <2>1. IsPut(k)'
    BY <1>2, <1>4 DEF IsPut, At, Putting, FInv, TypeOK
  <2>2. \A j \in Keys \ {k} : IsPut(j) => IsPut(j)'
    BY <1>2, <1>4 DEF IsPut, At, FInv, TypeOK
  <2> QED
    BY <1>2, <1>5, <2>1, <2>2 DEF FInv, Whole
<1> QED
  BY <1>4, <1>6, <1>7, <1>8 DEF FInv

\* A step inside a Put that keeps what Put says of it.
LEMMA PutGoesOn ==
  ASSUME FInv, NEW c \in Clients, At(c, "write"),
         NEW call \in [pc : {"write"}, key : Keys, value : Values, pos : Nat, cut : BOOLEAN],
         call.key = client[c].key, Go(c, call),
         NEW content \in Content, file' = [file EXCEPT ![call.key] = content],
         UNCHANGED <<serializer, directory, opened, answer, before, faults>>,
         call.pos <= Length[call.value], call.pos <= Len(content),
         \A i \in 1..call.pos : content[i] = <<call.value, i>>,
         call.cut => Len(content) = call.pos,
         call.pos = 0 /\ content # <<>> => Deserialize(serializer, content) = before[call.key]
  PROVE  FInv'
<1> DEFINE k == call.key
<1>1. call \in Calls
  BY DEF Calls
<1>2. k \in Keys /\ opened[k] = c /\ IsPut(k) /\ file[k] \in Content
  BY HeldByOne DEF FInv
<1>3. \A j \in Keys : opened[j] = c <=> Holds(call, j)
  BY <1>1, <1>2, HeldByOne DEF Holds, FInv
<1>4. /\ CallsTyped' /\ Openers' /\ client'[c] = call
      /\ \A d \in Clients \ {c} : client'[d] = client[d]
  BY <1>1, <1>3, OneCall DEF FInv
<1>5. /\ file'[k] = content /\ content # NoFile
      /\ \A j \in Keys \ {k} : file'[j] = file[j]
      /\ file' \in [Keys -> Content \union {NoFile}]
  BY <1>2, NoFileIsNone DEF FInv, TypeOK
<1>6. TypeOK'
  BY <1>2, <1>4, <1>5, NobodyAssumption DEF FInv, TypeOK
<1>7. Puts'
  <2> SUFFICES ASSUME NEW d \in Clients, At(d, "write")' PROVE Put(client[d])'
    BY DEF Puts
  <2>1. CASE d = c
    BY <1>1, <1>4, <1>5, <2>1 DEF Put
  <2>2. CASE d # c
    <3>1. client'[d] = client[d] /\ At(d, "write")
      BY <1>4, <2>2 DEF At
    <3>2. client[d].key \in Keys \ {k} /\ Put(client[d])
      BY <1>2, <2>2, <3>1, HeldByOne DEF FInv, Puts
    <3> QED
      BY <1>5, <3>1, <3>2 DEF Put
  <2> QED
    BY <2>1, <2>2
<1>8. Whole'
  <2>1. \A j \in Keys : IsPut(j) => IsPut(j)'
    BY <1>1, <1>4 DEF IsPut, At
  <2> QED
    BY <1>2, <1>5, <2>1 DEF FInv, Whole
<1> QED
  BY <1>4, <1>6, <1>7, <1>8 DEF FInv

LEMMA WriteChunkStep ==
  ASSUME FInv, NEW c \in Clients, WriteChunk(c), UNCHANGED serializer
  PROVE  FInv'
<1> DEFINE put == client[c]
           call == [put EXCEPT !.pos = @ + 1]
           chunk == <<put.value, put.pos + 1>>
           content == Overwritten(file[put.key], put.pos, chunk)
<1>1. /\ put \in [pc : {"write"}, key : Keys, value : Values, pos : Nat, cut : BOOLEAN]
      /\ file[put.key] \in Content /\ Put(put) /\ At(c, "write")
  BY CallIs, HeldByOne DEF FInv, Puts, WriteChunk
<1>2. /\ put.pos < Length[put.value] /\ file' = [file EXCEPT ![put.key] = content]
      /\ Go(c, call)
      /\ UNCHANGED <<directory, opened, answer, before, faults>>
  BY <1>1 DEF WriteChunk, FInv, TypeOK
<1>3. /\ call \in [pc : {"write"}, key : Keys, value : Values, pos : Nat, cut : BOOLEAN]
      /\ call.key = put.key /\ call.value = put.value /\ call.cut = put.cut
      /\ call.pos = put.pos + 1
  BY <1>1
<1>4. chunk \in AnyChunk
  BY <1>1, <1>2, DocumentAssumption DEF AnyChunk
<1> HIDE DEF chunk
<1>5. /\ content \in Content /\ put.pos + 1 <= Len(content)
      /\ Len(file[put.key]) = put.pos => Len(content) = put.pos + 1
      /\ \A i \in 1..put.pos : content[i] = file[put.key][i]
      /\ content[put.pos + 1] = chunk
  <2>1. put.pos \in Nat /\ put.pos <= Len(file[put.key])
    BY <1>1 DEF Put
  <2>2. content \in Content
    BY <1>1, <1>4, <2>1, Overwriting
  <2>3. put.pos + 1 <= Len(content)
    BY <1>1, <1>4, <2>1, Overwriting
  <2>4. Len(file[put.key]) = put.pos => Len(content) = put.pos + 1
    BY <1>1, <1>4, <2>1, Overwriting
  <2>5. \A i \in 1..put.pos : content[i] = file[put.key][i]
    BY <1>1, <1>4, <2>1, Overwriting
  <2>6. content[put.pos + 1] = chunk
    BY <1>1, <1>4, <2>1, Overwriting
  <2> QED
    BY <2>2, <2>3, <2>4, <2>5, <2>6
<1> HIDE DEF call, content
<1>6. put.cut => Len(content) = put.pos + 1
  BY <1>1, <1>5 DEF Put
<1>7. \A i \in 1..put.pos + 1 : content[i] = <<put.value, i>>
  <2> TAKE i \in 1..put.pos + 1
  <2>1. i \in 1..put.pos \/ i = put.pos + 1
    BY <1>1
  <2> QED
    BY <1>1, <1>5, <2>1 DEF Put, chunk
<1>8. /\ put.pos + 1 \in Nat /\ put.pos + 1 # 0 /\ put.pos + 1 <= Length[put.value]
  BY <1>1, <1>2, DocumentAssumption
<1>9. /\ file' = [file EXCEPT ![call.key] = content]
      /\ UNCHANGED <<serializer, directory, opened, answer, before, faults>>
  BY <1>2, <1>3
<1>10. /\ call.pos <= Length[call.value] /\ call.pos <= Len(content)
       /\ \A i \in 1..call.pos : content[i] = <<call.value, i>>
       /\ call.cut => Len(content) = call.pos
       /\ call.pos # 0
  BY <1>3, <1>5, <1>6, <1>7, <1>8
<1> QED
  BY <1>1, <1>2, <1>3, <1>5, <1>9, <1>10, PutGoesOn

LEMMA SetLengthStep ==
  ASSUME FInv, NEW c \in Clients, SetLength(c), UNCHANGED serializer
  PROVE  FInv'
<1> DEFINE put == client[c]
           call == [put EXCEPT !.cut = TRUE]
           content == SubSeq(file[put.key], 1, put.pos)
<1>1. /\ put \in [pc : {"write"}, key : Keys, value : Values, pos : Nat, cut : BOOLEAN]
      /\ file[put.key] \in Content /\ Put(put) /\ At(c, "write")
  BY CallIs, HeldByOne DEF FInv, Puts, SetLength
<1>2. /\ file' = [file EXCEPT ![put.key] = content]
      /\ Go(c, call)
      /\ UNCHANGED <<directory, opened, answer, before, faults>>
  BY <1>1 DEF SetLength, FInv, TypeOK
<1>3. /\ call \in [pc : {"write"}, key : Keys, value : Values, pos : Nat, cut : BOOLEAN]
      /\ call.key = put.key /\ call.value = put.value /\ call.pos = put.pos
  BY <1>1
<1>4. /\ content \in Content /\ Len(content) = put.pos
      /\ \A i \in 1..put.pos : content[i] = file[put.key][i]
  BY <1>1, Cutting DEF Put, Content
<1>5. \A i \in 1..put.pos : content[i] = <<put.value, i>>
  BY <1>1, <1>4 DEF Put
<1>6. put.pos = 0 => content = <<>>
  BY <1>1, <1>4
<1> HIDE DEF call, content
<1>7. /\ file' = [file EXCEPT ![call.key] = content]
      /\ UNCHANGED <<serializer, directory, opened, answer, before, faults>>
  BY <1>2, <1>3
<1>8. /\ call.pos <= Length[call.value] /\ call.pos <= Len(content)
      /\ \A i \in 1..call.pos : content[i] = <<call.value, i>>
      /\ Len(content) = call.pos
      /\ call.pos = 0 => content = <<>>
  BY <1>1, <1>3, <1>4, <1>5, <1>6 DEF Put
<1> QED
  BY <1>1, <1>2, <1>3, <1>4, <1>7, <1>8, PutGoesOn

\* A step of a call that holds no file afterwards: if it was a Put, it was torn or has
\* written its document.
LEMMA LetsGo ==
  ASSUME FInv, NEW c \in Clients, NEW call \in Calls, call.pc \notin {"write", "read"},
         Go(c, call),
         opened' = [k \in Keys |-> IF opened[k] = c THEN Nobody ELSE opened[k]],
         file' \in [Keys -> Content \union {NoFile}],
         \A k \in Keys : file'[k] = file[k] \/ (file'[k] = NoFile /\ opened[k] = Nobody),
         directory' \in BOOLEAN, directory => directory',
         answer' \in [Clients -> Answers],
         faults' \in 0..MaxFaults, faults' = 0 => faults = 0,
         UNCHANGED <<serializer, before>>,
         At(c, "write") /\ faults' = 0 /\ serializer # "DataContract" =>
            file[client[c].key] = Chunks(client[c].value)
  PROVE  FInv'
<1>1. /\ CallsTyped' /\ Openers' /\ client'[c] = call
      /\ \A d \in Clients \ {c} : client'[d] = client[d]
  <2>1. \A k \in Keys : /\ opened'[k] = c <=> Holds(call, k)
                        /\ \A d \in Clients \ {c} : opened'[k] = d <=> opened[k] = d
    BY NobodyAssumption DEF Holds, FInv, TypeOK
  <2> QED
    BY <2>1, OneCall DEF FInv
<1>2. TypeOK'
  BY <1>1 DEF FInv, TypeOK
<1>3. \A d \in Clients : At(d, "write")' =>
         client'[d] = client[d] /\ file'[client[d].key] = file[client[d].key]
  <2> SUFFICES ASSUME NEW d \in Clients, At(d, "write")'
               PROVE  client'[d] = client[d] /\ file'[client[d].key] = file[client[d].key]
    OBVIOUS
  <2>1. client'[d] = client[d] /\ At(d, "write")
    BY <1>1 DEF At
  <2>2. client[d].key \in Keys /\ opened[client[d].key] = d
    BY <2>1, HeldByOne DEF FInv
  <2> QED
    BY <2>1, <2>2, NobodyAssumption
<1>4. ASSUME NEW k \in Keys, IsPut(k), ~IsPut(k)', faults' = 0, serializer # "DataContract"
      PROVE  \E v \in Values : file[k] = Chunks(v)
  <2>1. PICK d \in Clients : opened[k] = d /\ At(d, "write")
    BY <1>4 DEF IsPut
  <2>2. d = c
    BY <1>1, <1>4, <2>1 DEF IsPut, At
  <2>3. client[c].key = k /\ client[c].value \in Values
    BY <2>1, <2>2, HeldByOne, CallIs DEF FInv
  <2> QED
    BY <1>4, <2>1, <2>2, <2>3
<1> QED
  BY <1>1, <1>2, <1>3, <1>4, QuietStep

\* A Put that has written all of its document and cut the file has written nothing else.
LEMMA WrittenWhole ==
  ASSUME FInv, NEW c \in Clients, EndPut(c), serializer # "DataContract"
  PROVE  file[client[c].key] = Chunks(client[c].value)
<1> DEFINE v == client[c].value
           content == file[client[c].key]
<1>1. /\ client[c] \in [pc : {"write"}, key : Keys, value : Values, pos : Nat, cut : BOOLEAN]
      /\ content \in Content /\ Put(client[c])
  BY CallIs, HeldByOne DEF FInv, Puts, EndPut
<1>2. client[c].pos = Length[v] /\ Len(content) = Length[v]
  BY <1>1 DEF EndPut, FInv, Put
<1>3. v \in Values /\ \A i \in 1..Length[v] : content[i] = <<v, i>>
  BY <1>1, <1>2 DEF Put
<1> HIDE DEF content, v
<1>4. content \in Seq(AnyChunk)
  BY <1>1 DEF Content
<1>5. content = [i \in 1..Length[v] |-> <<v, i>>]
  <2>1. content = [i \in 1..Len(content) |-> content[i]]
    BY <1>4
  <2> QED
    BY <1>2, <1>3, <2>1
<1> QED
  BY <1>5 DEF Chunks, content, v

LEMMA EndStep ==
  ASSUME FInv, NEW c \in Clients, UNCHANGED serializer, EndPut(c) \/ TearPut(c) \/ Read(c)
  PROVE  FInv'
<1>1. Idle \in Calls /\ Idle.pc \notin {"write", "read"}
  BY DEF Idle, Calls
<1>2. /\ Go(c, Idle) /\ opened' = [opened EXCEPT ![client[c].key] = Nobody]
      /\ client[c].pc \in {"write", "read"} /\ UNCHANGED <<directory, file, before>>
      /\ faults' = faults \/ (faults < MaxFaults /\ faults' = faults + 1)
  BY DEF EndPut, TearPut, Read, Answer, Close, At
<1>3. opened' = [k \in Keys |-> IF opened[k] = c THEN Nobody ELSE opened[k]]
  <2>1. /\ client[c].key \in Keys /\ opened[client[c].key] = c
        /\ \A k \in Keys : opened[k] = c => k = client[c].key
    BY <1>2, HeldByOne DEF FInv, TypeOK, Openers, Holds, At
  <2> QED
    BY <1>2, <2>1 DEF FInv, TypeOK
<1>4. answer' \in [Clients -> Answers]
  BY Readings DEF EndPut, TearPut, Read, Answer, Answers, FInv, TypeOK
<1>5. faults' \in 0..MaxFaults /\ (faults' = 0 => faults = 0)
  BY <1>2, DocumentAssumption DEF FInv, TypeOK
<1>6. At(c, "write") /\ faults' = 0 /\ serializer # "DataContract" =>
         file[client[c].key] = Chunks(client[c].value)
  <2>1. CASE EndPut(c)
    BY <2>1, WrittenWhole
  <2>2. CASE TearPut(c)
    BY <2>2, DocumentAssumption DEF TearPut, FInv, TypeOK
  <2>3. CASE Read(c)
    BY <2>3 DEF Read, At
  <2> QED
    BY <2>1, <2>2, <2>3
<1>7. file' \in [Keys -> Content \union {NoFile}] /\ directory' \in BOOLEAN
  BY <1>2 DEF FInv, TypeOK
<1> QED
  BY <1>1, <1>2, <1>3, <1>4, <1>5, <1>6, <1>7, LetsGo

\* Who holds no file before and after a step opens and closes none.
LEMMA HoldsNothing ==
  ASSUME FInv, NEW c \in Clients, client[c].pc \notin {"write", "read"}, opened' = opened
  PROVE  opened' = [k \in Keys |-> IF opened[k] = c THEN Nobody ELSE opened[k]]
BY HeldByOne DEF FInv, TypeOK

LEMMA AskStep ==
  ASSUME FInv, NEW c \in Clients, UNCHANGED serializer,
         \/ \E k \in Keys : FindToGet(c, k) \/ FindToDelete(c, k)
         \/ Refuse(c) \/ BeginClear(c) \/ EndClear(c)
  PROVE  FInv'
<1>1. /\ client[c].pc \notin {"write", "read"} /\ UNCHANGED <<file, opened, before, faults>>
      /\ directory' \in BOOLEAN /\ (directory => directory')
  BY DEF FindToGet, FindToDelete, Refuse, BeginClear, EndClear, At, GetFileName, fileVars, FInv,
         TypeOK
<1>2. PICK call \in Calls : Go(c, call) /\ call.pc \notin {"write", "read"}
  <2>1. Idle \in Calls /\ Idle.pc \notin {"write", "read"}
    BY DEF Idle, Calls
  <2>2. ASSUME NEW k \in Keys, NEW pc \in {"get", "delete"}
        PROVE  Calling(pc, k) \in Calls /\ Calling(pc, k).pc \notin {"write", "read"}
    BY DEF Calling, Calls
  <2>3. ASSUME NEW todo \in SUBSET Keys
        PROVE  LET call == [pc |-> "clear", todo |-> todo, error |-> FALSE] IN
               call \in Calls /\ call.pc \notin {"write", "read"}
    BY DEF Calls
  <2>4. ASSUME NEW k \in Keys, FindToGet(c, k) \/ FindToDelete(c, k)
        PROVE  \E call \in Calls : Go(c, call) /\ call.pc \notin {"write", "read"}
    BY <2>1, <2>2, <2>4 DEF FindToGet, FindToDelete, Answer, Begin
  <2>5. CASE Refuse(c) \/ EndClear(c)
    BY <2>1, <2>5 DEF Refuse, EndClear, Answer
  <2>6. CASE BeginClear(c)
    BY <2>1, <2>3, <2>6 DEF BeginClear, Answer, Begin
  <2> QED
    BY <2>4, <2>5, <2>6
<1>3. answer' \in [Clients -> Answers]
  BY DEF FindToGet, FindToDelete, Refuse, BeginClear, EndClear, Answer, Begin, Answers,
     FInv, TypeOK
<1>4. opened' = [k \in Keys |-> IF opened[k] = c THEN Nobody ELSE opened[k]]
  BY <1>1, HoldsNothing
<1>5. /\ file' \in [Keys -> Content \union {NoFile}] /\ ~At(c, "write")
      /\ faults' \in 0..MaxFaults
  BY <1>1 DEF FInv, TypeOK, At
<1> QED
  BY <1>1, <1>2, <1>3, <1>4, <1>5, LetsGo

LEMMA RemoveStep ==
  ASSUME FInv, NEW c \in Clients, UNCHANGED serializer, Delete(c) \/ ClearFile(c)
  PROVE  FInv'
<1>1. /\ client[c].pc \notin {"write", "read"} /\ UNCHANGED <<directory, opened, before, faults>>
  BY DEF Delete, ClearFile, At
<1>2. PICK call \in Calls : Go(c, call) /\ call.pc \notin {"write", "read"}
  <2>1. Idle \in Calls /\ Idle.pc \notin {"write", "read"}
    BY DEF Idle, Calls
  <2>2. ASSUME NEW k \in Keys, At(c, "clear")
        PROVE  AfterFile(client[c], k) \in Calls /\ AfterFile(client[c], k).pc = "clear"
    <3>1. client[c] \in [pc : {"clear"}, todo : SUBSET Keys, error : BOOLEAN]
      BY <2>2, CallIs DEF FInv
    <3> QED
      BY <3>1 DEF AfterFile, Calls
  <2>3. CASE Delete(c)
    BY <2>1, <2>3 DEF Delete, Answer
  <2>4. CASE ClearFile(c)
    <3>1. PICK k \in client[c].todo : Go(c, AfterFile(client[c], k))
      BY <2>4 DEF ClearFile
    <3>2. k \in Keys
      BY <2>4, CallIs DEF ClearFile, FInv
    <3> QED
      BY <2>2, <2>4, <3>1, <3>2 DEF ClearFile
  <2> QED
    BY <2>3, <2>4
<1>3. answer' \in [Clients -> Answers]
  BY DEF Delete, ClearFile, Answer, Answers, FInv, TypeOK
<1>4. /\ file' \in [Keys -> Content \union {NoFile}]
      /\ \A k \in Keys : file'[k] = file[k] \/ (file'[k] = NoFile /\ opened[k] = Nobody)
  BY DEF Delete, ClearFile, InUse, FInv, TypeOK
<1>5. opened' = [k \in Keys |-> IF opened[k] = c THEN Nobody ELSE opened[k]]
  BY <1>1, HoldsNothing
<1>6. directory' \in BOOLEAN /\ ~At(c, "write") /\ faults' \in 0..MaxFaults
  BY <1>1 DEF FInv, TypeOK, At
<1> QED
  BY <1>1, <1>2, <1>3, <1>4, <1>5, <1>6, LetsGo

LEMMA OpenGetStep ==
  ASSUME FInv, NEW c \in Clients, OpenGet(c), UNCHANGED serializer
  PROVE  FInv'
<1> DEFINE k == client[c].key
           call == Calling("read", k)
<1>1. k \in Keys /\ call \in Calls
  BY CallIs DEF OpenGet, FInv, Calling, Calls, At
<1>2. /\ At(c, "get") /\ opened[k] = Nobody /\ opened' = [opened EXCEPT ![k] = c]
      /\ file[k] # NoFile /\ Go(c, call)
      /\ UNCHANGED <<directory, file, answer, before, faults>>
  BY DEF OpenGet, Open
<1>3. \A j \in Keys : /\ opened'[j] = c <=> Holds(call, j)
                      /\ \A d \in Clients \ {c} : opened'[j] = d <=> opened[j] = d
  BY <1>1, <1>2, HeldByOne, NobodyAssumption DEF FInv, TypeOK, Holds, Calling, At
<1>4. /\ CallsTyped' /\ Openers' /\ client'[c] = call
      /\ \A d \in Clients \ {c} : client'[d] = client[d]
  <2> HIDE DEF call
  <2> QED
    BY <1>1, <1>2, <1>3, OneCall DEF FInv
<1>5. TypeOK'
  BY <1>1, <1>2, <1>4 DEF FInv, TypeOK
<1>6. \A d \in Clients : At(d, "write")' => client'[d] = client[d]
  BY <1>4 DEF At, Calling
<1>7. \A j \in Keys : IsPut(j) => IsPut(j)'
  <2>1. \A d \in Clients : At(d, "write") => d # c /\ At(d, "write")'
    BY <1>2, <1>4 DEF At
  <2>2. \A j \in Keys, d \in Clients \ {c} : opened[j] = d => opened'[j] = d
    BY <1>3
  <2> QED
    BY <2>1, <2>2 DEF IsPut
<1> QED
  BY <1>2, <1>4, <1>5, <1>6, <1>7, QuietStep

\* FInv is inductive.
LEMMA Inductive == FInv /\ [Next]_vars => FInv'
<1> SUFFICES ASSUME FInv, [Next]_vars PROVE FInv'
  OBVIOUS
<1>1. ASSUME NEW c \in Clients, Call(c), UNCHANGED serializer PROVE FInv'
  BY <1>1, OpenPutStep, WriteChunkStep, SetLengthStep, EndStep, AskStep, RemoveStep, OpenGetStep
  DEF Call
<1>2. CASE UNCHANGED vars
  BY <1>2 DEF vars, fileVars, FInv, TypeOK, Openers, CallsTyped, Puts, Put, Whole, At, IsPut
<1> QED
  BY <1>1, <1>2 DEF Next

\* One call goes on, and only a Clear that goes on is without an answer still.
LEMMA ClearingStep == FInv /\ Clearing /\ [Next]_vars => Clearing'
<1> SUFFICES ASSUME FInv, Clearing, [Next]_vars PROVE Clearing'
  OBVIOUS
<1>1. ASSUME NEW c \in Clients, Call(c)
      PROVE  /\ \A d \in Clients \ {c} : client'[d] = client[d] /\ answer'[d] = answer[d]
             /\ At(c, "clear")' => answer'[c] = "clearing"
  <2> USE DEF FInv, TypeOK, CallsTyped, Go, Answer, Begin, At, Idle
  <2>1. CASE \E k \in Keys : (\E v \in Values : OpenPut(c, k, v)) \/ FindToGet(c, k) \/ FindToDelete(c, k)
    BY <2>1 DEF OpenPut, FindToGet, FindToDelete, Putting, Calling
  <2>2. CASE WriteChunk(c) \/ SetLength(c)
    <3>1. client[c] \in [pc : {"write"}, key : Keys, value : Values, pos : Nat, cut : BOOLEAN]
      BY <2>2, CallIs DEF WriteChunk, SetLength
    <3>2. \E call : client' = [client EXCEPT ![c] = call] /\ call.pc = "write" /\ answer' = answer
      BY <2>2, <3>1 DEF WriteChunk, SetLength
    <3> QED
      BY <3>2
  <2>3. CASE EndPut(c) \/ TearPut(c) \/ Read(c) \/ Delete(c) \/ Refuse(c) \/ EndClear(c)
    BY <2>3 DEF EndPut, TearPut, Read, Delete, Refuse, EndClear
  <2>4. CASE OpenGet(c)
    BY <2>4 DEF OpenGet, Calling
  <2>5. CASE BeginClear(c)
    BY <2>5 DEF BeginClear
  <2>6. CASE ClearFile(c)
    <3>1. answer[c] = "clearing"
      BY <2>6 DEF ClearFile, Clearing
    <3>2. \A d \in Clients \ {c} : client'[d] = client[d]
      BY <2>6 DEF ClearFile
    <3> QED
      BY <2>6, <3>1, <3>2 DEF ClearFile
  <2> QED
    BY <1>1, <2>1, <2>2, <2>3, <2>4, <2>5, <2>6 DEF Call
<1>2. CASE UNCHANGED vars
  BY <1>2 DEF vars, Clearing, At
<1>3. CASE \E c \in Clients : Call(c)
  BY <1>1, <1>3 DEF Clearing, At
<1> QED
  BY <1>2, <1>3 DEF Next

LEMMA Invariance == Spec => []FInv
  BY Initially, Inductive, PTL DEF Spec

LEMMA ClearingInvariance == Spec => []Clearing
<1>1. Init => Clearing
  BY DEF Init, Clearing, At, Idle
<1> QED
  BY <1>1, ClearingStep, Invariance, PTL DEF Spec

-----------------------------------------------------------------------------
\* The variables keep their types, no file is open but inside a Put or TryGet, and the
\* files are in their directory.
THEOREM TypeCorrect == Spec => []TypeOK
<1>1. FInv => TypeOK
  BY DEF FInv
<1> QED
  BY <1>1, Invariance, PTL

\* Whatever was in a file before, and whoever reads, deletes or clears meanwhile, it holds
\* the document of the last Put and nothing behind that, unless a Put was torn.
\* DataContract does not cut the file, and so the theorem is about stores without it.
THEOREM NothingIsLeft ==
  ASSUME "DataContract" \notin Serializers
  PROVE  Spec => []NothingLeft
<1>1. FInv => NothingLeft
  BY NobodyAssumption DEF FInv, Whole, NothingLeft, TypeOK, IsPut
<1> QED
  BY <1>1, Invariance, PTL

-----------------------------------------------------------------------------
(* The store implements the register.                                       *)

\* A step of c begins and ends nobody's Put but its own.
LEMMA PutsAfter ==
  ASSUME FInv, FInv', NEW c \in Clients, NEW k \in Keys,
         \A d \in Clients \ {c} : client'[d] = client[d]
  PROVE  IsPut(k)' <=> \/ At(c, "write")' /\ client'[c].key = k
                       \/ IsPut(k) /\ ~(At(c, "write") /\ client[c].key = k)
<1>1. IsPut(k) <=> \E d \in Clients : At(d, "write") /\ client[d].key = k
  BY DEF IsPut, FInv, TypeOK, Openers, Holds, At
<1>2. IsPut(k)' <=> \E d \in Clients : At(d, "write")' /\ client'[d].key = k
  BY DEF IsPut, FInv, TypeOK, Openers, Holds, At
<1>3. \A d, e \in Clients :
         At(d, "write") /\ client[d].key = k /\ At(e, "write") /\ client[e].key = k => d = e
  BY DEF FInv, TypeOK, Openers, Holds, At
<1>4. \A d \in Clients \ {c} : At(d, "write")' <=> At(d, "write")
  BY DEF At
<1> QED
  BY <1>1, <1>2, <1>3, <1>4

LEMMA DocumentsKept ==
  ASSUME FInv, FInv', NEW c \in Clients, \A d \in Clients \ {c} : client'[d] = client[d],
         UNCHANGED <<serializer, before>>,
         \A k \in Keys : (At(c, "write") /\ client[c].key = k) <=>
                         (At(c, "write")' /\ client'[c].key = k),
         \A k \in Keys : ~IsPut(k) => file'[k] = file[k]
  PROVE  Documents' = Documents
<1>1. \A k \in Keys : IsPut(k)' <=> IsPut(k)
  <2> TAKE k \in Keys
  <2>1. At(c, "write") /\ client[c].key = k => IsPut(k)
    BY HeldByOne DEF FInv
  <2> QED
    BY <2>1, PutsAfter
<1> QED
  BY <1>1 DEF Documents

\* A step on a file that is not open, and the end of a Put, change one document.
LEMMA DocumentChanged ==
  ASSUME FInv, FInv', NEW c \in Clients, \A d \in Clients \ {c} : client'[d] = client[d],
         UNCHANGED <<serializer, before>>, ~At(c, "write")', NEW k \in Keys,
         \A j \in Keys : At(c, "write") /\ client[c].key = j => j = k,
         ~IsPut(k) \/ (At(c, "write") /\ client[c].key = k),
         \A j \in Keys \ {k} : file'[j] = file[j]
  PROVE  Documents' = [Documents EXCEPT ![k] = Deserialize(serializer, file'[k])]
<1>1. \A j \in Keys \ {k} : IsPut(j)' <=> IsPut(j)
  BY PutsAfter
<1>2. ~IsPut(k)'
  BY PutsAfter
<1> QED
  BY <1>1, <1>2 DEF Documents

\* A document that is read or deleted while nobody puts it.
LEMMA NotPut ==
  ASSUME FInv, NEW k \in Keys, ~IsPut(k)
  PROVE  Documents[k] = Deserialize(serializer, file[k])
BY DEF Documents

LEMMA NoDocument ==
  ASSUME NEW s
  PROVE  Deserialize(s, NoFile) = Register!None
BY DEF Deserialize, None, Register!None

LEMMA RegisterInitially == Init => Register!Init
<1> SUFFICES ASSUME Init PROVE Register!Init
  OBVIOUS
<1>1. \A k \in Keys : ~IsPut(k)
  BY NobodyAssumption DEF Init, IsPut
<1> QED
  BY <1>1, NoDocument DEF Init, Documents, Register!Init

LEMMA PutImplements ==
  ASSUME FInv, FInv', NEW c \in Clients, UNCHANGED serializer, serializer # "DataContract",
         WriteChunk(c) \/ SetLength(c) \/ EndPut(c) \/ TearPut(c)
  PROVE  Register!Next \/ UNCHANGED Register!vars
<1> DEFINE k == client[c].key
           v == client[c].value
<1>1. /\ k \in Keys /\ v \in Values /\ IsPut(k) /\ file[k] \in Content /\ Put(client[c])
      /\ At(c, "write") /\ client[c].pos \in Nat
      /\ client[c] \in [pc : {"write"}, key : Keys, value : Values, pos : Nat, cut : BOOLEAN]
  BY CallIs, HeldByOne DEF FInv, Puts, WriteChunk, SetLength, EndPut, TearPut
<1>2. \A d \in Clients \ {c} : client'[d] = client[d]
  BY DEF WriteChunk, SetLength, EndPut, TearPut, Answer, Go, FInv, CallsTyped
<1>3. CASE WriteChunk(c) \/ SetLength(c)
  <2>1. At(c, "write")' /\ client'[c].key = k
    BY <1>1, <1>3 DEF WriteChunk, SetLength, Go, At, FInv, CallsTyped
  <2>2. \A j \in Keys : ~IsPut(j) => file'[j] = file[j]
    BY <1>1, <1>3 DEF WriteChunk, SetLength, FInv, TypeOK
  <2>3. UNCHANGED <<before, answer>>
    BY <1>3 DEF WriteChunk, SetLength
  <2>4. Documents' = Documents
    BY <1>1, <1>2, <2>1, <2>2, <2>3, DocumentsKept
  <2> QED
    BY <2>3, <2>4 DEF Register!vars
<1>4. CASE EndPut(c) \/ TearPut(c)
  <2>1. /\ ~At(c, "write")' /\ file' = file /\ before' = before
        /\ \E a \in {"done", "failed"} : answer' = [answer EXCEPT ![c] = a]
    BY <1>4 DEF EndPut, TearPut, Answer, Go, At, Idle, FInv, CallsTyped
  <2>2. Documents' = [Documents EXCEPT ![k] = Deserialize(serializer, file[k])]
    BY <1>1, <1>2, <2>1, DocumentChanged
  <2>3. CASE EndPut(c)
    <3>1. Deserialize(serializer, file[k]) = v
      BY <1>1, <2>3, WrittenWhole, ReadBack
    <3>2. Register!Put(c, k, v)
      BY <2>2, <2>3, <3>1 DEF EndPut, Answer, Register!Put, Register!Answer
    <3> QED
      BY <1>1, <3>2 DEF Register!Next
  <2>4. CASE TearPut(c)
    <3>1. Deserialize(serializer, file[k]) \in {Documents[k], v, Register!Corrupt}
      <4>1. Documents[k] = before[k] /\ Corrupt = Register!Corrupt
        BY <1>1 DEF Documents, Corrupt, Register!Corrupt
      <4>2. CASE client[c].pos = 0
        BY <1>1, <4>1, <4>2, FirstChunkTells DEF Put
      <4>3. CASE client[c].pos # 0
        <5>1. file[k][1] = <<v, 1>>
          BY <1>1, <4>3 DEF Put
        <5> QED
          BY <1>1, <4>1, <5>1, FirstChunkTells
      <4> QED
        BY <4>2, <4>3
    <3>2. Register!TearPut(c, k, v)
      BY <2>2, <2>4, <3>1 DEF TearPut, Answer, Register!TearPut, Register!Answer
    <3> QED
      BY <1>1, <3>2 DEF Register!Next
  <2> QED
    BY <1>4, <2>3, <2>4
<1> QED
  BY <1>3, <1>4

LEMMA OpenPutImplements ==
  ASSUME FInv, FInv', NEW c \in Clients, NEW k \in Keys, NEW v \in Values, OpenPut(c, k, v),
         UNCHANGED serializer
  PROVE  Register!Next
<1>1. /\ At(c, "idle") /\ opened[k] = Nobody /\ Go(c, Putting("write", k, v, 0, FALSE))
      /\ before' = [before EXCEPT ![k] = Deserialize(serializer, file[k])]
      /\ \A j \in Keys \ {k} : file'[j] = file[j]
      /\ answer' = [answer EXCEPT ![c] = "called"]
  BY DEF OpenPut, Open, Begin, Putting, FInv, TypeOK
<1>2. /\ client'[c].pc = "write" /\ client'[c].key = k
      /\ \A d \in Clients \ {c} : client'[d] = client[d]
  BY <1>1 DEF Go, Putting, FInv, CallsTyped
<1>3. \A j \in Keys : IsPut(j)' <=> j = k \/ IsPut(j)
  BY <1>1, <1>2, PutsAfter DEF At
<1>4. ~IsPut(k)
  BY <1>1, NobodyAssumption DEF IsPut
<1>5. Documents' = Documents
  <2>1. /\ before'[k] = Deserialize(serializer, file[k])
        /\ \A j \in Keys \ {k} : before'[j] = before[j]
    BY <1>1 DEF FInv, TypeOK
  <2> QED
    BY <1>1, <1>3, <1>4, <2>1 DEF Documents
<1>6. Register!Call(c)
  BY <1>1, <1>5 DEF Register!Call, Register!Answer
<1> QED
  BY <1>6 DEF Register!Next

LEMMA AskImplements ==
  ASSUME FInv, FInv', Clearing, NEW c \in Clients, UNCHANGED serializer,
         \/ \E k \in Keys : FindToGet(c, k) \/ FindToDelete(c, k)
         \/ OpenGet(c) \/ Read(c) \/ Refuse(c) \/ BeginClear(c) \/ EndClear(c)
  PROVE  Register!Next \/ UNCHANGED Register!vars
<1>1. /\ ~At(c, "write") /\ ~At(c, "write")' /\ UNCHANGED <<file, before>>
      /\ \A d \in Clients \ {c} : client'[d] = client[d]
  BY DEF FindToGet, FindToDelete, OpenGet, Read, Refuse, BeginClear, EndClear, At, Go, Begin,
         Answer, Idle, Calling, fileVars, FInv, CallsTyped
<1>2. Documents' = Documents
  BY <1>1, DocumentsKept
<1>3. ASSUME NEW a \in {"called", "clearing", "failed"}, answer' = [answer EXCEPT ![c] = a]
      PROVE  Register!Next
  BY <1>2, <1>3
  DEF Register!Next, Register!Call, Register!BeginClear, Register!Fail, Register!Answer
<1>4. ASSUME NEW k \in Keys, FindToGet(c, k) \/ FindToDelete(c, k)
      PROVE  Register!Next
  <2>1. CASE file[k] = NoFile
    <3>1. Documents[k] = Register!None
      BY <2>1, HeldByOne, NotPut, NoDocument DEF FInv
    <3>2. CASE FindToGet(c, k)
      BY <1>2, <2>1, <3>1, <3>2
      DEF FindToGet, Answer, None, Register!None, Register!Next, Register!TryGet, Register!Answer
    <3>3. CASE FindToDelete(c, k)
      BY <1>2, <2>1, <3>1, <3>3
      DEF FindToDelete, Answer, Register!Next, Register!NothingToDelete, Register!Answer
    <3> QED
      BY <1>4, <3>2, <3>3
  <2>2. CASE file[k] # NoFile
    BY <1>3, <1>4, <2>2 DEF FindToGet, FindToDelete, Begin, Calling
  <2> QED
    BY <2>1, <2>2
<1>5. CASE OpenGet(c)
  BY <1>2, <1>5 DEF OpenGet, Register!vars
<1>6. CASE Read(c)
  <2>1. client[c].key \in Keys /\ ~IsPut(client[c].key)
    <3>1. client[c].key \in Keys /\ opened[client[c].key] = c /\ ~At(c, "write")
      BY <1>6, HeldByOne DEF Read, FInv, At
    <3> QED
      BY <3>1 DEF IsPut
  <2>2. Register!TryGet(c, client[c].key)
    BY <1>2, <1>6, <2>1, NotPut DEF Read, Answer, Register!TryGet, Register!Answer
  <2> QED
    BY <2>1, <2>2 DEF Register!Next
<1>7. CASE Refuse(c) \/ BeginClear(c)
  BY <1>3, <1>7 DEF Refuse, BeginClear, Answer, Begin
<1>8. CASE EndClear(c)
  <2>1. answer[c] = "clearing"
    BY <1>8 DEF EndClear, Clearing
  <2>2. CASE answer' = [answer EXCEPT ![c] = "failed"]
    BY <1>3, <2>2
  <2>3. CASE answer' = [answer EXCEPT ![c] = "done"]
    BY <1>2, <2>1, <2>3 DEF Register!Next, Register!EndClear, Register!Answer
  <2> QED
    BY <1>8, <2>2, <2>3 DEF EndClear, Answer
<1> QED
  BY <1>4, <1>5, <1>6, <1>7, <1>8

LEMMA RemoveImplements ==
  ASSUME FInv, FInv', NEW c \in Clients, UNCHANGED serializer, Delete(c) \/ ClearFile(c)
  PROVE  Register!Next \/ UNCHANGED Register!vars
<1>1. /\ ~At(c, "write") /\ ~At(c, "write")' /\ before' = before
      /\ \A d \in Clients \ {c} : client'[d] = client[d]
  <2>1. CASE Delete(c)
    BY <2>1 DEF Delete, Answer, Go, At, Idle, FInv, CallsTyped
  <2>2. CASE ClearFile(c)
    <3>1. client[c] \in [pc : {"clear"}, todo : SUBSET Keys, error : BOOLEAN]
      BY <2>2, CallIs DEF ClearFile, FInv
    <3>2. PICK k \in client[c].todo : client' = [client EXCEPT ![c] = AfterFile(client[c], k)]
      BY <2>2 DEF ClearFile, Go
    <3>3. AfterFile(client[c], k).pc = "clear"
      BY <3>1 DEF AfterFile
    <3> QED
      BY <2>2, <3>2, <3>3 DEF ClearFile, At, FInv, CallsTyped
  <2> QED
    BY <2>1, <2>2
<1>2. ASSUME NEW k \in Keys, opened[k] = Nobody, file' = [file EXCEPT ![k] = NoFile]
      PROVE  Documents' = [Documents EXCEPT ![k] = Register!None]
  <2>1. ~IsPut(k) /\ file'[k] = NoFile /\ \A j \in Keys \ {k} : file'[j] = file[j]
    BY <1>2, NobodyAssumption DEF IsPut, FInv, TypeOK
  <2> QED
    BY <1>1, <2>1, DocumentChanged, NoDocument
<1>3. CASE Delete(c)
  <2>1. client[c].key \in Keys
    BY <1>3, CallIs DEF Delete, At, FInv
  <2>2. Register!TryDelete(c, client[c].key)
    BY <1>2, <1>3, <2>1 DEF Delete, InUse, Answer, Register!TryDelete, Register!Answer
  <2> QED
    BY <2>1, <2>2 DEF Register!Next
<1>4. CASE ClearFile(c)
  <2>1. PICK k \in client[c].todo : file' = [file EXCEPT ![k] = IF InUse(k) THEN @ ELSE NoFile]
    BY <1>4 DEF ClearFile
  <2>2. k \in Keys /\ answer' = answer
    BY <1>4, CallIs DEF ClearFile, FInv
  <2>3. CASE InUse(k)
    <3>1. file' = file
      BY <2>1, <2>2, <2>3 DEF FInv, TypeOK
    <3> QED
      BY <1>1, <2>2, <3>1, DocumentsKept DEF Register!vars
  <2>4. CASE ~InUse(k)
    <3>1. Register!ClearOne(k)
      BY <1>2, <2>1, <2>2, <2>4 DEF InUse, Register!ClearOne
    <3> QED
      BY <2>2, <3>1 DEF Register!Next
  <2> QED
    BY <2>3, <2>4
<1> QED
  BY <1>3, <1>4

\* Calls that ask first and open afterwards, Puts that are written in pieces and may be
\* torn, and a Clear among them look like single steps on single documents, whatever the
\* lengths of the documents and however many clients there are.
THEOREM RegisterIsImplemented ==
  ASSUME "DataContract" \notin Serializers
  PROVE  Spec => ImplementsRegister
<1>1. FInv => serializer # "DataContract"
  BY DEF FInv, TypeOK
<1>2. FInv /\ FInv' /\ Clearing /\ [Next]_vars => [Register!Next]_Register!vars
  <2> SUFFICES ASSUME FInv, FInv', Clearing, [Next]_vars PROVE [Register!Next]_Register!vars
    OBVIOUS
  <2>1. ASSUME NEW c \in Clients, Call(c), UNCHANGED serializer
        PROVE  [Register!Next]_Register!vars
    BY <1>1, <2>1, PutImplements, OpenPutImplements, AskImplements, RemoveImplements DEF Call
  <2>2. CASE UNCHANGED vars
    BY <2>2 DEF vars, fileVars, Register!vars, Documents, IsPut, At
  <2> QED
    BY <2>1, <2>2 DEF Next
<1> QED
  BY <1>2, RegisterInitially, Invariance, ClearingInvariance, PTL DEF Spec, ImplementsRegister, Register!Spec
===============================================================================
