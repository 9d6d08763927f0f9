-------------------------- MODULE FileDocumentStore --------------------------
(***************************************************************************)
(* FileDocumentStore and its serializers: a file per key, which every call *)
(* opens for itself alone after it has asked whether there is one.  The    *)
(* file is overwritten in place, so that of a longer old document the end  *)
(* must be cut off: JsonNet cuts what its StreamWriter has not flushed and *)
(* then flushes, Bson and ProtoBuf cut when all is written, DataContract   *)
(* never does.                                                             *)
(*                                                                         *)
(* The content of a file is a sequence of chunks, <<v, i>> being chunk i   *)
(* of document v.  `before' is history: what could be read of a document   *)
(* before the Put under way.                                               *)
(***************************************************************************)
EXTENDS Integers, Sequences, SequencesExt

CONSTANTS
  Clients,     \* the threads, of one process or several, on one base directory
  Keys,
  Values,
  Length,      \* the number of chunks of each value
  Serializers, \* out of "JsonNet", "Bson", "ProtoBuf" and "DataContract"
  MaxFaults    \* bound on serializers that throw and clients that die

ASSUME DocumentAssumption ==
  /\ Length \in [Values -> Nat \ {0}]
  /\ Serializers \subseteq {"JsonNet", "Bson", "ProtoBuf", "DataContract"}
  /\ MaxFaults \in Nat

VARIABLES
  serializer, \* the one the store was constructed with
  directory,  \* the directory of the document type exists
  file,       \* the content of the files, NoFile for one that is not there
  opened,     \* who has the file open
  client,     \* the call each client is in
  answer,     \* what its last call returned, or that it has not yet
  before,
  faults

fileVars == <<directory, file, opened>>
vars == <<serializer, fileVars, client, answer, before, faults>>

NoFile == <<<<"no file", 0>>>>
Nobody == "nobody"
None == "none"
Corrupt == "corrupt"

\* A file that is not open is told from one that is.
ASSUME NobodyAssumption == Nobody \notin Clients

Chunks(v) == [i \in 1..Length[v] |-> <<v, i>>]
AnyChunk == UNION {{<<v, i>> : i \in 1..Length[v]} : v \in Values}
Content == Seq(AnyChunk)
Answers ==
  Values \union {None, Corrupt, "called", "clearing", "done", "deleted", "absent", "failed"}

\* JsonNet and Bson stop reading where the document ends, the others read on.
IsReadAs(s, content, v) ==
  IF s \in {"JsonNet", "Bson"} THEN IsPrefix(Chunks(v), content) ELSE content = Chunks(v)

\* What TryGet makes of a file.  Corrupt stands for an exception, for null and
\* for a mixture.
Deserialize(s, content) ==
  IF content = NoFile THEN None
  ELSE IF \E v \in Values : IsReadAs(s, content, v)
       THEN CHOOSE v \in Values : IsReadAs(s, content, v)
  ELSE Corrupt

Idle == [pc |-> "idle"]
Calling(pc, k) == [pc |-> pc, key |-> k]
Putting(pc, k, v, pos, cut) == [pc |-> pc, key |-> k, value |-> v, pos |-> pos, cut |-> cut]

At(c, pc) == client[c].pc = pc
Go(c, call) == client' = [client EXCEPT ![c] = call]
Answer(c, a) == answer' = [answer EXCEPT ![c] = a] /\ Go(c, Idle)

\* A call begins: the caller has dealt with the last answer.
Begin(c, call) ==
  /\ answer' = [answer EXCEPT ![c] = IF call.pc = "clear" THEN "clearing" ELSE "called"]
  /\ Go(c, call)

\* A Put or TryGet has its file open from File.Open to the end of the using block.
Holds(call, k) == call.pc \in {"write", "read"} /\ call.key = k
Openers == \A k \in Keys, c \in Clients : opened[k] = c <=> Holds(client[c], k)

\* The variables keep their types, and a file is open exactly for the client
\* that is inside its Put or TryGet, so no call leaves one open.
TypeOK ==
  /\ serializer \in Serializers
  /\ directory \in BOOLEAN
  /\ file \in [Keys -> Content \union {NoFile}]
  /\ opened \in [Keys -> Clients \union {Nobody}]
  /\ answer \in [Clients -> Answers]
  /\ before \in [Keys -> Values \union {None, Corrupt}]
  /\ faults \in 0..MaxFaults
  /\ Openers
  /\ \A k \in Keys : opened[k] # Nobody => file[k] # NoFile
  /\ \A k \in Keys : file[k] # NoFile => directory

Init ==
  /\ serializer \in Serializers
  /\ directory = FALSE
  /\ file = [k \in Keys |-> NoFile]
  /\ opened = [k \in Keys |-> Nobody]
  /\ client = [c \in Clients |-> Idle]
  /\ answer = [c \in Clients |-> "done"]
  /\ before = [k \in Keys |-> None]
  /\ faults = 0

-----------------------------------------------------------------------------
(* GetFileName creates the directory.                                      *)
GetFileName == directory' = TRUE

\* Mutant: FileShare.ReadWrite.
OpenShared(c, k) == opened' = [opened EXCEPT ![k] = c]

Open(c, k) == opened[k] = Nobody /\ opened' = [opened EXCEPT ![k] = c]
Close(k) == opened' = [opened EXCEPT ![k] = Nobody]
InUse(k) == opened[k] # Nobody

(* Put: OpenOrCreate for this client alone ...                             *)
OpenPut(c, k, v) ==
  /\ At(c, "idle")
  /\ GetFileName
  /\ Open(c, k)
  /\ before' = [before EXCEPT ![k] = Deserialize(serializer, file[k])]
  /\ file' = [file EXCEPT ![k] = IF @ = NoFile THEN <<>> ELSE @]
  /\ Begin(c, Putting("write", k, v, 0, FALSE))
  /\ UNCHANGED faults

\* Overwriting a content from position pos on.
Overwritten(content, pos, chunk) ==
  IF pos < Len(content) THEN [content EXCEPT ![pos + 1] = chunk] ELSE Append(content, chunk)

(* ... the serializer writes the next chunk, JsonNet holding back at least *)
(* the last one until it has cut the file ...                              *)
WriteChunk(c) ==
  LET put == client[c] IN
  /\ At(c, "write")
  /\ put.pos < Length[put.value]
  /\ serializer = "JsonNet" /\ ~put.cut => put.pos + 1 < Length[put.value]
  /\ file' = [file EXCEPT ![put.key] = Overwritten(@, put.pos, <<put.value, put.pos + 1>>)]
  /\ Go(c, [put EXCEPT !.pos = @ + 1])
  /\ UNCHANGED <<directory, opened, answer, before, faults>>

(* Mutant: the position is set, the length is not.                         *)
KeepLength(c) ==
  LET put == client[c] IN
  /\ At(c, "write")
  /\ ~put.cut
  /\ serializer \in {"Bson", "ProtoBuf"} => put.pos = Length[put.value]
  /\ Go(c, [put EXCEPT !.cut = TRUE])
  /\ UNCHANGED <<fileVars, answer, before, faults>>

(* ... "Make sure nothing from any previous serialization is left": the    *)
(* file is cut at the position that the stream has got to ...              *)
SetLength(c) ==
  LET put == client[c] IN
  /\ At(c, "write")
  /\ ~put.cut
  /\ serializer # "DataContract"
  /\ serializer \in {"Bson", "ProtoBuf"} => put.pos = Length[put.value]
  /\ file' = [file EXCEPT ![put.key] = SubSeq(@, 1, put.pos)]
  /\ Go(c, [put EXCEPT !.cut = TRUE])
  /\ UNCHANGED <<directory, opened, answer, before, faults>>

(* ... and the stream is disposed.                                         *)
EndPut(c) ==
  LET put == client[c] IN
  /\ At(c, "write")
  /\ put.pos = Length[put.value]
  /\ put.cut \/ serializer = "DataContract"
  /\ Close(put.key)
  /\ Answer(c, "done")
  /\ UNCHANGED <<directory, file, before, faults>>

(* The serializer throws, or the process dies: either way the file is      *)
(* closed as it is.                                                        *)
TearPut(c) ==
  /\ At(c, "write")
  /\ faults < MaxFaults
  /\ faults' = faults + 1
  /\ Close(client[c].key)
  /\ Answer(c, "failed")
  /\ UNCHANGED <<directory, file, before>>

(* TryGet: File.Exists ...                                                 *)
FindToGet(c, k) ==
  /\ At(c, "idle")
  /\ GetFileName
  /\ IF file[k] = NoFile THEN Answer(c, None) ELSE Begin(c, Calling("get", k))
  /\ UNCHANGED <<file, opened, before, faults>>

(* ... File.Open, which shares the file with nobody either ...             *)
OpenGet(c) ==
  LET k == client[c].key IN
  /\ At(c, "get")
  /\ file[k] # NoFile
  /\ Open(c, k)
  /\ Go(c, Calling("read", k))
  /\ UNCHANGED <<directory, file, answer, before, faults>>

(* ... and Deserialize.                                                    *)
Read(c) ==
  LET k == client[c].key IN
  /\ At(c, "read")
  /\ Close(k)
  /\ Answer(c, Deserialize(serializer, file[k]))
  /\ UNCHANGED <<directory, file, before, faults>>

(* TryDelete: File.Exists ...                                              *)
FindToDelete(c, k) ==
  /\ At(c, "idle")
  /\ GetFileName
  /\ IF file[k] = NoFile THEN Answer(c, "absent")
     ELSE Begin(c, Calling("delete", k))
  /\ UNCHANGED <<file, opened, before, faults>>

(* ... and File.Delete, which does not mind if the file is gone by now.    *)
Delete(c) ==
  LET k == client[c].key IN
  /\ At(c, "delete")
  /\ ~InUse(k)
  /\ file' = [file EXCEPT ![k] = NoFile]
  /\ Answer(c, "deleted")
  /\ UNCHANGED <<directory, opened, before, faults>>

(* A call that finds the file open elsewhere throws, and so does TryGet if *)
(* the file went away after File.Exists.                                   *)
Refuse(c) ==
  /\ \/ At(c, "idle") /\ \E k \in Keys : InUse(k)
     \/ client[c].pc \in {"get", "delete"} /\ InUse(client[c].key)
     \/ At(c, "get") /\ file[client[c].key] = NoFile
  /\ Answer(c, "failed")
  /\ UNCHANGED <<fileVars, before, faults>>

-----------------------------------------------------------------------------
(* Clear enumerates the files; without a directory it throws.              *)
BeginClear(c) ==
  /\ At(c, "idle")
  /\ IF directory
     THEN Begin(c, [pc |-> "clear", todo |-> {k \in Keys : file[k] # NoFile}, error |-> FALSE])
     ELSE Answer(c, "failed")
  /\ UNCHANGED <<fileVars, before, faults>>

\* Clear goes on after an IOException and remembers it.
AfterFile(call, k) == [call EXCEPT !.error = @ \/ InUse(k), !.todo = @ \ {k}]

ClearFile(c) ==
  /\ At(c, "clear")
  /\ \E k \in client[c].todo :
       /\ file' = [file EXCEPT ![k] = IF InUse(k) THEN @ ELSE NoFile]
       /\ Go(c, AfterFile(client[c], k))
  /\ UNCHANGED <<directory, opened, answer, before, faults>>

EndClear(c) ==
  /\ At(c, "clear")
  /\ client[c].todo = {}
  /\ Answer(c, IF client[c].error THEN "failed" ELSE "done")
  /\ UNCHANGED <<fileVars, before, faults>>

Call(c) ==
  \/ \E k \in Keys :
       \/ \E v \in Values : OpenPut(c, k, v)
       \/ FindToGet(c, k)
       \/ FindToDelete(c, k)
  \/ WriteChunk(c) \/ SetLength(c) \/ EndPut(c) \/ TearPut(c)
  \/ OpenGet(c) \/ Read(c) \/ Delete(c) \/ Refuse(c)
  \/ BeginClear(c) \/ ClearFile(c) \/ EndClear(c)

Next == (\E c \in Clients : Call(c)) /\ UNCHANGED serializer

Spec == Init /\ [][Next]_vars
-----------------------------------------------------------------------------
IsPut(k) == \E c \in Clients : opened[k] = c /\ At(c, "write")

\* What can be read of each document, or could before the Put under way.
Documents ==
  [k \in Keys |-> IF IsPut(k) THEN before[k] ELSE Deserialize(serializer, file[k])]

\* Calls that ask first and open afterwards, and Puts in several pieces, look to
\* every client like single steps on one document: no TryGet sees a document
\* that was neither put last nor torn.
Register == INSTANCE DocumentRegister WITH doc <- Documents

ImplementsRegister == Register!Spec

\* "Make sure nothing from any previous serialization is left in the stream":
\* unless a Put was torn, a closed file holds one document and nothing behind it.
NothingLeft ==
  \A k \in Keys : file[k] # NoFile /\ opened[k] = Nobody /\ faults = 0 =>
     \E v \in Values : file[k] = Chunks(v)

=============================================================================
