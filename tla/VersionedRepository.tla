------------------------- MODULE VersionedRepository -------------------------
(***************************************************************************)
(* One entity in MongoDBGenericVersionedRepository and the repository it   *)
(* inherits from, and the clients that read it, change their copy and put  *)
(* it back.  SaveVersioned replaces the stored entity only if it has the   *)
(* version the copy was read with, but does not look whether it did.       *)
(*                                                                         *)
(* The content of an entity is the set of the changes made to it.          *)
(* `stored' (all changes that were ever in the database) and `careless'    *)
(* (what clients have done that the versions do not guard) are history.    *)
(***************************************************************************)
EXTENDS Integers, FiniteSets

CONSTANTS
  Clients,
  None,         \* no entity
  MaxVersion,   \* bound on the version
  MaxChanges,   \* bound on the changes
  MaxFaults     \* bound on the exceptions

ASSUME RepositoryAssumption ==
  /\ {MaxVersion, MaxChanges, MaxFaults} \subseteq Nat

VARIABLES
  document,   \* what the collection holds for the id
  entity,     \* the copy of each client
  origin,     \* what it is: "none", "new", "read" or "saved", or its save was "ignored"
  changes,    \* how many changes there have been
  stored, careless, faults

vars == <<document, entity, origin, changes, stored, careless, faults>>

Entity == [version : 0..MaxVersion, content : SUBSET (1..MaxChanges)]

ASSUME NoneAssumption == None \notin Entity

\* The variables keep their types; the database holds what was stored.
TypeOK ==
  /\ document \in Entity \union {None}
  /\ entity \in [Clients -> Entity \union {None}]
  /\ origin \in [Clients -> {"none", "new", "read", "saved", "ignored"}]
  /\ \A c \in Clients : entity[c] = None <=> origin[c] = "none"
  /\ changes \in 0..MaxChanges
  /\ stored \subseteq 1..changes
  /\ careless \subseteq {"save after an ignored one", "new copy over a document",
                          "save without a document", "Put", "Remove"}
  /\ document # None => document.content \subseteq stored
  /\ faults \in 0..MaxFaults

Init ==
  /\ document = None
  /\ entity = [c \in Clients |-> None]
  /\ origin = [c \in Clients |-> "none"]
  /\ changes = 0
  /\ stored = {}
  /\ careless = {}
  /\ faults = 0
-----------------------------------------------------------------------------
(* Get.  It throws if there is nothing.                                    *)
Get(c) ==
  /\ document # None
  /\ entity' = [entity EXCEPT ![c] = document]
  /\ origin' = [origin EXCEPT ![c] = "read"]
  /\ UNCHANGED <<document, changes, stored, careless, faults>>

(* A client constructs a new entity.                                       *)
Construct(c) ==
  /\ entity' = [entity EXCEPT ![c] = [version |-> 0, content |-> {}]]
  /\ origin' = [origin EXCEPT ![c] = "new"]
  /\ UNCHANGED <<document, changes, stored, careless, faults>>

(* A client changes its copy.                                              *)
Change(c) ==
  /\ entity[c] # None
  /\ changes < MaxChanges
  /\ changes' = changes + 1
  /\ entity' = [entity EXCEPT ![c].content = @ \union {changes + 1}]
  /\ UNCHANGED <<document, origin, stored, careless, faults>>

NextVersion(e) == [e EXCEPT !.version = @ + 1]

\* Collection.Update without upsert, with a query by id.
Replace(e) ==
  IF document = None THEN UNCHANGED <<document, stored>>
  ELSE document' = e /\ stored' = stored \union e.content

\* Mutant: the query leaves out the version.
ReplaceAnyVersion(e) ==
  IF document = None THEN UNCHANGED <<document, stored>>
  ELSE document' = e /\ stored' = stored \union e.content

\* Collection.Update with a query by id and by the version before.
ReplaceVersion(e) ==
  IF document = None \/ document.version # e.version - 1 THEN UNCHANGED <<document, stored>>
  ELSE document' = e /\ stored' = stored \union e.content

Found(c) == document # None /\ document.version = entity[c].version

Careless(what) == careless' = careless \union {what}

CanWrite(c) ==
  /\ entity[c] # None
  /\ entity[c].version < MaxVersion

\* Any copy can be saved; the cases that its version does not guard are recorded.
CanSave(c) ==
  /\ CanWrite(c)
  /\ IF origin[c] = "ignored" THEN Careless("save after an ignored one")
     ELSE IF origin[c] = "new" /\ Found(c) THEN Careless("new copy over a document")
     ELSE IF document = None THEN Careless("save without a document")
     ELSE UNCHANGED careless

(* SaveVersioned, the update of which the server has answered.             *)
SaveVersioned(c) ==
  /\ CanSave(c)
  /\ ReplaceVersion(NextVersion(entity[c]))
  /\ entity' = [entity EXCEPT ![c] = NextVersion(@)]
  /\ origin' = [origin EXCEPT ![c] = IF Found(c) THEN "saved" ELSE "ignored"]
  /\ UNCHANGED <<changes, faults>>

(* Mutant: the version is not counted down again.                          *)
SaveThrowsWithNewVersion(c) ==
  /\ CanSave(c)
  /\ faults < MaxFaults
  /\ faults' = faults + 1
  /\ ReplaceVersion(NextVersion(entity[c])) \/ UNCHANGED <<document, stored>>
  /\ entity' = [entity EXCEPT ![c] = NextVersion(@)]
  /\ UNCHANGED <<origin, changes>>

(* SaveVersioned throws, before the server has the update or after it.     *)
SaveThrows(c) ==
  /\ CanSave(c)
  /\ faults < MaxFaults
  /\ faults' = faults + 1
  /\ ReplaceVersion(NextVersion(entity[c])) \/ UNCHANGED <<document, stored>>
  /\ UNCHANGED <<entity, origin, changes>>

(* Add.  It throws if the id is there.                                     *)
Add(c) ==
  /\ CanWrite(c)
  /\ document = None
  /\ document' = entity[c]
  /\ stored' = stored \union entity[c].content
  /\ origin' = [origin EXCEPT ![c] = "read"]
  /\ UNCHANGED <<entity, changes, careless, faults>>

(* Put, and Update, which does the same.                                   *)
Put(c) ==
  /\ CanWrite(c)
  /\ Replace(entity[c])
  /\ Careless("Put")
  /\ UNCHANGED <<entity, origin, changes, faults>>

(* Remove.                                                                 *)
RemoveEntity ==
  /\ document' = None
  /\ Careless("Remove")
  /\ UNCHANGED <<entity, origin, changes, stored, faults>>

Next ==
  \/ RemoveEntity
  \/ \E c \in Clients :
       \/ Get(c) \/ Construct(c) \/ Change(c)
       \/ Add(c) \/ SaveVersioned(c) \/ SaveThrows(c) \/ Put(c)

Spec == Init /\ [][Next]_vars
-----------------------------------------------------------------------------
\* What one client has saved is overwritten by another that did not know it in two
\* cases only, besides Put and after Remove: that one saves again a copy whose last
\* save changed nothing, which nobody has told it, or a copy it has constructed
\* itself, the version of which, 0, is that of the document by chance.
StoredChangesStay ==
  careless \subseteq {"save without a document"} /\ document # None =>
    stored \subseteq document.content

\* No copy has a version that is not stored yet, also after an exception or a save
\* that changed nothing; its save would replace an entity nobody has seen.  It can
\* only get one by a save before the entity was added (or by Put, or after Remove).
VersionNotAhead ==
  careless \subseteq {"save after an ignored one", "new copy over a document"} /\ document # None =>
    \A c \in Clients : entity[c] # None => entity[c].version <= document.version

=============================================================================
