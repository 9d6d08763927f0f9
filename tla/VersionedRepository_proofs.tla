---------------------- MODULE VersionedRepository_proofs ----------------------
(***************************************************************************)
(* What the versions guard and what they do not, for any number of clients *)
(* and any bounds.                                                         *)
(***************************************************************************)
EXTENDS VersionedRepository, TLAPS

\* What versions do not guard contents against, and what gets copies ahead of them.
Overwriting == {"save after an ignored one", "new copy over a document"}
Forestalling == {"save without a document"}
Careful == careless \subseteq Forestalling

\* Before the entity is added, clients have only entities they made themselves.
Beginning ==
  /\ \A c \in Clients : origin[c] = "new" => entity[c].version = 0
  /\ "Remove" \notin careless /\ document = None =>
       /\ stored = {}
       /\ \A c \in Clients :
            origin[c] \in {"none", "new"} \/ (origin[c] = "ignored" /\ ~(careless \subseteq Overwriting))

\* A copy that was read or saved is not ahead of the database, and if it has the
\* version that is there, it has its content too.
KnownNotAhead ==
  Careful /\ document # None =>
    \A c \in Clients : origin[c] \in {"read", "saved"} => entity[c].version <= document.version

SameVersionSameContent ==
  Careful /\ document # None =>
    \A c \in Clients :
       origin[c] \in {"read", "saved"} /\ entity[c].version = document.version =>
         document.content \subseteq entity[c].content

\* Nothing is in a copy before it was made.
ChangesWereMade == \A c \in Clients : entity[c] # None => entity[c].content \subseteq 1..changes

RInv ==
  /\ TypeOK
  /\ ChangesWereMade
  /\ Beginning
  /\ KnownNotAhead
  /\ SameVersionSameContent
  /\ StoredChangesStay
  /\ VersionNotAhead

-----------------------------------------------------------------------------
LEMMA Bounds == MaxVersion \in Nat /\ MaxChanges \in Nat /\ MaxFaults \in Nat
BY RepositoryAssumption

LEMMA Initial == Init => RInv
<1> SUFFICES ASSUME Init PROVE RInv
  OBVIOUS
<1>1. TypeOK
  BY Bounds DEF Init, TypeOK
<1>2. /\ ChangesWereMade /\ Beginning
      /\ KnownNotAhead /\ SameVersionSameContent /\ StoredChangesStay /\ VersionNotAhead
  BY DEF Init, ChangesWereMade, Beginning, KnownNotAhead, SameVersionSameContent,
         StoredChangesStay, VersionNotAhead
<1> QED
  BY <1>1, <1>2 DEF RInv

\* The parts of TypeOK that the steps need.
LEMMA EntityType ==
  ASSUME NEW e \in Entity
  PROVE  e.version \in Nat /\ e.content \subseteq 1..MaxChanges
BY Bounds DEF Entity

LEMMA ChangesType ==
  ASSUME TypeOK
  PROVE  changes \in Nat /\ changes <= MaxChanges /\ stored \subseteq 1..changes
<1>1. changes \in 0..MaxChanges /\ stored \subseteq 1..changes
  BY DEF TypeOK
<1> QED
  BY <1>1, Bounds

LEMMA DocumentType ==
  ASSUME TypeOK, document # None
  PROVE  document \in Entity /\ document.version \in Nat /\ document.content \subseteq stored
<1>1. document \in Entity /\ document.content \subseteq stored
  BY DEF TypeOK
<1> QED
  BY <1>1, EntityType

LEMMA CopyType ==
  ASSUME TypeOK, NEW c \in Clients, entity[c] # None
  PROVE  /\ entity[c] \in Entity /\ entity[c].version \in Nat
         /\ entity[c].content \subseteq 1..MaxChanges
<1>1. entity[c] \in Entity
  BY DEF TypeOK
<1> QED
  BY <1>1, EntityType

\* A step in which client c gets or makes its copy, or changes it.
LEMMA CopyStep ==
  ASSUME RInv, NEW c \in Clients, Get(c) \/ Construct(c) \/ Change(c)
  PROVE  RInv'
<1> DEFINE e == entity'[c]
<1>1. TypeOK /\ changes \in Nat /\ changes <= MaxChanges /\ stored \subseteq 1..changes
  BY ChangesType DEF RInv
<1>2. /\ UNCHANGED <<document, stored, careless, faults>>
      /\ changes' = changes \/ (changes' = changes + 1 /\ changes < MaxChanges)
      /\ \A d \in Clients \ {c} : entity'[d] = entity[d] /\ origin'[d] = origin[d]
  BY <1>1 DEF Get, Construct, Change, TypeOK
<1>3. \/ document # None /\ e = document /\ origin'[c] = "read"
      \/ e.version = 0 /\ e.content = {} /\ e \in Entity /\ origin'[c] = "new"
      \/ /\ entity[c] # None /\ e \in Entity /\ origin'[c] = origin[c]
         /\ e.version = entity[c].version /\ entity[c].content \subseteq e.content
  <2>1. CASE Get(c)
    BY <1>1, <2>1 DEF Get, TypeOK
  <2>2. CASE Construct(c)
    <3>1. e = [version |-> 0, content |-> {}] /\ origin'[c] = "new"
      BY <1>1, <2>2 DEF Construct, TypeOK
    <3> QED
      BY <3>1, Bounds DEF Entity
  <2>3. CASE Change(c)
    <3>1. entity[c] \in Entity /\ entity[c] # None /\ origin'[c] = origin[c]
      BY <1>1, <2>3, CopyType DEF Change
    <3>2. e = [entity[c] EXCEPT !.content = entity[c].content \union {changes + 1}]
      BY <1>1, <2>3 DEF Change, TypeOK
    <3>3. changes + 1 \in 1..MaxChanges
      BY <1>1, <2>3, Bounds DEF Change
    <3> QED
      BY <3>1, <3>2, <3>3 DEF Entity
  <2> QED
    BY <2>1, <2>2, <2>3
<1>4. TypeOK'
  <2>1. e \in Entity /\ e # None
    BY <1>1, <1>3, DocumentType, NoneAssumption
  <2>2. entity' \in [Clients -> Entity \union {None}]
    BY <1>1, <2>1 DEF Get, Construct, Change, TypeOK
  <2>3. origin' \in [Clients -> {"none", "new", "read", "saved", "ignored"}] /\ origin'[c] # "none"
    BY <1>1 DEF Get, Construct, Change, TypeOK
  <2>4. \A d \in Clients : entity'[d] = None <=> origin'[d] = "none"
    BY <1>1, <1>2, <2>1, <2>3 DEF TypeOK
  <2>5. changes' \in 0..MaxChanges /\ stored \subseteq 1..changes'
    BY <1>1, <1>2, Bounds
  <2> QED
    BY <1>1, <1>2, <2>2, <2>3, <2>4, <2>5 DEF TypeOK
<1> HIDE DEF e
<1>5. Beginning'
  <2>1. ASSUME "Remove" \notin careless, document = None
        PROVE  \/ origin'[c] \in {"none", "new"}
               \/ origin'[c] = "ignored" /\ ~(careless \subseteq Overwriting)
    BY <1>3, <2>1 DEF RInv, Beginning
  <2>2. origin'[c] = "new" => e.version = 0
    BY <1>3 DEF RInv, Beginning
  <2> QED
    BY <1>2, <2>1, <2>2 DEF RInv, Beginning, e
<1>6. SameVersionSameContent' /\ KnownNotAhead'
  <2>1. document # None => document.version \in Nat
    BY <1>1, DocumentType
  <2>2. UNCHANGED <<document, careless>> /\ (Careful' <=> Careful)
    BY <1>2 DEF Careful
  <2>3. SameVersionSameContent'
    BY <1>2, <1>3, <2>2 DEF RInv, SameVersionSameContent, e
  <2>4. KnownNotAhead'
    BY <1>2, <1>3, <2>1, <2>2 DEF RInv, KnownNotAhead, e
  <2> QED
    BY <2>3, <2>4
<1>7. StoredChangesStay'
  BY <1>2 DEF RInv, StoredChangesStay
<1>8. VersionNotAhead'
  <2> SUFFICES ASSUME careless \subseteq Overwriting, document # None,
                      NEW d \in Clients, entity'[d] # None
               PROVE  entity'[d].version <= document.version
    BY <1>2 DEF VersionNotAhead, Overwriting
  <2>1. \A u \in Clients : entity[u] # None => entity[u].version <= document.version
    BY DEF RInv, VersionNotAhead, Overwriting
  <2>2. document.version \in Nat
    BY <1>1, DocumentType
  <2>3. e # None => e.version <= document.version
    BY <1>3, <2>1, <2>2
  <2> QED
    BY <1>2, <2>1, <2>3 DEF e
<1>9. ChangesWereMade'
  <2>1. CASE Get(c)
    BY <1>1, <1>2, <2>1, DocumentType DEF Get, RInv, ChangesWereMade, TypeOK
  <2>2. CASE Construct(c)
    BY <1>1, <1>2, <2>2 DEF Construct, RInv, ChangesWereMade, TypeOK
  <2>3. CASE Change(c)
    <3>1. entity'[c].content = entity[c].content \union {changes + 1} /\ entity[c] # None
      BY <1>1, <2>3, CopyType DEF Change, TypeOK, Entity
    <3>2. entity[c].content \subseteq 1..changes
      BY <3>1 DEF RInv, ChangesWereMade
    <3>3. changes' = changes + 1
      BY <2>3 DEF Change
    <3> QED
      BY <1>1, <1>2, <3>1, <3>2, <3>3 DEF RInv, ChangesWereMade
  <2> QED
    BY <2>1, <2>2, <2>3
<1> QED
  BY <1>4, <1>5, <1>6, <1>7, <1>8, <1>9 DEF RInv

\* What a save does to the database: nothing, or it puts the next version of the
\* copy in the place of the entity that has the version of the copy.
LEMMA SaveEffect ==
  ASSUME RInv, NEW c \in Clients, SaveVersioned(c) \/ SaveThrows(c)
  PROVE  /\ entity[c] # None
         /\ NextVersion(entity[c]) \in Entity
         /\ NextVersion(entity[c]).version = entity[c].version + 1
         /\ NextVersion(entity[c]).content = entity[c].content
         /\ \/ UNCHANGED <<document, stored>>
            \/ /\ document # None /\ document.version = entity[c].version
               /\ document' = NextVersion(entity[c])
               /\ stored' = stored \union entity[c].content
         /\ careless \subseteq careless'
         /\ careless' \subseteq careless \union Overwriting \union Forestalling
         /\ Careful' => origin[c] # "ignored" /\ (origin[c] = "new" => ~Found(c))
         /\ document = None /\ origin[c] # "ignored" => ~(careless' \subseteq Overwriting)
<1>1. /\ entity[c] # None
      /\ entity[c].version < MaxVersion
      /\ ReplaceVersion(NextVersion(entity[c])) \/ UNCHANGED <<document, stored>>
  BY DEF SaveVersioned, SaveThrows, CanSave, CanWrite
<1>2. entity[c] \in Entity /\ entity[c].version \in Nat
  BY <1>1, CopyType DEF RInv
<1>3. /\ NextVersion(entity[c]) \in Entity
      /\ NextVersion(entity[c]).version = entity[c].version + 1
      /\ NextVersion(entity[c]).content = entity[c].content
  <2>1. entity[c].version + 1 \in 0..MaxVersion
    BY <1>1, <1>2, Bounds
  <2> QED
    BY <1>2, <2>1 DEF NextVersion, Entity
<1>4. \/ UNCHANGED <<document, stored>>
      \/ /\ document # None /\ document.version = entity[c].version
         /\ document' = NextVersion(entity[c])
         /\ stored' = stored \union entity[c].content
  <2>1. NextVersion(entity[c]).version - 1 = entity[c].version
    BY <1>2, <1>3
  <2>2. CASE UNCHANGED <<document, stored>>
    BY <2>2
  <2>3. CASE ReplaceVersion(NextVersion(entity[c]))
    BY <1>3, <2>1, <2>3 DEF ReplaceVersion
  <2> QED
    BY <1>1, <2>2, <2>3
<1>5. /\ careless \subseteq careless'
      /\ careless' \subseteq careless \union Overwriting \union Forestalling
      /\ Careful' => origin[c] # "ignored" /\ (origin[c] = "new" => ~Found(c))
      /\ document = None /\ origin[c] # "ignored" => ~(careless' \subseteq Overwriting)
  <2>1. CanSave(c)
    BY DEF SaveVersioned, SaveThrows
  <2>2. CASE origin[c] = "ignored"
    <3>1. careless' = careless \union {"save after an ignored one"}
      BY <2>1, <2>2 DEF CanSave, Careless
    <3> QED
      BY <2>2, <3>1 DEF Careful, Overwriting, Forestalling
  <2>3. CASE origin[c] = "new" /\ Found(c)
    <3>1. careless' = careless \union {"new copy over a document"} /\ document # None
      BY <2>1, <2>3 DEF CanSave, Careless, Found
    <3> QED
      BY <2>3, <3>1 DEF Careful, Overwriting, Forestalling
  <2>4. CASE origin[c] # "ignored" /\ ~(origin[c] = "new" /\ Found(c))
    <3>1. careless' = IF document = None THEN careless \union {"save without a document"} ELSE careless
      BY <2>1, <2>4 DEF CanSave, Careless
    <3> QED
      BY <2>4, <3>1 DEF Overwriting, Forestalling
  <2> QED
    BY <2>2, <2>3, <2>4
<1> QED
  BY <1>1, <1>3, <1>4, <1>5

LEMMA SaveStep ==
  ASSUME RInv, NEW c \in Clients, SaveVersioned(c) \/ SaveThrows(c)
  PROVE  RInv'
<1> DEFINE e == entity[c]  n == NextVersion(entity[c])
<1>1. /\ e # None
      /\ n \in Entity /\ n.version = e.version + 1 /\ n.content = e.content
      /\ careless \subseteq careless'
      /\ careless' \subseteq careless \union Overwriting \union Forestalling
      /\ Careful' => origin[c] # "ignored" /\ (origin[c] = "new" => ~Found(c))
      /\ document = None /\ origin[c] # "ignored" => ~(careless' \subseteq Overwriting)
  BY SaveEffect
<1>2. \/ UNCHANGED <<document, stored>>
      \/ /\ document # None /\ document.version = e.version
         /\ document' = n /\ stored' = stored \union e.content
  BY SaveEffect
<1>3. /\ e \in Entity /\ e.version \in Nat /\ n # None /\ e.content \subseteq 1..changes
      /\ document # None => document.version \in Nat
      /\ TypeOK
  BY <1>1, CopyType, DocumentType, NoneAssumption DEF RInv, ChangesWereMade
\* The copy of the client keeps its version, or has the one that is stored now, or
\* knows nothing of the database any more.
<1>4. /\ changes' = changes
      /\ \A d \in Clients \ {c} : entity'[d] = entity[d] /\ origin'[d] = origin[d]
      /\ \/ entity'[c] = e /\ origin'[c] = origin[c]
         \/ entity'[c] = n /\ origin'[c] = "saved" /\ document' = n
         \/ /\ entity'[c] = n /\ origin'[c] = "ignored" /\ UNCHANGED document
            /\ document # None => document.version # e.version
  <2>1. CASE SaveThrows(c)
    BY <2>1 DEF SaveThrows
  <2>2. CASE SaveVersioned(c)
    <3>1. /\ changes' = changes
          /\ entity' = [entity EXCEPT ![c] = n]
          /\ origin' = [origin EXCEPT ![c] = IF Found(c) THEN "saved" ELSE "ignored"]
      BY <2>2 DEF SaveVersioned
    <3>2. ReplaceVersion(n)
      BY <2>2 DEF SaveVersioned
    <3>3. IF Found(c) THEN document' = n ELSE UNCHANGED document
      <4> HIDE DEF n
      <4>1. n.version - 1 = e.version
        BY <1>1, <1>3
      <4> QED
        BY <3>2, <4>1 DEF ReplaceVersion, Found
    <3> QED
      BY <1>3, <3>1, <3>3 DEF TypeOK, Found
  <2> QED
    BY <2>1, <2>2
<1> HIDE DEF e, n
<1>5. TypeOK'
  <2>1. document' \in Entity \union {None} /\ (document' # None => document'.content \subseteq stored')
    BY <1>1, <1>2, <1>3 DEF TypeOK
  <2>2. entity' \in [Clients -> Entity \union {None}]
    BY <1>1, <1>3 DEF SaveVersioned, SaveThrows, TypeOK, n
  <2>3. origin' \in [Clients -> {"none", "new", "read", "saved", "ignored"}]
    BY <1>3 DEF SaveVersioned, SaveThrows, TypeOK
  <2>4. \A d \in Clients : entity'[d] = None <=> origin'[d] = "none"
    <3>1. \A d \in Clients : entity[d] = None <=> origin[d] = "none"
      BY <1>3 DEF TypeOK
    <3>2. entity'[c] # None /\ origin'[c] # "none"
      BY <1>1, <1>3, <1>4, <3>1 DEF e
    <3> QED
      BY <1>4, <3>1, <3>2
  <2>5. stored' \subseteq 1..changes /\ changes' = changes /\ changes \in 0..MaxChanges
    BY <1>2, <1>3, <1>4 DEF TypeOK
  <2>6. careless' \subseteq {"save after an ignored one", "new copy over a document",
                             "save without a document", "Put", "Remove"}
    BY <1>1, <1>3 DEF TypeOK, Overwriting, Forestalling
  <2>7. faults' \in 0..MaxFaults
    <3>1. faults \in 0..MaxFaults
      BY <1>3 DEF TypeOK
    <3> QED
      BY <3>1, Bounds DEF SaveVersioned, SaveThrows
  <2> QED
    BY <2>1, <2>2, <2>3, <2>4, <2>5, <2>6, <2>7 DEF TypeOK
<1>6. ChangesWereMade'
  BY <1>1, <1>3, <1>4 DEF RInv, ChangesWereMade
<1>7. Beginning'
  <2>1. \A d \in Clients : origin'[d] = "new" => entity'[d].version = 0
    BY <1>1, <1>3, <1>4 DEF RInv, Beginning, e
  <2>2. ASSUME "Remove" \notin careless', document' = None
        PROVE  /\ stored' = {}
               /\ \A d \in Clients :
                    \/ origin'[d] \in {"none", "new"}
                    \/ origin'[d] = "ignored" /\ ~(careless' \subseteq Overwriting)
    <3>1. "Remove" \notin careless /\ document = None /\ stored' = stored
      BY <1>1, <1>2, <1>3, <2>2
    <3>2. /\ stored = {}
          /\ \A d \in Clients :
               \/ origin[d] \in {"none", "new"}
               \/ origin[d] = "ignored" /\ ~(careless' \subseteq Overwriting)
      BY <1>1, <3>1 DEF RInv, Beginning
    <3>3. ~(careless' \subseteq Overwriting)
      BY <1>1, <3>1, <3>2
    <3> QED
      BY <1>3, <1>4, <2>2, <3>1, <3>2, <3>3
  <2> QED
    BY <2>1, <2>2 DEF Beginning
<1>8. VersionNotAhead'
  <2> SUFFICES ASSUME careless' \subseteq Overwriting, document' # None,
                      NEW d \in Clients, entity'[d] # None
               PROVE  entity'[d].version <= document'.version
    BY DEF VersionNotAhead, Overwriting
  <2>1. document # None
    BY <1>2
  <2>2. \A u \in Clients : entity[u] # None => entity[u].version <= document.version
    BY <1>1, <2>1 DEF RInv, VersionNotAhead, Overwriting
  <2>3. entity[d] # None => entity[d].version \in Nat
    BY <1>3, CopyType
  <2>4. document' = n => entity'[d].version <= document'.version
    BY <1>1, <1>2, <1>3, <1>4, <2>2, <2>3 DEF e
  <2>5. UNCHANGED document => entity'[d].version <= document'.version
    BY <1>1, <1>3, <1>4, <2>1, <2>2, <2>3, <2>4 DEF e
  <2> QED
    BY <1>2, <2>4, <2>5
\* Who saves knows the entity that is replaced.
<1>9. ASSUME Careful'
      PROVE  /\ Careful
             /\ document # None /\ document.version = e.version =>
                  origin[c] \in {"read", "saved"} /\ document.content \subseteq e.content
  <2>1. Careful
    BY <1>1, <1>9 DEF Careful
  <2>2. document # None /\ document.version = e.version => origin[c] \in {"read", "saved"}
    BY <1>1, <1>3, <1>9 DEF TypeOK, Found, e
  <2> QED
    BY <2>1, <2>2 DEF RInv, SameVersionSameContent, e
<1>10. SameVersionSameContent' /\ KnownNotAhead'
  <2> SUFFICES ASSUME Careful', document' # None,
                      NEW d \in Clients, origin'[d] \in {"read", "saved"}
               PROVE  /\ entity'[d].version <= document'.version
                      /\ entity'[d].version = document'.version =>
                           document'.content \subseteq entity'[d].content
    BY DEF SameVersionSameContent, KnownNotAhead
  <2>1. document # None
    BY <1>2
  <2>2. /\ \A u \in Clients : origin[u] \in {"read", "saved"} =>
             /\ entity[u].version <= document.version
             /\ entity[u].version = document.version =>
                  document.content \subseteq entity[u].content
    BY <1>9, <2>1 DEF RInv, SameVersionSameContent, KnownNotAhead
  <2>3. CASE UNCHANGED document
    <3>1. \/ entity'[d] = entity[d] /\ origin'[d] = origin[d]
          \/ d = c /\ document' = n /\ entity'[d] = n
      BY <1>4 DEF e
    <3> QED
      BY <1>1, <1>3, <2>1, <2>2, <2>3, <3>1
  <2>4. CASE document' = n /\ document.version = e.version
    <3>1. origin[d] \in {"read", "saved"} => entity[d].version \in Nat
      BY <1>3, CopyType DEF TypeOK
    <3>2. d # c => entity'[d] = entity[d] /\ origin'[d] = origin[d]
      BY <1>4
    <3>3. d = c => entity'[d] = n \/ (entity'[d] = e /\ origin'[d] = origin[d])
      BY <1>4
    <3> QED
      BY <1>1, <1>3, <2>2, <2>4, <3>1, <3>2, <3>3 DEF e
  <2> QED
    BY <1>2, <2>3, <2>4
<1>11. StoredChangesStay'
  <2> SUFFICES ASSUME Careful', document' # None PROVE stored' \subseteq document'.content
    BY DEF StoredChangesStay, Careful, Forestalling
  <2>1. document # None => stored \subseteq document.content
    BY <1>9 DEF RInv, StoredChangesStay, Careful, Forestalling
  <2> QED
    BY <1>1, <1>2, <1>9, <2>1
<1> QED
  BY <1>5, <1>6, <1>7, <1>8, <1>10, <1>11 DEF RInv

\* The entity is added once: all other copies are as new as the one that is added.
LEMMA AddStep ==
  ASSUME RInv, NEW c \in Clients, Add(c)
  PROVE  RInv'
<1> DEFINE e == entity[c]
<1>1. /\ e # None /\ document = None /\ document' = e
      /\ stored' = stored \union e.content
      /\ origin' = [origin EXCEPT ![c] = "read"]
      /\ UNCHANGED <<entity, changes, careless, faults>>
  BY DEF Add, CanWrite
<1>2. TypeOK /\ e \in Entity /\ e.version \in Nat /\ e.content \subseteq 1..changes
  BY <1>1, CopyType DEF RInv, ChangesWereMade
<1>3. origin'[c] = "read" /\ \A d \in Clients \ {c} : origin'[d] = origin[d]
  BY <1>1, <1>2 DEF TypeOK
<1> HIDE DEF e
<1>4. TypeOK'
  <2>1. origin' \in [Clients -> {"none", "new", "read", "saved", "ignored"}]
    BY <1>1, <1>2 DEF TypeOK
  <2>2. \A d \in Clients : entity'[d] = None <=> origin'[d] = "none"
    BY <1>1, <1>2, <1>3 DEF TypeOK, e
  <2> QED
    BY <1>1, <1>2, <2>1, <2>2 DEF TypeOK
<1>5. ChangesWereMade'
  BY <1>1 DEF RInv, ChangesWereMade
<1>6. Beginning'
  BY <1>1, <1>3 DEF RInv, Beginning
<1>7. "Remove" \notin careless =>
        /\ stored = {}
        /\ \A d \in Clients : entity[d] # None =>
             \/ origin[d] = "new" /\ entity[d].version = 0
             \/ origin[d] = "ignored" /\ ~(careless \subseteq Overwriting)
  BY <1>1, <1>2 DEF RInv, Beginning, TypeOK
<1>8. VersionNotAhead'
  <2>1. careless \subseteq Overwriting => "Remove" \notin careless
    BY DEF Overwriting
  <2>2. careless \subseteq Overwriting =>
          \A d \in Clients : entity[d] # None => entity[d].version <= e.version
    BY <1>2, <1>7, <2>1
  <2> QED
    BY <1>1, <2>2 DEF VersionNotAhead, Overwriting
<1>9. SameVersionSameContent' /\ KnownNotAhead' /\ StoredChangesStay'
  <2>1. (Careful' <=> Careful) /\ (Careful => "Remove" \notin careless)
    BY <1>1 DEF Careful, Forestalling
  <2>2. Careful => \A d \in Clients : origin'[d] \in {"read", "saved"} => d = c
    BY <1>2, <1>3, <1>7, <2>1 DEF TypeOK
  <2>3. SameVersionSameContent' /\ KnownNotAhead'
    BY <1>1, <1>2, <2>1, <2>2 DEF SameVersionSameContent, KnownNotAhead, e
  <2>4. StoredChangesStay'
    BY <1>1, <1>7, <2>1 DEF StoredChangesStay, Careful, Forestalling
  <2> QED
    BY <2>3, <2>4
<1> QED
  BY <1>4, <1>5, <1>6, <1>8, <1>9 DEF RInv

\* Put and Remove guard nothing, and nothing is claimed after them.
LEMMA CarelessStep ==
  ASSUME RInv, RemoveEntity \/ \E c \in Clients : Put(c)
  PROVE  RInv'
<1>1. /\ \/ "Remove" \in careless'
         \/ /\ careless' = careless \union {"Put"}
            /\ document' = None <=> document = None
      /\ UNCHANGED <<entity, origin, changes, faults>>
  <2>1. CASE RemoveEntity
    BY <2>1 DEF RemoveEntity, Careless
  <2>2. ASSUME NEW c \in Clients, Put(c)
        PROVE  /\ careless' = careless \union {"Put"}
               /\ document' = None <=> document = None
               /\ UNCHANGED <<entity, origin, changes, faults>>
    BY <2>2 DEF Put, Careless, CanWrite, Replace
  <2> QED
    BY <2>1, <2>2
<1>2. TypeOK /\ ChangesWereMade
  BY DEF RInv
<1>3. TypeOK' /\ (document' = None => stored' = stored)
  <2>1. CASE RemoveEntity
    BY <1>2, <2>1 DEF RemoveEntity, Careless, TypeOK
  <2>2. ASSUME NEW c \in Clients, Put(c) PROVE TypeOK' /\ (document' = None => stored' = stored)
    <3>1. entity[c] # None /\ entity[c] \in Entity /\ entity[c].content \subseteq 1..changes
      BY <1>2, <2>2, CopyType DEF Put, CanWrite, ChangesWereMade
    <3>2. \/ document' = document /\ stored' = stored
          \/ document' = entity[c] /\ stored' = stored \union entity[c].content
      BY <2>2 DEF Put, Replace
    <3>3. stored' \subseteq 1..changes
      BY <1>2, <3>1, <3>2 DEF TypeOK
    <3> QED
      BY <1>1, <1>2, <2>2, <3>1, <3>2, <3>3 DEF TypeOK, Put, Careless
  <2> QED
    BY <2>1, <2>2
<1>4. ChangesWereMade' /\ Beginning'
  BY <1>1, <1>3 DEF RInv, ChangesWereMade, Beginning
<1>5. ~(careless' \subseteq Forestalling) /\ ~(careless' \subseteq Overwriting)
  <2>1. "Remove" \in careless' \/ "Put" \in careless'
    BY <1>1
  <2> QED
    BY <2>1 DEF Forestalling, Overwriting
<1>6. SameVersionSameContent' /\ KnownNotAhead' /\ StoredChangesStay' /\ VersionNotAhead'
  BY <1>5
  DEF SameVersionSameContent, KnownNotAhead, StoredChangesStay, VersionNotAhead, Careful,
      Forestalling, Overwriting
<1> QED
  BY <1>3, <1>4, <1>6 DEF RInv

\* RInv is inductive.
LEMMA Inductive == RInv /\ [Next]_vars => RInv'
<1> SUFFICES ASSUME RInv, [Next]_vars PROVE RInv'
  OBVIOUS
<1>1. CASE UNCHANGED vars
  BY <1>1
  DEF vars, RInv, TypeOK, ChangesWereMade, Beginning, KnownNotAhead, SameVersionSameContent,
      StoredChangesStay, VersionNotAhead, Careful
<1> QED
  BY <1>1, CopyStep, SaveStep, AddStep, CarelessStep DEF Next

LEMMA Invariance == Spec => []RInv
  BY Initial, Inductive, PTL DEF Spec

-----------------------------------------------------------------------------
\* The collection and the copies keep their types, and the database holds only
\* what was stored.
THEOREM TypeCorrect == Spec => []TypeOK
  BY Invariance, PTL DEF RInv

\* Versions guard the updates of any number of clients, as long as nobody puts,
\* removes, goes on with a copy whose save was ignored or saves a copy constructed
\* anew over a document of version 0.
THEOREM ChangesAreNotOverwritten == Spec => []StoredChangesStay
  BY Invariance, PTL DEF RInv

\* No copy can get past the database, however many saves throw or are ignored, as
\* long as nobody saves before the entity was added, puts or removes.
THEOREM CopiesAreNotAhead == Spec => []VersionNotAhead
  BY Invariance, PTL DEF RInv
==============================================================================
