----------------------- MODULE NHibernateSessions_proofs -----------------------
(***************************************************************************)
(* The session factories and the sessions, for any number of contexts,     *)
(* paths and changes.  The invariants fall into two parts that share only  *)
(* the types: who builds a factory, and what becomes of a session.         *)
(***************************************************************************)
EXTENDS NHibernateSessions, TLAPS

\* Who is in the lock builds a factory that is missing, and a configuration that has
\* its mappings is being built, has a factory, or suffered a fault.
OneBuilds ==
  /\ \A c \in Contexts : calls[c].at \in InLock => calls[c].path \notin sessionFactories
  /\ \A p \in Paths : configurations[p] = "mapped" =>
       \/ p \in sessionFactories \union hurt
       \/ \E c \in Contexts : At(c, "build") /\ calls[c].path = p

\* A context keeps sessions of its own, and opens one only where it has none.
OwnSessions ==
  /\ \A c \in Contexts, p \in Paths : contextSessions[c][p] # 0 =>
       /\ sessions[contextSessions[c][p]].context = c
       /\ sessions[contextSessions[c][p]].path = p
  /\ \A c \in Contexts : Ready(c) \/ contextSessions[c][calls[c].path] = 0

BuildInv == OneBuilds /\ ThrowsOnlyAfterFault
SessionInv == OwnSessions /\ NoSessionIsForgotten /\ ChangesAreKept
NInv == TypeOK /\ BuildInv /\ SessionInv

-----------------------------------------------------------------------------
LEMMA Initial == Init => NInv
<1> SUFFICES ASSUME Init PROVE NInv
  OBVIOUS
<1>1. TypeOK
  BY NHibernateSessionsAssumption DEF Init, TypeOK, Call, InLock
<1>2. BuildInv
  BY DEF Init, BuildInv, OneBuilds, ThrowsOnlyAfterFault, At, InLock
<1>3. SessionInv
  BY DEF Init, SessionInv, OwnSessions, NoSessionIsForgotten, ChangesAreKept, Ready
<1> QED
  BY <1>1, <1>2, <1>3 DEF NInv

-----------------------------------------------------------------------------
(* What the steps do, one kind of variable at a time.                      *)

\* A session in a context is one of the list.
LEMMA SessionType ==
  ASSUME TypeOK, NEW c \in Contexts, NEW p \in Paths, contextSessions[c][p] # 0
  PROVE  contextSessions[c][p] \in DOMAIN sessions
<1>1. sessions \in Seq(Session) /\ contextSessions[c][p] \in 0..Len(sessions)
  BY DEF TypeOK
<1> QED
  BY <1>1

LEMMA ListType ==
  ASSUME TypeOK
  PROVE  /\ Len(sessions) \in Nat /\ DOMAIN sessions = 1..Len(sessions)
         /\ \A i \in DOMAIN sessions :
              sessions[i] \in Session /\ sessions[i].context \in Contexts /\ sessions[i].path \in Paths
<1>1. sessions \in Seq(Session)
  BY DEF TypeOK
<1>2. \A i \in DOMAIN sessions : sessions[i] \in Session
  BY <1>1
<1> QED
  BY <1>1, <1>2 DEF Session

LEMMA CallType ==
  ASSUME TypeOK, NEW c \in Contexts
  PROVE  calls[c].path \in Paths /\ calls[c] \in Call
BY DEF TypeOK, Call

\* Goto changes where a context is and nothing else.
LEMMA GotoMoves ==
  ASSUME TypeOK, NEW c \in Contexts, NEW place, Goto(c, place)
  PROVE  /\ calls'[c].at = place
         /\ \A d \in Contexts : calls'[d].path = calls[d].path
         /\ \A d \in Contexts \ {c} : calls'[d] = calls[d]
<1>1. calls \in [Contexts -> Call]
  BY DEF TypeOK
<1> QED
  BY <1>1 DEF Goto, Call

LEMMA GotoType ==
  ASSUME TypeOK, NEW c \in Contexts,
         NEW place \in {"lock", "configure", "map", "build", "open", "returned", "threw"},
         Goto(c, place)
  PROVE  calls' \in [Contexts -> Call]
<1>1. calls \in [Contexts -> Call]
  BY DEF TypeOK
<1> QED
  BY <1>1 DEF Goto, Call

-----------------------------------------------------------------------------
(* The types.                                                              *)

\* The one at a place outside the lock does not hold it.
LEMMA LockType ==
  ASSUME TypeOK
  PROVE  /\ lock \in Contexts \union {None}
         /\ None \notin Contexts
         /\ \A c \in Contexts : calls[c].at \in InLock <=> lock = c
BY NHibernateSessionsAssumption DEF TypeOK

\* Configurations and faults in the lock, from c's place to the next.
LEMMA BuildingType ==
  ASSUME TypeOK, NEW c \in Contexts,
         \/ EnterLock(c) \/ Configure(c) \/ ConfigureFails(c) \/ AddAssemblies(c)
         \/ AddAssembliesFails(c) \/ Build(c) \/ BuildFails(c)
  PROVE  TypeOK'
<1>1. /\ calls[c].path \in Paths
      /\ sessionFactories \subseteq Paths /\ hurt \subseteq Paths
      /\ configurations \in [Paths -> {"none", "configured", "mapped"}]
      /\ faults \in 0..MaxFaults /\ MaxFaults \in Nat
  BY CallType, NHibernateSessionsAssumption DEF TypeOK
<1>2. UNCHANGED data
  BY DEF EnterLock, Configure, ConfigureFails, AddAssemblies, AddAssembliesFails, Build, BuildFails, data
<1>3. /\ contextSessions' \in [Contexts -> [Paths -> 0..Len(sessions')]]
      /\ sessions' \in Seq(Session)
      /\ stored' \subseteq Changes
  BY <1>2 DEF TypeOK, data
<1>4. sessionFactories' \subseteq Paths /\ hurt' \subseteq Paths
  BY <1>1 DEF EnterLock, Configure, ConfigureFails, AddAssemblies, AddAssembliesFails, Build, BuildFails, Fault
<1>5. faults' \in 0..MaxFaults
  BY <1>1 DEF EnterLock, Configure, ConfigureFails, AddAssemblies, AddAssembliesFails, Build, BuildFails, Fault
<1>6. configurations' \in [Paths -> {"none", "configured", "mapped"}]
  BY <1>1 DEF EnterLock, Configure, ConfigureFails, AddAssemblies, AddAssembliesFails, Build, BuildFails
<1>7. PICK place \in {"configure", "map", "build", "open", "threw"} :
        /\ Goto(c, place)
        /\ lock' = IF place \in InLock THEN c ELSE None
        /\ lock \in {c, None}
  <2>1. lock = None \/ lock = c
    BY LockType DEF EnterLock, Configure, ConfigureFails, AddAssemblies, AddAssembliesFails, Build, BuildFails,
                    At, LockIsFree, InLock
  <2>2. CASE EnterLock(c)
    BY <2>1, <2>2 DEF EnterLock, LockIsFree, InLock
  <2>3. CASE Configure(c)
    BY <2>1, <2>3, LockType DEF Configure, At, InLock
  <2>4. CASE ConfigureFails(c) \/ AddAssembliesFails(c) \/ BuildFails(c)
    BY <2>1, <2>4 DEF ConfigureFails, AddAssembliesFails, BuildFails, Fault, Throw, InLock
  <2>5. CASE AddAssemblies(c)
    BY <2>1, <2>5, LockType DEF AddAssemblies, Throw, At, InLock
  <2>6. CASE Build(c)
    BY <2>1, <2>6 DEF Build, Throw, InLock
  <2> QED
    BY <2>2, <2>3, <2>4, <2>5, <2>6
<1>8. calls' \in [Contexts -> Call]
  BY <1>7, GotoType
<1>9. \A d \in Contexts : calls'[d].at \in InLock <=> lock' = d
  BY <1>7, GotoMoves, LockType
<1>10. lock' \in Contexts \union {None}
  BY <1>7
<1> QED
  BY <1>3, <1>4, <1>5, <1>6, <1>8, <1>9, <1>10 DEF TypeOK

\* A call that does not enter the lock.
LEMMA CallsType ==
  ASSUME TypeOK, UNCHANGED building, faults' \in 0..MaxFaults,
         sessions' \in Seq(Session), stored' \subseteq Changes,
         contextSessions' \in [Contexts -> [Paths -> 0..Len(sessions')]],
         \/ UNCHANGED calls
         \/ \E c \in Contexts, p \in Paths, place \in {"lock", "open", "returned"} :
              /\ calls[c].at \notin InLock
              /\ calls' = [calls EXCEPT ![c] = [at |-> place, path |-> p]] \/ Goto(c, place)
              /\ place \notin InLock
  PROVE  TypeOK'
<1>1. /\ sessionFactories' \subseteq Paths /\ hurt' \subseteq Paths
      /\ configurations' \in [Paths -> {"none", "configured", "mapped"}]
      /\ lock' \in Contexts \union {None} /\ lock' = lock
  BY DEF TypeOK, building
<1>2. calls' \in [Contexts -> Call] /\ \A d \in Contexts : calls'[d].at \in InLock <=> lock' = d
  <2>1. CASE UNCHANGED calls
    BY <1>1, <2>1 DEF TypeOK
  <2>2. ASSUME NEW c \in Contexts, NEW p \in Paths, NEW place \in {"lock", "open", "returned"},
               calls[c].at \notin InLock, place \notin InLock,
               calls' = [calls EXCEPT ![c] = [at |-> place, path |-> p]]
        PROVE  calls' \in [Contexts -> Call] /\ \A d \in Contexts : calls'[d].at \in InLock <=> lock' = d
    <3>1. calls \in [Contexts -> Call] /\ [at |-> place, path |-> p] \in Call
      BY DEF TypeOK, Call
    <3> QED
      BY <1>1, <2>2, <3>1, LockType
  <2>3. ASSUME NEW c \in Contexts, NEW place \in {"lock", "open", "returned"},
               calls[c].at \notin InLock, place \notin InLock, Goto(c, place)
        PROVE  calls' \in [Contexts -> Call] /\ \A d \in Contexts : calls'[d].at \in InLock <=> lock' = d
    <3>1. calls' \in [Contexts -> Call]
      BY <2>3, GotoType
    <3>2. calls'[c].at = place /\ \A d \in Contexts \ {c} : calls'[d] = calls[d]
      BY <2>3, GotoMoves
    <3>3. \A d \in Contexts : calls[d].at \in InLock <=> lock = d
      BY LockType
    <3> QED
      BY <1>1, <2>3, <3>1, <3>2, <3>3
  <2> QED
    BY <2>1, <2>2, <2>3
<1> QED
  BY <1>1, <1>2 DEF TypeOK

\* One session of the list changes.
LEMMA OneSessionChanges ==
  ASSUME TypeOK, NEW i \in DOMAIN sessions, NEW s \in Session, sessions' = [sessions EXCEPT ![i] = s]
  PROVE  /\ sessions' \in Seq(Session)
         /\ Len(sessions') = Len(sessions) /\ DOMAIN sessions' = DOMAIN sessions
         /\ sessions'[i] = s
         /\ \A j \in DOMAIN sessions \ {i} : sessions'[j] = sessions[j]
<1>1. sessions \in Seq(Session)
  BY DEF TypeOK
<1> QED
  BY <1>1

\* The records a session of a context turns into.
LEMMA SessionChanges ==
  ASSUME TypeOK, NEW i \in DOMAIN sessions, NEW x
  PROVE  LET s == sessions[i] IN
         /\ s \in Session
         /\ [sessions EXCEPT ![i].pending = @ \union {x}, ![i].changes = @ \union {x}] =
              [sessions EXCEPT ![i] = [s EXCEPT !.pending = @ \union {x}, !.changes = @ \union {x}]]
         /\ [sessions EXCEPT ![i].pending = {}, ![i].changes = {}] =
              [sessions EXCEPT ![i] = [s EXCEPT !.pending = {}, !.changes = {}]]
         /\ [sessions EXCEPT ![i].open = FALSE, ![i].pending = {}] =
              [sessions EXCEPT ![i] = [s EXCEPT !.open = FALSE, !.pending = {}]]
         /\ [sessions EXCEPT ![i].open = FALSE, ![i].pending = {}, ![i].changes = {}] =
              [sessions EXCEPT ![i] = [s EXCEPT !.open = FALSE, !.pending = {}, !.changes = {}]]
<1>1. sessions \in Seq(Session)
  BY DEF TypeOK
<1>2. sessions[i] \in Session
  BY <1>1
<1> QED
  BY <1>1, <1>2 DEF Session

-----------------------------------------------------------------------------
(* A context uses its session for a path: what becomes of the session, and *)
(* of everything else.                                                     *)

\* The session `s' of the list and the database, after it was used.
Used(i, s) ==
  /\ sessions' = [sessions EXCEPT ![i] = s]
  /\ s \in Session
  /\ s.context = sessions[i].context /\ s.path = sessions[i].path
  /\ s.open => sessions[i].open
  /\ s.pending # {} => s.open
  /\ s.changes \ stored' \subseteq s.pending

LEMMA Uses ==
  ASSUME TypeOK, ChangesAreKept, NEW c \in Contexts, NEW p \in Paths,
         \/ ChangeFails(c, p) \/ CloseSession(c, p) \/ FlushFails(c, p) \/ CloseElsewhere(c, p)
         \/ \E x \in Changes : Change(c, p, x)
  PROVE  /\ Ready(c) /\ contextSessions[c][p] \in DOMAIN sessions
         /\ \E s \in Session : /\ Used(contextSessions[c][p], s)
                               /\ \/ UNCHANGED contextSessions
                                  \/ ~s.open /\ contextSessions' = [contextSessions EXCEPT ![c][p] = 0]
         /\ UNCHANGED <<building, calls>>
         /\ stored \subseteq stored' /\ stored' \subseteq Changes
         /\ faults' \in 0..MaxFaults
<1> DEFINE i == contextSessions[c][p]
<1>1. /\ stored \subseteq Changes /\ sessions \in Seq(Session) /\ faults \in 0..MaxFaults
      /\ MaxFaults \in Nat
  BY NHibernateSessionsAssumption DEF TypeOK
<1>2. Ready(c) /\ i \in DOMAIN sessions
  BY SessionType DEF ChangeFails, CloseSession, FlushFails, CloseElsewhere, Change, HasOpenSession
<1>3. /\ sessions[i] \in Session
      /\ sessions[i].changes \ stored \subseteq sessions[i].pending
      /\ sessions[i].pending # {} => sessions[i].open
  BY <1>1, <1>2 DEF ChangesAreKept
<1>4. UNCHANGED <<building, calls>>
  BY DEF ChangeFails, CloseSession, FlushFails, CloseElsewhere, Change
<1>5. faults' \in 0..MaxFaults
  <2>1. UNCHANGED faults \/ (faults < MaxFaults /\ faults' = faults + 1)
    BY DEF ChangeFails, CloseSession, FlushFails, CloseElsewhere, Change
  <2> QED
    BY <1>1, <2>1
<1>6. stored \subseteq stored' /\ stored' \subseteq Changes
  BY <1>1, <1>3 DEF ChangeFails, CloseSession, FlushFails, CloseElsewhere, Change, Flushed, Session
<1> DEFINE Result(s) == /\ Used(i, s)
                        /\ \/ UNCHANGED contextSessions
                           \/ ~s.open /\ contextSessions' = [contextSessions EXCEPT ![c][p] = 0]
<1>7. \E s \in Session : Result(s)
  <2>1. ASSUME NEW x \in Changes, Change(c, p, x)
        PROVE  Result([sessions[i] EXCEPT !.pending = @ \union {x}, !.changes = @ \union {x}])
    <3> DEFINE s == [sessions[i] EXCEPT !.pending = @ \union {x}, !.changes = @ \union {x}]
    <3>1. sessions' = [sessions EXCEPT ![i] = s] /\ UNCHANGED contextSessions /\ sessions[i].open
      BY <1>2, <2>1, SessionChanges DEF Change, HasOpenSession
    <3>2. /\ s \in Session /\ s.open = sessions[i].open
          /\ s.context = sessions[i].context /\ s.path = sessions[i].path
          /\ s.pending = sessions[i].pending \union {x} /\ s.changes = sessions[i].changes \union {x}
      BY <1>3, <2>1 DEF Session
    <3>3. sessions' = [sessions EXCEPT ![i] = s] /\ sessions[i].changes \ stored \subseteq sessions[i].pending
      BY <1>3, <3>1
    <3> HIDE DEF s
    <3>4. s.changes \ stored' \subseteq s.pending
      BY <1>3, <1>6, <3>2
    <3>5. Used(i, s)
      BY <3>1, <3>2, <3>3, <3>4 DEF Used
    <3> QED
      BY <3>1, <3>5 DEF s
  <2>2. CASE ChangeFails(c, p)
    <3>1. Result([sessions[i] EXCEPT !.pending = {}, !.changes = {}])
      BY <1>2, <1>3, <2>2, SessionChanges DEF ChangeFails, HasOpenSession, Used, Session
    <3> QED
      BY <3>1 DEF Used
  <2>3. CASE CloseSession(c, p)
    <3>1. CASE sessions[i].open
      <4>1. Result([sessions[i] EXCEPT !.open = FALSE, !.pending = {}])
        BY <1>2, <1>3, <2>3, <3>1, SessionChanges DEF CloseSession, Forget, Flushed, Used, Session
      <4> QED
        BY <4>1 DEF Used
    <3>2. CASE ~sessions[i].open
      <4>1. sessions' = [sessions EXCEPT ![i] = sessions[i]] /\ UNCHANGED stored
        BY <1>1, <1>2, <2>3, <3>2 DEF CloseSession
      <4>2. Result(sessions[i])
        BY <1>2, <1>3, <2>3, <3>2, <4>1 DEF CloseSession, Forget, Used
      <4> QED
        BY <1>3, <4>2
    <3> QED
      BY <3>1, <3>2
  <2>4. CASE FlushFails(c, p)
    <3>1. sessions' = [sessions EXCEPT ![i] = sessions[i]]
      BY <1>1, <1>2, <2>4 DEF FlushFails
    <3>2. Result(sessions[i])
      BY <1>2, <1>3, <1>6, <2>4, <3>1 DEF FlushFails, AfterFlushThrew, Used
    <3> QED
      BY <1>3, <3>2
  <2>5. CASE CloseElsewhere(c, p)
    <3>1. Result([sessions[i] EXCEPT !.open = FALSE, !.pending = {}, !.changes = {}])
      BY <1>2, <1>3, <2>5, SessionChanges DEF CloseElsewhere, HasOpenSession, Used, Session
    <3> QED
      BY <3>1 DEF Used
  <2> QED
    BY <2>1, <2>2, <2>3, <2>4, <2>5 DEF Used
<1> QED
  BY <1>2, <1>4, <1>5, <1>6, <1>7

\* The other two steps of the sessions.
LEMMA Opens ==
  ASSUME TypeOK, NEW c \in Contexts, OpenSession(c)
  PROVE  LET n == Len(sessions) + 1 IN
         /\ Len(sessions') = n /\ sessions' \in Seq(Session)
         /\ n \in Nat \ {0} /\ n \notin DOMAIN sessions
         /\ DOMAIN sessions' = DOMAIN sessions \union {n}
         /\ sessions'[n].context = c /\ sessions'[n].path = calls[c].path
         /\ sessions'[n].pending = {} /\ sessions'[n].changes = {}
         /\ \A i \in DOMAIN sessions : sessions'[i] = sessions[i]
         /\ contextSessions' \in [Contexts -> [Paths -> 0..Len(sessions')]]
         /\ contextSessions'[c][calls[c].path] = n
         /\ \A d \in Contexts, p \in Paths :
              d # c \/ p # calls[c].path => contextSessions'[d][p] = contextSessions[d][p]
         /\ Goto(c, "returned")
         /\ UNCHANGED <<building, stored, faults>>
<1> DEFINE n == Len(sessions) + 1
           s == [context |-> c, path |-> calls[c].path, open |-> TRUE, pending |-> {}, changes |-> {}]
<1>1. calls[c].path \in Paths
  BY CallType
<1>2. sessions \in Seq(Session) /\ contextSessions \in [Contexts -> [Paths -> 0..Len(sessions)]]
  BY DEF TypeOK
<1>3. s \in Session
  BY <1>1 DEF Session
<1>4. sessions' = Append(sessions, s)
  BY DEF OpenSession
<1>5. /\ Len(sessions') = n /\ sessions' \in Seq(Session) /\ sessions'[n] = s
      /\ \A i \in DOMAIN sessions : sessions'[i] = sessions[i]
  BY <1>2, <1>3, <1>4
<1>6. n \in Nat \ {0} /\ n \notin DOMAIN sessions /\ DOMAIN sessions' = DOMAIN sessions \union {n}
  BY <1>2, <1>5
<1>7. contextSessions' = [contextSessions EXCEPT ![c][calls[c].path] = Len(sessions) + 1]
  BY DEF OpenSession
<1>8. contextSessions' \in [Contexts -> [Paths -> 0..Len(sessions')]]
  BY <1>1, <1>2, <1>5, <1>7
<1>9. /\ sessions'[n].context = c /\ sessions'[n].path = calls[c].path
      /\ sessions'[n].pending = {} /\ sessions'[n].changes = {}
  BY <1>5
<1>10. Goto(c, "returned") /\ UNCHANGED <<building, stored, faults>>
  BY DEF OpenSession
<1>11. /\ contextSessions'[c][calls[c].path] = n
       /\ \A d \in Contexts, p \in Paths :
            d # c \/ p # calls[c].path => contextSessions'[d][p] = contextSessions[d][p]
  BY <1>1, <1>2, <1>7
<1> QED
  BY <1>5, <1>6, <1>8, <1>9, <1>10, <1>11

\* The types, in every step.
LEMMA TypeStep ==
  ASSUME TypeOK, ChangesAreKept, [Next]_vars
  PROVE  TypeOK'
<1>1. /\ contextSessions \in [Contexts -> [Paths -> 0..Len(sessions)]] /\ faults \in 0..MaxFaults
      /\ sessions \in Seq(Session) /\ stored \subseteq Changes
  BY DEF TypeOK
<1>2. CASE UNCHANGED vars
  BY <1>1, <1>2, CallsType DEF vars, data
<1>3. ASSUME NEW c \in Contexts,
             \/ EnterLock(c) \/ Configure(c) \/ ConfigureFails(c) \/ AddAssemblies(c)
             \/ AddAssembliesFails(c) \/ Build(c) \/ BuildFails(c)
      PROVE  TypeOK'
  BY <1>3, BuildingType
<1>4. ASSUME NEW c \in Contexts, OpenSession(c) PROVE TypeOK'
  <2>1. calls[c].at \notin InLock /\ "returned" \notin InLock
    BY <1>4 DEF OpenSession, At, InLock
  <2>2. calls[c].path \in Paths
    BY CallType
  <2> QED
    BY <1>1, <1>4, <2>1, <2>2, Opens, CallsType
<1>5. ASSUME NEW c \in Contexts, NEW p \in Paths, GetSessionFrom(c, p) PROVE TypeOK'
  <2>1. calls[c].at \notin InLock /\ \A place \in {"lock", "returned"} : place \notin InLock
    BY <1>5 DEF GetSessionFrom, Ready, InLock
  <2> QED
    BY <1>1, <1>5, <2>1, CallsType DEF GetSessionFrom, data
<1>6. ASSUME NEW c \in Contexts, NEW p \in Paths,
             \/ ChangeFails(c, p) \/ CloseSession(c, p) \/ FlushFails(c, p) \/ CloseElsewhere(c, p)
             \/ \E x \in Changes : Change(c, p, x)
      PROVE  TypeOK'
  <2>1. /\ contextSessions[c][p] \in DOMAIN sessions
        /\ \E s \in Session : /\ sessions' = [sessions EXCEPT ![contextSessions[c][p]] = s]
                              /\ \/ UNCHANGED contextSessions
                                 \/ contextSessions' = [contextSessions EXCEPT ![c][p] = 0]
        /\ UNCHANGED <<building, calls>> /\ stored' \subseteq Changes /\ faults' \in 0..MaxFaults
    BY <1>6, Uses DEF Used
  <2>2. Len(sessions') = Len(sessions) /\ sessions' \in Seq(Session)
    BY <2>1, OneSessionChanges
  <2>3. contextSessions' \in [Contexts -> [Paths -> 0..Len(sessions')]]
    <3>1. 0 \in 0..Len(sessions)
      BY <1>1
    <3>2. [contextSessions EXCEPT ![c][p] = 0] \in [Contexts -> [Paths -> 0..Len(sessions)]]
      BY <1>1, <3>1
    <3> QED
      BY <1>1, <2>1, <2>2, <3>2
  <2> QED
    BY <2>1, <2>2, <2>3, CallsType
<1> QED
  BY <1>2, <1>3, <1>4, <1>5, <1>6 DEF Next

-----------------------------------------------------------------------------
(* Who builds.                                                             *)

\* Where somebody is in the lock, nobody else is.
LEMMA AloneInLock ==
  ASSUME TypeOK, NEW c \in Contexts, calls[c].at \in InLock
  PROVE  \A d \in Contexts \ {c} : calls[d].at \notin InLock
BY LockType

LEMMA BuildStep ==
  ASSUME TypeOK, TypeOK', BuildInv, ChangesAreKept, [Next]_vars
  PROVE  BuildInv'
<1> USE DEF BuildInv, At
<1> DEFINE AtBuild(p) == \E c \in Contexts : calls[c].at = "build" /\ calls[c].path = p
<1>0. \A c \in Contexts : calls[c].path \in Paths
  BY CallType
<1>1. CASE UNCHANGED <<building, calls>>
  BY <1>1 DEF building, OneBuilds, ThrowsOnlyAfterFault
<1>2. ASSUME NEW c \in Contexts, NEW p \in Paths, GetSessionFrom(c, p) PROVE BuildInv'
  <2>1. /\ UNCHANGED building /\ Ready(c)
        /\ calls'[c].at \in {"returned", "lock"}
        /\ \A d \in Contexts \ {c} : calls'[d] = calls[d]
    <3>1. calls \in [Contexts -> Call]
      BY DEF TypeOK
    <3> QED
      BY <1>2, <3>1 DEF GetSessionFrom
  <2> QED
    BY <2>1 DEF building, OneBuilds, ThrowsOnlyAfterFault, Ready, InLock
<1>3. ASSUME NEW c \in Contexts, OpenSession(c) PROVE BuildInv'
  <2>1. UNCHANGED building /\ Goto(c, "returned") /\ calls[c].at = "open"
    BY <1>3 DEF OpenSession
  <2> QED
    BY <2>1, GotoMoves DEF building, OneBuilds, ThrowsOnlyAfterFault, InLock
<1>4. ASSUME NEW c \in Contexts, EnterLock(c) PROVE BuildInv'
  <2>1. CASE calls[c].path \in sessionFactories
    <3>1. Goto(c, "open") /\ calls[c].at = "lock" /\ UNCHANGED <<sessionFactories, configurations, hurt>>
      BY <1>4, <2>1 DEF EnterLock
    <3> QED
      BY <3>1, GotoMoves DEF OneBuilds, ThrowsOnlyAfterFault, InLock
  <2>2. CASE calls[c].path \notin sessionFactories
    <3>1. Goto(c, "configure") /\ calls[c].at = "lock" /\ UNCHANGED <<sessionFactories, configurations, hurt>>
      BY <1>4, <2>2 DEF EnterLock
    <3> QED
      BY <2>2, <3>1, GotoMoves DEF OneBuilds, ThrowsOnlyAfterFault, InLock
  <2> QED
    BY <2>1, <2>2
<1>5. ASSUME NEW c \in Contexts, Configure(c) PROVE BuildInv'
  <2>1. Goto(c, "map") /\ calls[c].at = "configure" /\ UNCHANGED <<sessionFactories, hurt>>
    BY <1>5 DEF Configure
  <2>2. \A p \in Paths : configurations'[p] = "mapped" => configurations[p] = "mapped"
    <3>1. configurations \in [Paths -> {"none", "configured", "mapped"}]
      BY DEF TypeOK
    <3> QED
      BY <1>0, <1>5, <3>1 DEF Configure
  <2> QED
    BY <2>1, <2>2, GotoMoves DEF OneBuilds, ThrowsOnlyAfterFault, InLock
<1>6. ASSUME NEW c \in Contexts, ConfigureFails(c) \/ AddAssembliesFails(c) \/ BuildFails(c) PROVE BuildInv'
  <2>1. /\ Goto(c, "threw") /\ calls[c].at \in InLock
        /\ UNCHANGED sessionFactories /\ hurt' = hurt \union {calls[c].path}
    BY <1>6 DEF ConfigureFails, AddAssembliesFails, BuildFails, Fault, Throw, InLock
  <2>2. \A p \in Paths \ {calls[c].path} : configurations'[p] = configurations[p]
    <3>1. configurations \in [Paths -> {"none", "configured", "mapped"}]
      BY DEF TypeOK
    <3> QED
      BY <1>6, <3>1 DEF ConfigureFails, AddAssembliesFails, BuildFails
  <2> QED
    BY <2>1, <2>2, GotoMoves DEF OneBuilds, ThrowsOnlyAfterFault, InLock
<1>7. ASSUME NEW c \in Contexts, AddAssemblies(c) PROVE BuildInv'
  <2>1. calls[c].at = "map" /\ calls[c].path \notin sessionFactories /\ UNCHANGED <<sessionFactories, hurt>>
    BY <1>7 DEF AddAssemblies, OneBuilds, InLock
  <2>2. ~AtBuild(calls[c].path)
    BY <2>1, AloneInLock DEF InLock
  <2>3. CASE configurations[calls[c].path] = "mapped"
    <3>1. calls[c].path \in hurt
      BY <1>0, <2>1, <2>2, <2>3 DEF OneBuilds
    <3>2. Goto(c, "threw") /\ UNCHANGED configurations
      BY <1>7, <2>3 DEF AddAssemblies, Throw
    <3> QED
      BY <2>1, <3>1, <3>2, GotoMoves DEF OneBuilds, ThrowsOnlyAfterFault, InLock
  <2>4. CASE configurations[calls[c].path] # "mapped"
    <3>1. Goto(c, "build") /\ \A p \in Paths \ {calls[c].path} : configurations'[p] = configurations[p]
      BY <1>7, <2>4 DEF AddAssemblies, TypeOK
    <3> QED
      BY <2>1, <3>1, GotoMoves DEF OneBuilds, ThrowsOnlyAfterFault, InLock
  <2> QED
    BY <2>3, <2>4
<1>8. ASSUME NEW c \in Contexts, Build(c) PROVE BuildInv'
  <2>1. calls[c].at = "build" /\ calls[c].path \notin sessionFactories
    BY <1>8 DEF Build, OneBuilds, InLock
  <2>2. /\ Goto(c, "open") /\ sessionFactories' = sessionFactories \union {calls[c].path}
        /\ UNCHANGED <<configurations, hurt>>
    BY <1>8, <2>1 DEF Build
  <2>3. \A d \in Contexts \ {c} : calls[d].at \notin InLock
    BY <2>1, AloneInLock DEF InLock
  <2> QED
    BY <2>1, <2>2, <2>3, GotoMoves DEF OneBuilds, ThrowsOnlyAfterFault, InLock
<1> QED
  BY <1>1, <1>2, <1>3, <1>4, <1>5, <1>6, <1>7, <1>8, Uses DEF Next, vars, building

-----------------------------------------------------------------------------
(* What becomes of a session.                                              *)

LEMMA SessionStep ==
  ASSUME TypeOK, TypeOK', SessionInv, [Next]_vars
  PROVE  SessionInv'
<1> USE DEF SessionInv
<1>0. contextSessions \in [Contexts -> [Paths -> 0..Len(sessions)]] /\ \A c \in Contexts : calls[c].path \in Paths
  BY CallType DEF TypeOK
<1>1. CASE UNCHANGED <<data, calls>>
  BY <1>1 DEF data, OwnSessions, NoSessionIsForgotten, ChangesAreKept, Ready
<1>2. ASSUME UNCHANGED data, NEW c \in Contexts, NEW place, ~Ready(c), Goto(c, place)
      PROVE  SessionInv'
  <2>1. \A d \in Contexts : Ready(d)' \/ contextSessions[d][calls'[d].path] = 0
    BY <1>2, GotoMoves DEF OwnSessions, Ready
  <2> QED
    BY <1>2, <2>1 DEF data, OwnSessions, NoSessionIsForgotten, ChangesAreKept
<1>3. ASSUME NEW c \in Contexts, NEW p \in Paths, GetSessionFrom(c, p) PROVE SessionInv'
  <2>1. /\ UNCHANGED data
        /\ calls'[c].path = p
        /\ contextSessions[c][p] # 0 => calls'[c].at = "returned"
        /\ \A d \in Contexts \ {c} : calls'[d] = calls[d]
    <3>1. calls \in [Contexts -> Call]
      BY DEF TypeOK
    <3> QED
      BY <1>3, <3>1 DEF GetSessionFrom
  <2>2. \A d \in Contexts : Ready(d)' \/ contextSessions[d][calls'[d].path] = 0
    BY <2>1 DEF OwnSessions, Ready
  <2> QED
    BY <2>1, <2>2 DEF data, OwnSessions, NoSessionIsForgotten, ChangesAreKept
<1>4. ASSUME NEW c \in Contexts, OpenSession(c) PROVE SessionInv'
  <2> DEFINE q == calls[c].path  n == Len(sessions) + 1
  <2>1. ~Ready(c) /\ contextSessions[c][q] = 0
    BY <1>4 DEF OpenSession, At, Ready, OwnSessions
  <2>2. DOMAIN sessions' = DOMAIN sessions \union {n} /\ n \notin DOMAIN sessions
    BY <1>4, Opens
  <2>3. OwnSessions'
    <3>1. \A d \in Contexts, p \in Paths : contextSessions'[d][p] # 0 =>
            /\ sessions'[contextSessions'[d][p]].context = d
            /\ sessions'[contextSessions'[d][p]].path = p
      <4> SUFFICES ASSUME NEW d \in Contexts, NEW p \in Paths, contextSessions'[d][p] # 0
                   PROVE  /\ sessions'[contextSessions'[d][p]].context = d
                          /\ sessions'[contextSessions'[d][p]].path = p
        OBVIOUS
      <4>1. CASE d = c /\ p = q
        BY <1>4, <4>1, Opens
      <4>2. CASE d # c \/ p # q
        <5>1. contextSessions'[d][p] = contextSessions[d][p]
          BY <1>4, <4>2, Opens
        <5>2. contextSessions[d][p] \in DOMAIN sessions
          BY <5>1, SessionType
        <5> QED
          BY <1>4, <5>1, <5>2, Opens DEF OwnSessions
      <4> QED
        BY <4>1, <4>2
    <3>2. \A d \in Contexts : Ready(d)' \/ contextSessions'[d][calls'[d].path] = 0
      <4>1. calls'[c].at = "returned" /\ \A d \in Contexts \ {c} : calls'[d] = calls[d]
        BY <1>4, Opens, GotoMoves
      <4>2. \A d \in Contexts \ {c} : contextSessions'[d][calls[d].path] = contextSessions[d][calls[d].path]
        BY <1>0, <1>4, Opens
      <4> QED
        BY <4>1, <4>2 DEF OwnSessions, Ready
    <3> QED
      BY <3>1, <3>2 DEF OwnSessions
  <2>4. NoSessionIsForgotten'
    <3>1. ASSUME NEW i \in DOMAIN sessions, sessions[i].open
          PROVE  contextSessions'[sessions[i].context][sessions[i].path] = i
      <4>1. /\ contextSessions[sessions[i].context][sessions[i].path] = i /\ i # 0
            /\ sessions[i].context \in Contexts /\ sessions[i].path \in Paths
        BY <3>1, ListType DEF NoSessionIsForgotten
      <4>2. sessions[i].context # c \/ sessions[i].path # q
        BY <2>1, <4>1
      <4>3. \A d \in Contexts, p \in Paths : d # c \/ p # q => contextSessions'[d][p] = contextSessions[d][p]
        BY <1>4, Opens
      <4> QED
        BY <4>1, <4>2, <4>3
    <3>2. contextSessions'[sessions'[n].context][sessions'[n].path] = n
      BY <1>4, Opens
    <3>3. \A i \in DOMAIN sessions : sessions'[i] = sessions[i]
      BY <1>4, Opens
    <3> QED
      BY <2>2, <3>1, <3>2, <3>3 DEF NoSessionIsForgotten
  <2>5. ChangesAreKept'
    <3>1. sessions'[n].pending = {} /\ sessions'[n].changes = {} /\ UNCHANGED stored
      BY <1>4, Opens
    <3>2. \A i \in DOMAIN sessions : sessions'[i] = sessions[i]
      BY <1>4, Opens
    <3> QED
      BY <2>2, <3>1, <3>2 DEF ChangesAreKept
  <2> QED
    BY <2>3, <2>4, <2>5
<1>5. ASSUME NEW c \in Contexts, NEW p \in Paths,
             \/ ChangeFails(c, p) \/ CloseSession(c, p) \/ FlushFails(c, p) \/ CloseElsewhere(c, p)
             \/ \E x \in Changes : Change(c, p, x)
      PROVE  SessionInv'
  <2> DEFINE i == contextSessions[c][p]
  <2>1. Ready(c) /\ i \in DOMAIN sessions /\ UNCHANGED calls /\ stored \subseteq stored'
    BY <1>5, Uses
  <2>2. PICK s \in Session : /\ Used(i, s)
                             /\ \/ UNCHANGED contextSessions
                                \/ ~s.open /\ contextSessions' = [contextSessions EXCEPT ![c][p] = 0]
    BY <1>5, Uses
  <2>3. /\ DOMAIN sessions' = DOMAIN sessions /\ sessions'[i] = s
        /\ \A j \in DOMAIN sessions \ {i} : sessions'[j] = sessions[j]
        /\ \A j \in DOMAIN sessions : /\ sessions'[j].context = sessions[j].context
                                      /\ sessions'[j].path = sessions[j].path
    BY <2>1, <2>2, OneSessionChanges DEF Used
  <2>4. sessions[i].context = c /\ sessions[i].path = p
    BY <2>1, <1>0 DEF OwnSessions, TypeOK
  <2>5. /\ \A d \in Contexts, q \in Paths : contextSessions'[d][q] \in {0, contextSessions[d][q]}
        /\ \A d \in Contexts, q \in Paths : d # c \/ q # p => contextSessions'[d][q] = contextSessions[d][q]
        /\ s.open => UNCHANGED contextSessions
    <3>1. CASE UNCHANGED contextSessions
      BY <3>1
    <3>2. CASE ~s.open /\ contextSessions' = [contextSessions EXCEPT ![c][p] = 0]
      BY <1>0, <3>2
    <3> QED
      BY <2>2, <3>1, <3>2
  <2>6. OwnSessions'
    <3>1. ASSUME NEW d \in Contexts, NEW q \in Paths, contextSessions'[d][q] # 0
          PROVE  /\ sessions'[contextSessions'[d][q]].context = d
                 /\ sessions'[contextSessions'[d][q]].path = q
      <4>1. contextSessions'[d][q] = contextSessions[d][q] /\ contextSessions[d][q] \in DOMAIN sessions
        BY <2>5, <3>1, SessionType
      <4>2. sessions[contextSessions[d][q]].context = d /\ sessions[contextSessions[d][q]].path = q
        BY <3>1, <4>1 DEF OwnSessions
      <4> QED
        BY <2>3, <4>1, <4>2
    <3>2. \A d \in Contexts : Ready(d)' \/ contextSessions'[d][calls'[d].path] = 0
      BY <1>0, <2>1, <2>5 DEF OwnSessions, Ready
    <3> QED
      BY <3>1, <3>2 DEF OwnSessions
  <2>7. NoSessionIsForgotten'
    <3>1. \A j \in DOMAIN sessions : sessions[j].context \in Contexts /\ sessions[j].path \in Paths
      BY ListType
    <3> QED
      BY <2>1, <2>2, <2>3, <2>4, <2>5, <3>1 DEF NoSessionIsForgotten, Used
  <2>8. ChangesAreKept'
    BY <2>1, <2>2, <2>3 DEF ChangesAreKept, Used
  <2> QED
    BY <2>6, <2>7, <2>8
<1>6. ASSUME NEW c \in Contexts,
             \/ EnterLock(c) \/ Configure(c) \/ ConfigureFails(c) \/ AddAssemblies(c)
             \/ AddAssembliesFails(c) \/ Build(c) \/ BuildFails(c)
      PROVE  SessionInv'
  <2>1. UNCHANGED data /\ ~Ready(c)
    BY <1>6 DEF EnterLock, Configure, ConfigureFails, AddAssemblies, AddAssembliesFails, Build, BuildFails,
                At, Ready
  <2>2. \E place : Goto(c, place)
    BY <1>6 DEF EnterLock, Configure, ConfigureFails, AddAssemblies, AddAssembliesFails, Build, BuildFails,
                Fault, Throw
  <2> QED
    BY <1>2, <2>1, <2>2
<1> QED
  BY <1>1, <1>3, <1>4, <1>5, <1>6 DEF Next, vars, data

-----------------------------------------------------------------------------
LEMMA Invariant == Spec => []NInv
<1>1. NInv /\ [Next]_vars => NInv'
  <2> SUFFICES ASSUME NInv, [Next]_vars PROVE NInv'
    OBVIOUS
  <2>1. TypeOK'
    BY TypeStep DEF NInv, SessionInv
  <2>2. BuildInv'
    BY <2>1, BuildStep DEF NInv, SessionInv
  <2>3. SessionInv'
    BY <2>1, SessionStep DEF NInv
  <2> QED
    BY <2>1, <2>2, <2>3 DEF NInv
<1> QED
  BY Initial, <1>1, PTL DEF Spec

\* The variables keep their types, and exactly the context inside the lock of
\* GetSessionFactoryFor holds it, whatever exceptions leave it.
THEOREM TypeCorrect == Spec => []TypeOK
<1>1. NInv => TypeOK
  BY DEF NInv
<1> QED
  BY <1>1, Invariant, PTL

\* GetSessionFrom throws for a path only after a fault in building its factory: no
\* number of contexts that ask at once adds the assemblies or the factory twice.
THEOREM OnlyFaultsThrow == Spec => []ThrowsOnlyAfterFault
<1>1. NInv => ThrowsOnlyAfterFault
  BY DEF NInv, BuildInv
<1> QED
  BY <1>1, Invariant, PTL

\* A session that is open is the one its context has for the path, also after an
\* exception of Flush in CloseSession.
THEOREM SessionsAreReachable == Spec => []NoSessionIsForgotten
<1>1. NInv => NoSessionIsForgotten
  BY DEF NInv, SessionInv
<1> QED
  BY <1>1, Invariant, PTL

\* Closing a session loses none of the changes made in it since it was opened or
\* cleared.
THEOREM ClosingLosesNothing == Spec => []ChangesAreKept
<1>1. NInv => ChangesAreKept
  BY DEF NInv, SessionInv
<1> QED
  BY <1>1, Invariant, PTL
================================================================================
