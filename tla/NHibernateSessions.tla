-------------------------- MODULE NHibernateSessions --------------------------
(***************************************************************************)
(* NHibernateSessionManager and the repositories that write through it:    *)
(* the session factories and configurations all threads share, and the     *)
(* sessions each context (a thread or a web request) keeps for itself.     *)
(*                                                                         *)
(* NHibernate is external.  A session holds changes until it is flushed;   *)
(* an assembly can be added to a configuration once (the mapping of a      *)
(* class twice is an exception).  A change stands for an Add, Update or    *)
(* Delete of some entity.  Faults are exceptions of NHibernate, the file   *)
(* system and the database.                                                *)
(***************************************************************************)
EXTENDS Integers, Sequences

CONSTANTS
  Contexts,     \* the threads or requests
  Paths,        \* the paths of NHibernate configuration files
  Changes,      \* the changes made by repositories
  None,         \* nobody
  MaxSessions,  \* bound on the sessions opened
  MaxFaults     \* bound on faults

ASSUME NHibernateSessionsAssumption ==
  /\ None \notin Contexts
  /\ {MaxSessions, MaxFaults} \subseteq Nat

VARIABLES
  sessionFactories,  \* the paths for which there is a session factory
  configurations,    \* of each path: none, configured, or mapped when assemblies were added
  lock,              \* who is in the lock of GetSessionFactoryFor
  calls,             \* the last call of GetSessionFrom in each context
  contextSessions,   \* of each context and path: the number of its session, or 0
  sessions,          \* the sessions there have been
  stored,            \* the changes in the databases
  faults,            \* the faults so far
  hurt               \* history: the paths a fault has happened to while building

building == <<sessionFactories, configurations, lock, hurt>>
data == <<contextSessions, sessions, stored>>
vars == <<building, calls, data, faults>>

Call == [at : {"lock", "configure", "map", "build", "open", "returned", "threw"},
         path : Paths]

\* `changes' is history: those made since the session was opened or cleared.
Session == [context : Contexts, path : Paths, open : BOOLEAN,
            pending : SUBSET Changes, changes : SUBSET Changes]

InLock == {"configure", "map", "build"}

\* The variables keep their types, and the one in the lock is the one that builds.
TypeOK ==
  /\ sessionFactories \subseteq Paths
  /\ configurations \in [Paths -> {"none", "configured", "mapped"}]
  /\ lock \in Contexts \union {None}
  /\ calls \in [Contexts -> Call]
  /\ sessions \in Seq(Session)
  /\ contextSessions \in [Contexts -> [Paths -> 0..Len(sessions)]]
  /\ stored \subseteq Changes
  /\ faults \in 0..MaxFaults
  /\ hurt \subseteq Paths
  /\ \A c \in Contexts : calls[c].at \in InLock <=> lock = c

Init ==
  /\ sessionFactories = {}
  /\ configurations = [p \in Paths |-> "none"]
  /\ lock = None
  /\ calls \in {[c \in Contexts |-> [at |-> "returned", path |-> p]] : p \in Paths}
  /\ contextSessions = [c \in Contexts |-> [p \in Paths |-> 0]]
  /\ sessions = <<>>
  /\ stored = {}
  /\ faults = 0
  /\ hurt = {}
-----------------------------------------------------------------------------
At(c, place) == calls[c].at = place
Goto(c, place) == calls' = [calls EXCEPT ![c].at = place]

\* The code of a context is not inside GetSessionFrom.
Ready(c) == calls[c].at \in {"returned", "threw"}

(* GetSessionFrom: the session of this context, or one has to be opened.   *)
GetSessionFrom(c, p) ==
  /\ Ready(c)
  /\ contextSessions[c][p] = 0 => Len(sessions) < MaxSessions
  /\ calls' = [calls EXCEPT ![c] =
       [at |-> IF contextSessions[c][p] # 0 THEN "returned" ELSE "lock", path |-> p]]
  /\ UNCHANGED <<building, data, faults>>

\* Mutant: GetSessionFactoryFor without its lock.
AlwaysFree == TRUE

LockIsFree == lock = None

(* GetSessionFactoryFor enters the lock, and leaves it if there is a factory. *)
EnterLock(c) ==
  /\ At(c, "lock")
  /\ LockIsFree
  /\ IF calls[c].path \in sessionFactories
       THEN Goto(c, "open") /\ UNCHANGED lock
       ELSE Goto(c, "configure") /\ lock' = c
  /\ UNCHANGED <<sessionFactories, configurations, hurt, data, faults>>

\* An exception leaves the lock and GetSessionFrom.
Throw(c) == lock' = None /\ Goto(c, "threw")

Fault(c) ==
  /\ faults < MaxFaults
  /\ faults' = faults + 1
  /\ hurt' = hurt \union {calls[c].path}
  /\ Throw(c)

(* GetConfigurationFrom.                                                   *)
Configure(c) ==
  /\ At(c, "configure")
  /\ configurations' = [configurations EXCEPT ![calls[c].path] = IF @ = "none" THEN "configured" ELSE @]
  /\ Goto(c, "map")
  /\ UNCHANGED <<sessionFactories, lock, hurt, data, faults>>

(* The file is missing, or Configure throws.                               *)
ConfigureFails(c) ==
  /\ At(c, "configure")
  /\ Fault(c)
  /\ UNCHANGED <<sessionFactories, configurations, data>>

(* AddAssembly for the mapping assemblies.                                 *)
AddAssemblies(c) ==
  /\ At(c, "map")
  /\ IF configurations[calls[c].path] = "mapped"
       THEN Throw(c) /\ UNCHANGED configurations
       ELSE /\ configurations' = [configurations EXCEPT ![calls[c].path] = "mapped"]
            /\ Goto(c, "build")
            /\ UNCHANGED lock
  /\ UNCHANGED <<sessionFactories, hurt, data, faults>>

(* An assembly cannot be loaded; those before it may have been added.      *)
AddAssembliesFails(c) ==
  /\ At(c, "map")
  /\ Fault(c)
  /\ \E state \in {configurations[calls[c].path], "mapped"} :
       configurations' = [configurations EXCEPT ![calls[c].path] = state]
  /\ UNCHANGED <<sessionFactories, data>>

(* BuildSessionFactory; the factory is added and the lock left.            *)
Build(c) ==
  /\ At(c, "build")
  /\ IF calls[c].path \in sessionFactories
       THEN Throw(c) /\ UNCHANGED sessionFactories
       ELSE /\ sessionFactories' = sessionFactories \union {calls[c].path}
            /\ lock' = None
            /\ Goto(c, "open")
  /\ UNCHANGED <<configurations, hurt, data, faults>>

BuildFails(c) ==
  /\ At(c, "build")
  /\ Fault(c)
  /\ UNCHANGED <<sessionFactories, configurations, data>>

(* OpenSession, and the context keeps the session.                         *)
OpenSession(c) ==
  /\ At(c, "open")
  /\ Len(sessions) < MaxSessions
  /\ sessions' = Append(sessions, [context |-> c, path |-> calls[c].path, open |-> TRUE,
                                   pending |-> {}, changes |-> {}])
  /\ contextSessions' = [contextSessions EXCEPT ![c][calls[c].path] = Len(sessions) + 1]
  /\ Goto(c, "returned")
  /\ UNCHANGED <<building, stored, faults>>
-----------------------------------------------------------------------------
HasOpenSession(c, p) ==
  /\ Ready(c)
  /\ contextSessions[c][p] # 0
  /\ sessions[contextSessions[c][p]].open

(* Add, Update or Delete of a repository.                                  *)
Change(c, p, x) ==
  /\ HasOpenSession(c, p)
  /\ x \notin stored /\ \A i \in DOMAIN sessions : x \notin sessions[i].changes
  /\ sessions' = [sessions EXCEPT ![contextSessions[c][p]].pending = @ \union {x},
                                  ![contextSessions[c][p]].changes = @ \union {x}]
  /\ UNCHANGED <<building, calls, contextSessions, stored, faults>>

(* Add or Update throws: ExecuteWithErrorHandling clears the session.      *)
ChangeFails(c, p) ==
  /\ HasOpenSession(c, p)
  /\ faults < MaxFaults
  /\ faults' = faults + 1
  /\ sessions' = [sessions EXCEPT ![contextSessions[c][p]].pending = {},
                                  ![contextSessions[c][p]].changes = {}]
  /\ UNCHANGED <<building, calls, contextSessions, stored>>

\* The context of c no longer has a session for p.
Forget(c, p) == contextSessions' = [contextSessions EXCEPT ![c][p] = 0]

\* Mutant: a session is closed without being flushed.
NothingFlushed(s) == {}

\* What Flush writes.
Flushed(s) == sessions[s].pending

(* CloseSession.                                                           *)
CloseSession(c, p) ==
  /\ Ready(c)
  /\ contextSessions[c][p] # 0
  /\ LET s == contextSessions[c][p] IN
       IF sessions[s].open
         THEN /\ stored' = stored \union Flushed(s)
              /\ sessions' = [sessions EXCEPT ![s].open = FALSE, ![s].pending = {}]
         ELSE UNCHANGED <<stored, sessions>>
  /\ Forget(c, p)
  /\ UNCHANGED <<building, calls, faults>>

\* Mutant: the session is removed from the context whatever Flush does.
ForgetAnyway(c, p) == Forget(c, p)

\* What CloseSession does after an exception of Flush.
AfterFlushThrew(c, p) == UNCHANGED contextSessions

(* Flush throws in CloseSession, with some of the changes written.         *)
FlushFails(c, p) ==
  /\ HasOpenSession(c, p)
  /\ faults < MaxFaults
  /\ faults' = faults + 1
  /\ \E written \in SUBSET sessions[contextSessions[c][p]].pending : stored' = stored \union written
  /\ AfterFlushThrew(c, p)
  /\ UNCHANGED <<building, calls, sessions>>

(* The code of the context closes the session itself and drops its changes. *)
CloseElsewhere(c, p) ==
  /\ HasOpenSession(c, p)
  /\ sessions' = [sessions EXCEPT ![contextSessions[c][p]].open = FALSE,
                                  ![contextSessions[c][p]].pending = {},
                                  ![contextSessions[c][p]].changes = {}]
  /\ UNCHANGED <<building, calls, contextSessions, stored, faults>>

Next ==
  \E c \in Contexts :
    \/ EnterLock(c) \/ Configure(c) \/ ConfigureFails(c) \/ AddAssemblies(c)
    \/ AddAssembliesFails(c) \/ Build(c) \/ BuildFails(c) \/ OpenSession(c)
    \/ \E p \in Paths :
         \/ GetSessionFrom(c, p) \/ ChangeFails(c, p) \/ CloseSession(c, p)
         \/ FlushFails(c, p) \/ CloseElsewhere(c, p)
         \/ \E x \in Changes : Change(c, p, x)

Spec == Init /\ [][Next]_vars
-----------------------------------------------------------------------------
\* However many contexts ask for a path for the first time, GetSessionFrom throws only
\* if a fault has happened while the factory of this path was being built.  After one
\* it may throw for ever: the configuration was cached and has its mappings already.
ThrowsOnlyAfterFault ==
  \A c \in Contexts : At(c, "threw") => calls[c].path \in hurt

\* An open session can be reached, used and closed by its context, also after the
\* Flush of CloseSession threw; so no context has two for one path.
NoSessionIsForgotten ==
  \A i \in DOMAIN sessions :
    sessions[i].open => contextSessions[sessions[i].context][sessions[i].path] = i

\* The changes made since a session was opened or cleared are in the database, or
\* still pending in a session that is open: closing one loses nothing.
ChangesAreKept ==
  \A i \in DOMAIN sessions :
    /\ sessions[i].changes \ stored \subseteq sessions[i].pending
    /\ sessions[i].pending # {} => sessions[i].open
=============================================================================
