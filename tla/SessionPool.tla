---------------------------- MODULE SessionPool -----------------------------
(***************************************************************************)
(* Poco::Data::SessionPool with its PooledSessionHolder and                *)
(* PooledSessionImpl objects (src/Data/src/SessionPool.cpp,                *)
(* src/Data/src/PooledSessionImpl.cpp).                                    *)
(*                                                                         *)
(* Sections under the pool's (recursive) _mutex are one step, but for      *)
(* shutdown(), which waits inside for the janitor's timer.  The database   *)
(* may drop a connection at any time.  A client holds at most one session; *)
(* one feature stands for all features and properties.  The lists are      *)
(* sets: their order decides which idle session is used or closed first.   *)
(* Of the connectors' SessionImpl the model keeps whether it is connected, *)
(* whether it is in a transaction, and the feature; its rollback() and     *)
(* close() may fail.                                                       *)
(***************************************************************************)
EXTENDS Integers, FiniteSets

CONSTANTS
    Clients,      \* application threads
    Tuners,       \* the clients that call get(name, value) and setFeature()
    Closers,      \* the clients that call shutdown()
    Sessions,     \* SessionImpl objects, each with its PooledSessionHolder
    MinSessions,  \* _minSessions
    MaxSessions,  \* _maxSessions
    None

ASSUME SessionPoolAssumption ==
    /\ MinSessions \in Nat /\ MaxSessions \in Nat /\ MinSessions <= MaxSessions
    /\ Tuners \subseteq Clients /\ Closers \subseteq Clients
    /\ None \notin Clients \cup Sessions

VARIABLES
    mutex,          \* owner of _mutex, if it blocks while it holds it
    idleSessions,   \* _idleSessions
    activeSessions, \* _activeSessions
    nSessions,      \* _nSessions
    shut,           \* _shutdown
    featureMap,     \* the feature is in _featureMap: it has a pool default
    addFeatureMap,  \* _addFeatureMap: the keys of the saved values
    connected,      \* SessionImpl::isConnected()
    transaction,    \* SessionImpl::isTransaction()
    feature,        \* the session's feature has its default value
    expired,        \* PooledSessionHolder::idle() > _idleTime
    cpc,            \* where the client is
    held,           \* the session of the client's PooledSessionImpl (_pHolder)
    jpc,            \* where the janitor's timer thread is
    unclosed        \* history: sessions in use whose close() threw in shutdown()

listVars    == <<idleSessions, activeSessions, nSessions>>
sessionVars == <<connected, transaction, feature, expired>>
poolVars    == <<mutex, listVars, shut, featureMap, addFeatureMap>>
spVars      == <<poolVars, sessionVars, cpc, held, jpc, unclosed>>

\* A pointer to the SessionImpl, or to the PooledSessionImpl that decorates it.
Pointers == {"SessionImpl", "PooledSessionImpl"} \X Sessions

\* Type invariant.
SPTypeOK ==
    /\ mutex \in Clients \cup {None}
    /\ idleSessions \subseteq Sessions /\ activeSessions \subseteq Sessions
    /\ nSessions \in 0 .. MaxSessions
    /\ shut \in BOOLEAN /\ featureMap \in BOOLEAN
    /\ addFeatureMap \subseteq Pointers
    /\ connected \in [Sessions -> BOOLEAN] /\ transaction \in [Sessions -> BOOLEAN]
    /\ feature \in [Sessions -> BOOLEAN] /\ expired \in [Sessions -> BOOLEAN]
    /\ cpc \in [Clients -> {"app", "get", "getFeature", "setFeature", "putBack",
                            "shutdown", "stopping"}]
    /\ held \in [Clients -> Sessions \cup {None}]
    /\ jpc \in {"sleep", "callback", "stopped"}
    /\ unclosed \subseteq Sessions

SPInit ==
    /\ mutex = None
    /\ idleSessions = {} /\ activeSessions = {} /\ nSessions = 0
    /\ shut = FALSE /\ featureMap = FALSE /\ addFeatureMap = {}
    /\ connected = [s \in Sessions |-> FALSE]
    /\ transaction = [s \in Sessions |-> FALSE]
    /\ feature = [s \in Sessions |-> TRUE]
    /\ expired = [s \in Sessions |-> FALSE]
    /\ cpc = [c \in Clients |-> "app"]
    /\ held = [c \in Clients |-> None]
    /\ jpc = "sleep"
    /\ unclosed = {}

Goto(c, label) == cpc' = [cpc EXCEPT ![c] = label]

\* The connections of the sessions S are over: close() has succeeded, or the
\* last reference to the session is gone and its destructor has ended it.
Disconnected(S) == [s \in Sessions |-> connected[s] /\ s \notin S]

-----------------------------------------------------------------------------
(* SessionPool::get() and setFeature().                                    *)

Call(c, o) ==
    /\ cpc[c] = "app" /\ held[c] = None
    /\ o = "getFeature" => c \in Tuners
    /\ o = "shutdown" => c \in Closers
    /\ Goto(c, o)
    /\ UNCHANGED <<poolVars, sessionVars, held, jpc, unclosed>>

\* Mutant: a dead session is erased but still counted.
PurgedCountKept == nSessions

Dead == {s \in idleSessions : ~connected[s]}
Alive == idleSessions \ Dead

\* purgeDeadSessions(), the first thing get() does.
PurgedCount == nSessions - Cardinality(Dead)

\* get() runs under the mutex, in a pool that is not shut down.
Gets(c) == cpc[c] \in {"get", "getFeature"} /\ mutex = None /\ ~shut

\* The session s goes to the client; get(name, value) has still to set the
\* feature, outside the mutex.
HandOut(c, s) ==
    /\ activeSessions' = activeSessions \cup {s}
    /\ idleSessions' = Alive \ {s}
    /\ held' = [held EXCEPT ![c] = s]
    /\ expired' = [expired EXCEPT ![s] = FALSE]
    /\ Goto(c, IF cpc[c] = "get" THEN "app" ELSE "setFeature")
    /\ UNCHANGED <<mutex, shut, featureMap, addFeatureMap, jpc, unclosed>>

Recycle(c, s) ==
    /\ Gets(c) /\ s \in Alive
    /\ HandOut(c, s)
    /\ nSessions' = PurgedCount
    /\ UNCHANGED <<connected, transaction, feature>>

\* The factory creates a session, with the pool's settings applied.
CreateSession(c, s) ==
    /\ Gets(c) /\ Alive = {} /\ PurgedCount < MaxSessions
    /\ s \notin activeSessions /\ \A d \in Clients : held[d] # s
    /\ HandOut(c, s)
    /\ nSessions' = PurgedCount + 1
    /\ connected' = [connected EXCEPT ![s] = TRUE]
    /\ transaction' = [transaction EXCEPT ![s] = FALSE]
    /\ feature' = [feature EXCEPT ![s] = TRUE]

\* An exception: the factory has no connection, or the pool is exhausted.
GetFails(c) ==
    /\ Gets(c) /\ Alive = {}
    /\ idleSessions' = Alive
    /\ nSessions' = PurgedCount
    /\ Goto(c, "app")
    /\ UNCHANGED <<mutex, activeSessions, shut, featureMap, addFeatureMap, sessionVars, held, jpc, unclosed>>

CreateFails(c) == PurgedCount < MaxSessions /\ GetFails(c)
Exhausted(c)   == PurgedCount >= MaxSessions /\ GetFails(c)

\* "Session pool has been shut down."
GetShut(c) ==
    /\ cpc[c] \in {"get", "getFeature"} /\ mutex = None /\ shut
    /\ Goto(c, "app")
    /\ UNCHANGED <<poolVars, sessionVars, held, jpc, unclosed>>

\* get(name, value) saves the old value under s.impl() and sets the new one.
SetSessionFeature(c) ==
    /\ cpc[c] = "setFeature"
    /\ addFeatureMap' = addFeatureMap \cup {<<"PooledSessionImpl", held[c]>>}
    /\ feature' = [feature EXCEPT ![held[c]] = FALSE]
    /\ Goto(c, "app")
    /\ UNCHANGED <<mutex, listVars, shut, featureMap, connected, transaction, expired, held, jpc, unclosed>>

\* SessionPool::setFeature(): only before the first session is created.
SetPoolFeature(c) ==
    /\ c \in Tuners /\ cpc[c] = "app" /\ mutex = None
    /\ ~shut /\ nSessions = 0 /\ ~featureMap
    /\ featureMap' = TRUE
    /\ UNCHANGED <<mutex, listVars, shut, addFeatureMap, sessionVars, cpc, held, jpc, unclosed>>

-----------------------------------------------------------------------------
(* PooledSessionImpl::close(), and putBack().                              *)

\* The client begins a transaction in its session, or ends one.
UseSession(c) ==
    /\ cpc[c] = "app" /\ held[c] # None /\ connected[held[c]]
    /\ transaction' = [transaction EXCEPT ![held[c]] = ~@]
    /\ UNCHANGED <<poolVars, connected, feature, expired, cpc, held, jpc, unclosed>>

\* Mutant: the session is kept.
ClosedForFailureNot(c) == connected

\* "Something's wrong with the session. Get rid of it."
ClosedForFailure(c) == [connected EXCEPT ![held[c]] = FALSE]

\* There is no transaction to roll back, it is rolled back, or rollback() fails
\* and the session is closed as it is.  (When that close(), or isTransaction(),
\* throws, the client still has its session: nothing changes.)
CloseSession(c) ==
    /\ cpc[c] = "app" /\ held[c] # None
    /\ \/ /\ ~transaction[held[c]]
          /\ UNCHANGED <<transaction, connected>>
       \/ /\ transaction[held[c]]
          /\ transaction' = [transaction EXCEPT ![held[c]] = FALSE]
          /\ UNCHANGED connected
       \/ /\ transaction[held[c]]
          /\ connected' = ClosedForFailure(c)
          /\ UNCHANGED transaction
    /\ Goto(c, "putBack")
    /\ UNCHANGED <<poolVars, feature, expired, held, jpc, unclosed>>

\* The saved value is looked up under the SessionImpl; applySettings() puts
\* back a feature that has a pool default.
Restored(s) == featureMap \/ feature[s] \/ <<"SessionImpl", s>> \in addFeatureMap

\* A connected session becomes idle, another is forgotten; after shutdown()
\* putBack() does nothing, and the client drops the last reference.
PutBack(c) ==
    /\ cpc[c] = "putBack" /\ mutex = None
    /\ LET s == held[c] IN
       \/ /\ ~shut /\ connected[s]
          /\ feature' = [feature EXCEPT ![s] = Restored(s)]
          /\ idleSessions' = idleSessions \cup {s}
          /\ activeSessions' = activeSessions \ {s}
          /\ UNCHANGED <<nSessions, connected>>
       \/ /\ ~shut /\ ~connected[s]
          /\ activeSessions' = activeSessions \ {s}
          /\ nSessions' = nSessions - 1
          /\ UNCHANGED <<feature, idleSessions, connected>>
       \/ /\ shut
          /\ connected' = Disconnected({s})
          /\ UNCHANGED <<feature, listVars>>
    /\ held' = [held EXCEPT ![c] = None]
    /\ Goto(c, "app")
    /\ UNCHANGED <<mutex, shut, featureMap, addFeatureMap, transaction, expired, jpc, unclosed>>

-----------------------------------------------------------------------------
(* The janitor's timer and shutdown().                                     *)

\* The timer's thread calls onJanitorTimer(), which has to lock the mutex.
Fire ==
    /\ jpc = "sleep"
    /\ jpc' = "callback"
    /\ UNCHANGED <<poolVars, sessionVars, cpc, held, unclosed>>

\* The loop runs while (_nSessions > _minSessions).
Surplus == nSessions - MinSessions

\* Idle sessions that have expired or are dead are closed, as many as there
\* are over the minimum.  When close() throws, the session is erased all the
\* same, and with the list's reference it is destroyed.  (A callback that finds
\* _shutdown set would return, but shutdown() keeps the mutex until the
\* callbacks are over.)
OnJanitorTimer ==
    /\ jpc = "callback" /\ mutex = None /\ ~shut
    /\ LET old == {s \in idleSessions : expired[s] \/ ~connected[s]}
           n   == IF Cardinality(old) <= Surplus THEN Cardinality(old)
                  ELSE IF Surplus > 0 THEN Surplus ELSE 0
       IN \E closed \in SUBSET old :
            /\ Cardinality(closed) = n
            /\ idleSessions' = idleSessions \ closed
            /\ nSessions' = nSessions - n
            /\ connected' = Disconnected(closed)
    /\ jpc' = "sleep"
    /\ UNCHANGED <<mutex, activeSessions, shut, featureMap, addFeatureMap, transaction, feature,
                   expired, cpc, held, unclosed>>

\* shutdown() locks the mutex, sets _shutdown and stops the timer; a second
\* call returns at once.
Shutdown(c) ==
    /\ cpc[c] = "shutdown" /\ mutex = None
    /\ IF shut THEN Goto(c, "app") /\ UNCHANGED mutex
       ELSE Goto(c, "stopping") /\ mutex' = c
    /\ shut' = TRUE
    /\ UNCHANGED <<listVars, featureMap, addFeatureMap, sessionVars, held, jpc, unclosed>>

\* The timer's thread sees that it is stopped.
StopTimer ==
    /\ jpc = "sleep" /\ mutex # None
    /\ jpc' = "stopped"
    /\ UNCHANGED <<poolVars, sessionVars, cpc, held, unclosed>>

\* Mutant: only the idle sessions are closed.
ClosedByShutdownIdle == idleSessions

\* closeAll(_idleSessions) and closeAll(_activeSessions)
ClosedByShutdown == idleSessions \cup activeSessions

\* Mutant: the mutex stays locked.
MutexAfterKept == mutex

\* The ScopedLock unlocks.
MutexAfter == None

\* Timer::stop() has returned: all sessions are closed, the ones the clients
\* hold too, and erased from the lists.  What close() throws is swallowed: an
\* idle session is then destroyed, one in use stays as it is with its client.
CloseAll(c) ==
    /\ cpc[c] = "stopping" /\ jpc = "stopped"
    /\ \E failed \in SUBSET (ClosedByShutdown \cap activeSessions) :
         /\ connected' = Disconnected(ClosedByShutdown \ failed)
         /\ unclosed' = failed
    /\ idleSessions' = idleSessions \ ClosedByShutdown
    /\ activeSessions' = activeSessions \ ClosedByShutdown
    /\ nSessions' = nSessions - Cardinality(ClosedByShutdown)
    /\ mutex' = MutexAfter
    /\ Goto(c, "app")
    /\ UNCHANGED <<shut, featureMap, addFeatureMap, transaction, feature, expired, held, jpc>>

-----------------------------------------------------------------------------
\* The database drops a connection.
Disconnect(s) ==
    /\ connected[s]
    /\ connected' = [connected EXCEPT ![s] = FALSE]
    /\ UNCHANGED <<poolVars, transaction, feature, expired, cpc, held, jpc, unclosed>>

\* The session has been idle for more than _idleTime.
Expire(s) ==
    /\ s \in idleSessions /\ ~expired[s]
    /\ expired' = [expired EXCEPT ![s] = TRUE]
    /\ UNCHANGED <<poolVars, connected, transaction, feature, cpc, held, jpc, unclosed>>

PoolStep(c) ==
    \/ \E s \in Sessions : Recycle(c, s) \/ CreateSession(c, s)
    \/ CreateFails(c) \/ Exhausted(c) \/ GetShut(c) \/ SetSessionFeature(c)
    \/ PutBack(c) \/ Shutdown(c) \/ CloseAll(c)

Janitor == OnJanitorTimer \/ StopTimer

SPNext ==
    \/ \E c \in Clients :
         \/ \E o \in {"get", "getFeature", "shutdown"} : Call(c, o)
         \/ SetPoolFeature(c) \/ UseSession(c) \/ CloseSession(c) \/ PoolStep(c)
    \/ Fire \/ Janitor
    \/ \E s \in Sessions : Disconnect(s) \/ Expire(s)

SPSpec == SPInit /\ [][SPNext]_spVars

\* Threads inside the pool's code are scheduled.
SPFairSpec == SPSpec /\ WF_spVars(Janitor) /\ \A c \in Clients : WF_spVars(PoolStep(c))

-----------------------------------------------------------------------------
(* Properties.                                                             *)

\* _nSessions counts the sessions of both lists, which share none; a session
\* in use belongs to exactly one client; a pool that is shut down has none.
SessionsAccounted ==
    /\ SPTypeOK
    /\ nSessions = Cardinality(idleSessions) + Cardinality(activeSessions)
    /\ idleSessions \cap activeSessions = {}
    /\ ~shut => activeSessions = {s \in Sessions : \E c \in Clients : held[c] = s}
    /\ \A c, d \in Clients : held[c] = held[d] /\ c # d => held[c] = None
    /\ shut /\ mutex = None => nSessions = 0

\* An idle session never carries over an open transaction to its next client,
\* nor, for a feature that has a pool default, what its last client asked for.
IdleSessionsClean ==
    \A s \in idleSessions :
        /\ connected[s] => ~transaction[s]
        /\ featureMap => feature[s]

\* When shutdown() has returned, the only connections left open are those of
\* sessions a client still has and whose close() threw: no session is left out,
\* none is opened or put back later, and each ends with its client.
ShutdownCloses ==
    shut /\ mutex = None =>
        \A s \in Sessions : connected[s] => s \in unclosed /\ \E c \in Clients : held[c] = s

\* shutdown() holds the mutex and waits for the timer's callback, which waits
\* for the mutex: neither ever ends.
JanitorDeadlock == mutex # None /\ jpc = "callback"

\* Every call returns, unless shutdown() meets the janitor's callback.
CallsReturn ==
    \A c \in Clients : cpc[c] # "app" ~> (cpc[c] = "app" \/ JanitorDeadlock)
=============================================================================
