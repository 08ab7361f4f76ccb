----------------------------- MODULE TCPServer ------------------------------
(***************************************************************************)
(* Poco::Net::TCPServer and TCPServerDispatcher on top of the              *)
(* NotificationQueue (src/Net/src/TCPServer.cpp,                           *)
(* src/Net/src/TCPServerDispatcher.cpp).                                   *)
(*                                                                         *)
(* The accept thread puts every connection into the dispatcher's _queue    *)
(* and, when nobody waits there, starts the dispatcher on one more pooled  *)
(* thread.  The pooled threads are the queue's consumers.  One application *)
(* thread starts, stops and destroys the server.  enqueue() holds the      *)
(* dispatcher's _mutex over several steps; everybody else's sections are   *)
(* one step, possible while the accept thread does not hold the mutex.     *)
(***************************************************************************)
EXTENDS NotificationQueue, Naturals, FiniteSetsExt

CONSTANTS
    MaxThreads,     \* TCPServerParams::getMaxThreads()
    MaxQueued,      \* TCPServerParams::getMaxQueued()
    PoolMayRefuse,  \* other users of the pool may take all its threads
    FactoryFails,   \* createConnection() may throw or return null
    AppCalls        \* which of "stop", "destroy" the application calls

ASSUME ServerAssumption ==
    /\ MaxThreads \in Nat \ {0}
    /\ MaxQueued \in Nat \ {0}
    /\ PoolMayRefuse \in BOOLEAN
    /\ FactoryFails \in BOOLEAN
    /\ AppCalls \subseteq {"stop", "destroy"}
    /\ \A w \in Consumers : ConsumerOps[w] = {"timedWait"}
    /\ {"clear", "wakeUpAll"} \subseteq Controls

Workers     == Consumers
Connections == Notifications

VARIABLES
    \* --- members of the TCPServer object
    serverStopped,             \* _stopped
    \* --- members of the TCPServerDispatcher object
    stopped,                   \* _stopped
    currentThreads,            \* _currentThreads
    totalConnections,          \* _totalConnections
    currentConnections,        \* _currentConnections
    maxConcurrentConnections,  \* _maxConcurrentConnections
    refusedConnections,        \* _refusedConnections
    rc,                        \* _rc
    deleted,                   \* the object is gone
    \* --- control
    apc,    \* where the accept thread is
    arg,    \* the connection it has accepted
    spc,    \* where the application thread is
    wpc,    \* where the pooled thread is in the dispatcher's run()
    conn,   \* the connection it has fetched
    \* --- history
    fate    \* what has become of each connection

statVars == <<totalConnections, currentConnections, maxConcurrentConnections,
              refusedConnections>>
dispVars == <<stopped, currentThreads, statVars, rc, deleted>>
pcVars   == <<apc, arg, spc, wpc, conn>>
srvVars  == <<queueVars, serverStopped, dispVars, pcVars, fate>>

AcceptPC == {"none", "head", "poll", "enqueue", "put", "look", "start", "done"}
AppPC    == {"new", "running", "join", "stop", "clear", "wake", "stopped", "destroyed"}
RunPC    == {"off", "starting", "loop", "got", "begin", "serving", "end", "check", "leaving"}

\* Type invariant of the server's own state.
ServerTypeOK ==
    /\ QueueTypeOK
    /\ serverStopped \in BOOLEAN /\ stopped \in BOOLEAN /\ deleted \in BOOLEAN
    /\ currentThreads \in 0..MaxThreads
    /\ totalConnections \in Nat /\ refusedConnections \in Nat
    /\ currentConnections \in Nat /\ maxConcurrentConnections \in Nat
    /\ rc \in Nat
    /\ apc \in AcceptPC /\ spc \in AppPC /\ wpc \in [Workers -> RunPC]
    /\ arg \in Connections \cup {None}
    /\ conn \in [Workers -> Connections \cup {None}]
    /\ fate \in [Connections -> {"new", "refused", "in", "served", "failed", "dropped"}]

ServerInit ==
    /\ Init
    /\ serverStopped = TRUE
    /\ stopped = FALSE
    /\ currentThreads = 0
    /\ totalConnections = 0 /\ currentConnections = 0
    /\ maxConcurrentConnections = 0 /\ refusedConnections = 0
    /\ rc = 1 /\ deleted = FALSE
    /\ apc = "none" /\ arg = None
    /\ spc = "new"
    /\ wpc = [w \in Workers |-> "off"]
    /\ conn = [w \in Workers |-> None]
    /\ fate = [n \in Connections |-> "new"]

\* Nobody holds the dispatcher's _mutex.
MutexFree == apc \notin {"put", "look", "start"}

-----------------------------------------------------------------------------
(* The accept thread: TCPServer::run() and TCPServerDispatcher::enqueue(). *)

\* The loop's condition.
AcceptHead ==
    /\ apc = "head"
    /\ apc' = IF serverStopped THEN "done" ELSE "poll"
    /\ UNCHANGED <<queueVars, serverStopped, dispVars, arg, spc, wpc, conn, fate>>

\* poll() times out, or acceptConnection() throws and the error is handled.
AcceptNothing ==
    /\ apc = "poll"
    /\ apc' = "head"
    /\ UNCHANGED <<queueVars, serverStopped, dispVars, arg, spc, wpc, conn, fate>>

AcceptConnection(n) ==
    /\ apc = "poll"
    /\ fate[n] = "new"
    /\ apc' = "enqueue" /\ arg' = n
    /\ UNCHANGED <<queueVars, serverStopped, dispVars, spc, wpc, conn, fate>>

\* The queue is full: the connection is counted and closed.
EnqueueRefused ==
    /\ apc = "enqueue"
    /\ Len(nfQueue) >= MaxQueued
    /\ refusedConnections' = refusedConnections + 1
    /\ fate' = [fate EXCEPT ![arg] = "refused"]
    /\ apc' = "head" /\ arg' = None
    /\ UNCHANGED <<queueVars, serverStopped, stopped, currentThreads, totalConnections,
                   currentConnections, maxConcurrentConnections, rc, deleted, spc, wpc, conn>>

\* There is room: from here on enqueue() holds _mutex.
EnqueueRoom ==
    /\ apc = "enqueue"
    /\ Len(nfQueue) < MaxQueued
    /\ apc' = "put"
    /\ UNCHANGED <<queueVars, serverStopped, dispVars, arg, spc, wpc, conn, fate>>

EnqueuePut ==
    /\ apc = "put"
    /\ EnqueueNotification(arg)
    /\ fate' = [fate EXCEPT ![arg] = "in"]
    /\ apc' = "look" /\ arg' = None
    /\ UNCHANGED <<serverStopped, dispVars, spc, wpc, conn>>

\* hasIdleThreads() and the number of threads decide.
EnqueueLook ==
    /\ apc = "look"
    /\ apc' = IF waitQueue = <<>> /\ currentThreads < MaxThreads THEN "start" ELSE "head"
    /\ UNCHANGED <<queueVars, serverStopped, dispVars, arg, spc, wpc, conn, fate>>

\* Mutant: the thread is not counted.
NotCounted == currentThreads
OneThreadMore == currentThreads + 1

\* The pool takes the dispatcher: a pooled thread is going to call run().
EnqueueStart(w) ==
    /\ apc = "start"
    /\ wpc[w] = "off"
    /\ wpc' = [wpc EXCEPT ![w] = "starting"]
    /\ currentThreads' = OneThreadMore
    /\ apc' = "head"
    /\ UNCHANGED <<queueVars, serverStopped, stopped, statVars, rc, deleted,
                   arg, spc, conn, fate>>

\* startWithPriority() throws; the exception is swallowed.
EnqueueNoThread ==
    /\ apc = "start"
    /\ PoolMayRefuse \/ \A w \in Workers : wpc[w] # "off"
    /\ apc' = "head"
    /\ UNCHANGED <<queueVars, serverStopped, dispVars, arg, spc, wpc, conn, fate>>

-----------------------------------------------------------------------------
(* A pooled thread: TCPServerDispatcher::run().                            *)

WGoto(w, label) == wpc' = [wpc EXCEPT ![w] = label]

\* duplicate().  Mutant: it counts nothing.
DuplicatedNot == rc
Duplicated == rc + 1

\* The guard's duplicate().  What the thread does when the object is gone by
\* then is undefined and not followed further.
EnterRun(w) ==
    /\ wpc[w] = "starting"
    /\ MutexFree /\ ~deleted
    /\ rc' = Duplicated
    /\ WGoto(w, "loop")
    /\ UNCHANGED <<queueVars, serverStopped, stopped, currentThreads, statVars, deleted,
                   apc, arg, spc, conn, fate>>

\* waitDequeueNotification(idleTime) returns what the queue's step returns:
\* the first in the queue, or what was handed to the waiting thread (None
\* after a time-out or wakeUpAll()).
Fetched(w, n) ==
    /\ conn' = [conn EXCEPT ![w] = n]
    /\ WGoto(w, "got")

Fetch(w) ==
    /\ wpc[w] = "loop"
    /\ \/ TakeFirst(w) /\ Fetched(w, Head(nfQueue))
       \/ Woken(w) /\ Fetched(w, pNf[w])
       \/ AfterTimeOut(w) /\ Fetched(w, pNf[w])
       \/ (BeginWait(w) \/ TimeOut(w)) /\ UNCHANGED <<conn, wpc>>
    /\ UNCHANGED <<serverStopped, dispVars, apc, arg, spc, fate>>

\* Mutant: a thread that finds the server stopped does not serve any more.
HasConnectionUnlessStopped(w) == conn[w] # None /\ ~stopped
HasConnection(w) == conn[w] # None

CreateConnection(w) ==
    /\ wpc[w] = "got"
    /\ WGoto(w, IF HasConnection(w) THEN "begin" ELSE "check")
    /\ UNCHANGED <<queueVars, serverStopped, dispVars, apc, arg, spc, conn, fate>>

\* createConnection() throws, or poco_check_ptr does: the exception ends
\* run(), past the bookkeeping at the end of its loop.
CreateConnectionFails(w) ==
    /\ FactoryFails
    /\ wpc[w] = "got" /\ conn[w] # None
    /\ fate' = [fate EXCEPT ![conn[w]] = "failed"]
    /\ conn' = [conn EXCEPT ![w] = None]
    /\ WGoto(w, "leaving")
    /\ UNCHANGED <<queueVars, serverStopped, dispVars, apc, arg, spc>>

BeginConnection(w) ==
    /\ wpc[w] = "begin"
    /\ MutexFree
    /\ totalConnections' = totalConnections + 1
    /\ currentConnections' = currentConnections + 1
    /\ maxConcurrentConnections' = Max({maxConcurrentConnections, currentConnections + 1})
    /\ WGoto(w, "serving")
    /\ UNCHANGED <<queueVars, serverStopped, stopped, currentThreads, refusedConnections,
                   rc, deleted, apc, arg, spc, conn, fate>>

\* TCPServerConnection::start() returns; it lets no exception through.
Serve(w) ==
    /\ wpc[w] = "serving"
    /\ WGoto(w, "end")
    /\ UNCHANGED <<queueVars, serverStopped, dispVars, apc, arg, spc, conn, fate>>

EndConnection(w) ==
    /\ wpc[w] = "end"
    /\ MutexFree
    /\ currentConnections' = currentConnections - 1
    /\ fate' = [fate EXCEPT ![conn[w]] = "served"]
    /\ conn' = [conn EXCEPT ![w] = None]
    /\ WGoto(w, "check")
    /\ UNCHANGED <<queueVars, serverStopped, stopped, currentThreads, totalConnections,
                   maxConcurrentConnections, refusedConnections, rc, deleted, apc, arg, spc>>

\* The condition at the end of the loop: is this thread no longer needed?
\* Mutants: the last thread leaves too; a thread does not look at _stopped.
SurplusLast == stopped \/ (currentThreads > 0 /\ nfQueue = <<>>)
SurplusUnstopped == currentThreads > 1 /\ nfQueue = <<>>

Surplus == stopped \/ (currentThreads > 1 /\ nfQueue = <<>>)

CheckLeave(w) ==
    /\ wpc[w] = "check"
    /\ MutexFree
    /\ Surplus
    /\ currentThreads' = currentThreads - 1
    /\ WGoto(w, "leaving")
    /\ UNCHANGED <<queueVars, serverStopped, stopped, statVars, rc, deleted,
                   apc, arg, spc, conn, fate>>

CheckStay(w) ==
    /\ wpc[w] = "check"
    /\ MutexFree
    /\ ~Surplus
    /\ WGoto(w, "loop")
    /\ UNCHANGED <<queueVars, serverStopped, dispVars, apc, arg, spc, conn, fate>>

\* TCPServerDispatcher::release().
DropReference ==
    /\ MutexFree
    /\ rc' = rc - 1
    /\ deleted' = (rc = 1)

\* The guard goes out of scope and the thread is back in the pool.
LeaveRun(w) ==
    /\ wpc[w] = "leaving"
    /\ DropReference
    /\ WGoto(w, "off")
    /\ UNCHANGED <<queueVars, serverStopped, stopped, currentThreads, statVars,
                   apc, arg, spc, conn, fate>>

-----------------------------------------------------------------------------
(* The application: TCPServer::start(), stop() and the destructor, and     *)
(* TCPServerDispatcher::stop(), which takes no mutex.                      *)

Start ==
    /\ spc = "new"
    /\ serverStopped' = FALSE
    /\ spc' = "running" /\ apc' = "head"
    /\ UNCHANGED <<queueVars, dispVars, arg, wpc, conn, fate>>

\* _thread.start() throws with _stopped already cleared: there is no accept
\* thread, and a server that has not one can still be stopped.
StartFails ==
    /\ spc = "new"
    /\ serverStopped' = FALSE
    /\ spc' = "running"
    /\ UNCHANGED <<queueVars, dispVars, apc, arg, wpc, conn, fate>>

CallStop ==
    /\ "stop" \in AppCalls
    /\ spc = "running"
    /\ serverStopped' = TRUE
    /\ spc' = "join"
    /\ UNCHANGED <<queueVars, dispVars, apc, arg, wpc, conn, fate>>

\* _thread.join() returns when run() has, or was never called.
JoinAcceptThread ==
    /\ spc = "join"
    /\ apc \in {"none", "done"}
    /\ spc' = "stop"
    /\ UNCHANGED <<queueVars, serverStopped, dispVars, apc, arg, wpc, conn, fate>>

StopFlag ==
    /\ spc = "stop"
    /\ stopped' = TRUE
    /\ spc' = "clear"
    /\ UNCHANGED <<queueVars, serverStopped, currentThreads, statVars, rc, deleted,
                   apc, arg, wpc, conn, fate>>

StopClear ==
    /\ spc = "clear"
    /\ Clear \/ (nfQueue = <<>> /\ UNCHANGED queueVars)
    /\ fate' = [n \in Connections |-> IF n \in Range(nfQueue) THEN "dropped" ELSE fate[n]]
    /\ spc' = "wake"
    /\ UNCHANGED <<serverStopped, dispVars, apc, arg, wpc, conn>>

StopWake ==
    /\ spc = "wake"
    /\ WakeUpAll \/ (waitQueue = <<>> /\ UNCHANGED queueVars)
    /\ spc' = "stopped"
    /\ UNCHANGED <<serverStopped, dispVars, apc, arg, wpc, conn, fate>>

\* The destructor; its stop() does nothing once the server is stopped.
Destroy ==
    /\ "destroy" \in AppCalls
    /\ spc \in {"new", "stopped"}
    /\ DropReference
    /\ spc' = "destroyed"
    /\ UNCHANGED <<queueVars, serverStopped, stopped, currentThreads, statVars,
                   apc, arg, wpc, conn, fate>>

-----------------------------------------------------------------------------
AcceptStep ==
    \/ AcceptHead \/ AcceptNothing
    \/ EnqueueRefused \/ EnqueueRoom \/ EnqueuePut \/ EnqueueLook
    \/ EnqueueNoThread \/ \E w \in Workers : EnqueueStart(w)

WorkerStep(w) ==
    \/ EnterRun(w) \/ Fetch(w)
    \/ CreateConnection(w) \/ CreateConnectionFails(w)
    \/ BeginConnection(w) \/ Serve(w) \/ EndConnection(w)
    \/ CheckLeave(w) \/ CheckStay(w) \/ LeaveRun(w)

StopStep == JoinAcceptThread \/ StopFlag \/ StopClear \/ StopWake

ServerNext ==
    \/ AcceptStep \/ \E n \in Connections : AcceptConnection(n)
    \/ \E w \in Workers : WorkerStep(w)
    \/ Start \/ StartFails \/ CallStop \/ StopStep \/ Destroy

ServerSpec == ServerInit /\ [][ServerNext]_srvVars

\* Every thread goes on running, a wait with a time-out ends, and the
\* connections' start() returns.  No connection has to arrive, and the
\* application need not stop the server.
ServerFairSpec ==
    /\ ServerSpec
    /\ WF_srvVars(AcceptStep)
    /\ \A w \in Workers : WF_srvVars(WorkerStep(w))
    /\ WF_srvVars(StopStep)

-----------------------------------------------------------------------------
(* Properties.                                                             *)

\* The threads counted in _currentThreads: from the pool's acceptance to the
\* end of the loop.
Used == {w \in Workers : wpc[w] \notin {"off", "leaving"}}

\* Connections whose createConnection() failed.
Failed == {n \in Connections : fate[n] = "failed"}

\* The server never uses more than MaxThreads connection threads: whatever
\* starts and ends at the same time, none is in use that _currentThreads does
\* not count.  It counts nothing else as long as the factory has not failed.
ThreadLimitKept ==
    MutexFree => /\ Cardinality(Used) <= currentThreads
                 /\ currentThreads <= MaxThreads
                 /\ Failed = {} => currentThreads = Cardinality(Used)

\* "Returns the number of currently used connection threads."
ThreadCountExact == MutexFree => currentThreads = Cardinality(Used)

\* Every connection the server took is in exactly one place - the queue, one
\* thread's hands, or done with - and the statistics say so; no more were
\* ever served at once than there may be threads.  stop() waits for the accept
\* thread before it clears the queue: nothing is queued afterwards.
ConnectionsAccounted ==
    LET busy    == {w \in Workers : wpc[w] \in {"serving", "end"}}
        inHand  == {w \in Workers : wpc[w] \in {"got", "begin"} /\ conn[w] # None} \cup busy
        With(f) == {n \in Connections : fate[n] \in f} IN
    /\ ServerTypeOK
    /\ With({"in"}) = accepted \cup {conn[w] : w \in inHand}
    /\ \A w \in inHand : conn[w] \notin accepted
    /\ \A v, w \in inHand : conn[v] = conn[w] => v = w
    /\ refusedConnections = Cardinality(With({"refused"}))
    /\ currentConnections = Cardinality(busy)
    /\ totalConnections = Cardinality(With({"served"})) + currentConnections
    /\ maxConcurrentConnections \in currentConnections .. MaxThreads
    /\ spc \in {"wake", "stopped", "destroyed"} => nfQueue = <<>>

\* A thread inside run() holds a reference: nobody deletes the dispatcher
\* under it.
GuardHolds == deleted => \A w \in Workers : wpc[w] \in {"off", "starting"}

\* A queued connection is fetched, or discarded by stop(), if there is a
\* connection thread at all, even when the pool refuses more of them: once
\* one, there always is one until the server is stopped.  Only a failing
\* factory can end it.
FetchedByAThread ==
    /\ [][(Used # {} /\ ~stopped) => (Used' # {} \/ Failed' # {})]_srvVars
    /\ \A n \in Connections : (n \in accepted /\ Used # {}) ~> (n \notin accepted \/ Failed # {})

\* After stop() every connection thread returns to the pool, the ones included
\* that wakeUpAll() did not reach.
StopEndsThreads == spc = "stopped" ~> (deleted \/ \A w \in Workers : wpc[w] = "off")
=============================================================================
