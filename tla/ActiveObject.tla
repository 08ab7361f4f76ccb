---------------------------- MODULE ActiveObject ----------------------------
(***************************************************************************)
(* An active object: a class derived from Poco::ActiveDispatcher           *)
(* (src/Foundation/src/ActiveDispatcher.cpp) with ActiveMethod members and *)
(* a Poco::Activity (src/Foundation/include/Poco/Activity.h).              *)
(*                                                                         *)
(* A call of an ActiveMethod puts an ActiveRunnable into the dispatcher's  *)
(* NotificationQueue, whose steps are the queue's own actions; the         *)
(* dispatcher's thread is its only consumer.  An Activity runs a method in *)
(* a thread of the pool.  The object's destructor ends first the Activity, *)
(* a member, then the dispatcher, its base class.  _running and _stopped   *)
(* are read and, in run(), written without the mutex.                      *)
(***************************************************************************)
EXTENDS NotificationQueue

CONSTANTS
    Stop,     \* the dispatcher's StopNotification
    Workers   \* threads of the pool

Methods == Notifications \ {Stop}    \* ActiveRunnable objects
Thread  == CHOOSE c \in Consumers : TRUE

ASSUME ActiveAssumption ==
    /\ Consumers = {Thread} /\ ConsumerOps[Thread] = {"wait"}
    /\ Stop \in Notifications

VARIABLES
    \* --- ActiveDispatcher and ActiveResult
    dpc,      \* where the dispatcher's thread is in run()
    method,   \* the ActiveRunnable it runs
    result,   \* the methods whose ActiveResultHolder's _event is set
    mpc,      \* where the caller of the method is
    dropped,  \* history: called methods that cancel() or stop() cleared
    \* --- Activity
    stopped,  \* _stopped
    running,  \* _running
    done,     \* _done, a manual-reset event
    wpc,      \* where the pool's thread is in Activity::run()
    late,     \* history: started while an earlier run had yet to set _done
    \* --- the thread that owns the object
    opc

dispatcherVars == <<dpc, method, result, mpc, dropped>>
activityVars   == <<stopped, running, done, wpc, late>>
aoVars         == <<queueVars, dispatcherVars, activityVars, opc>>

\* Type invariant; run() never calls through a null pointer.
AOTypeOK ==
    /\ QueueTypeOK
    /\ dpc \in {"fetch", "run", "ended"}
    /\ method \in IF dpc = "run" THEN Methods ELSE {None}
    /\ result \subseteq Methods /\ dropped \subseteq Methods
    /\ mpc \in [Methods -> {"rest", "called", "waiting"}]
    /\ stopped \in BOOLEAN /\ running \in BOOLEAN /\ done \in BOOLEAN /\ late \in BOOLEAN
    /\ wpc \in [Workers -> {"free", "run", "returned", "signal"}]
    /\ opc \in {"app", "wait", "dtor", "dtorWait", "clear", "wakeUp", "enqueue", "join", "gone"}

AOInit ==
    /\ Init
    /\ dpc = "fetch" /\ method = None
    /\ result = {} /\ dropped = {}
    /\ mpc = [m \in Methods |-> "rest"]
    /\ stopped = TRUE /\ running = FALSE /\ done = FALSE /\ late = FALSE
    /\ wpc = [w \in Workers |-> "free"]
    /\ opc = "app"

-----------------------------------------------------------------------------
(* ActiveMethod, ActiveResult and the dispatcher.                          *)

Alive == opc \in {"app", "wait"}

\* operator(): a new result, and ActiveDispatcher::start().
CallMethod(m) ==
    /\ Alive /\ mpc[m] = "rest" /\ method # m
    /\ EnqueueNotification(m)
    /\ result' = result \ {m}
    /\ dropped' = dropped \ {m}
    /\ mpc' = [mpc EXCEPT ![m] = "called"]
    /\ UNCHANGED <<dpc, method, activityVars, opc>>

\* ActiveResult::wait()
Wait(m) ==
    /\ mpc[m] = "called"
    /\ mpc' = [mpc EXCEPT ![m] = "waiting"]
    /\ UNCHANGED <<queueVars, dpc, method, result, dropped, activityVars, opc>>

WaitReturns(m) ==
    /\ mpc[m] = "waiting" /\ m \in result
    /\ mpc' = [mpc EXCEPT ![m] = "rest"]
    /\ UNCHANGED <<queueVars, dpc, method, result, dropped, activityVars, opc>>

\* clear() of the queue, which may be empty.
ClearQueue ==
    /\ Clear \/ (nfQueue = <<>> /\ UNCHANGED queueVars)
    /\ dropped' = dropped \cup (Range(nfQueue) \cap Methods)

Cancel ==
    /\ Alive /\ nfQueue # <<>>
    /\ ClearQueue
    /\ UNCHANGED <<dpc, method, result, mpc, activityVars, opc>>

\* The loop ends with a null pointer or the StopNotification.
IsMethod(n) == n \notin {None, Stop}

Proceed(n) ==
    /\ dpc' = IF IsMethod(n) THEN "run" ELSE "ended"
    /\ method' = IF IsMethod(n) THEN n ELSE None
    /\ UNCHANGED <<result, mpc, dropped, activityVars, opc>>

\* waitDequeueNotification() returns a queued notification, waits, or returns
\* what it was handed.
Fetch == dpc = "fetch" /\ TakeFirst(Thread) /\ Proceed(Head(nfQueue))
FetchHanded == dpc = "fetch" /\ Woken(Thread) /\ Proceed(pNf[Thread])
FetchWaits ==
    /\ dpc = "fetch" /\ BeginWait(Thread)
    /\ UNCHANGED <<dispatcherVars, activityVars, opc>>

\* Mutant: a method that throws does not notify.
NotifiedSometimes == {result, result \cup {method}}

\* ActiveRunnable::run() notifies whether the method returned or threw.
Notified == {result \cup {method}}

RunMethod ==
    /\ dpc = "run"
    /\ result' \in Notified
    /\ dpc' = "fetch" /\ method' = None
    /\ UNCHANGED <<queueVars, mpc, dropped, activityVars, opc>>

-----------------------------------------------------------------------------
(* Activity.                                                               *)

\* Mutant: start() does not look at _running.
MayStartAlways == TRUE

\* start() does nothing while the activity runs.
MayStart == ~running

\* A thread of the pool takes the activity, or the pool refuses it.
StartActivity ==
    /\ opc = "app" /\ MayStart
    /\ done' = FALSE /\ stopped' = FALSE
    /\ \/ /\ \E w \in Workers : wpc[w] = "free" /\ wpc' = [wpc EXCEPT ![w] = "run"]
          /\ running' = TRUE
          /\ late' = (late \/ \E w \in Workers : wpc[w] = "signal")
       \/ /\ running' = FALSE
          /\ UNCHANGED <<wpc, late>>
    /\ UNCHANGED <<queueVars, dispatcherVars, opc>>

StopActivity ==
    /\ opc = "app" /\ ~stopped
    /\ stopped' = TRUE
    /\ UNCHANGED <<queueVars, dispatcherVars, running, done, wpc, late, opc>>

\* wait() looks at _running, then waits for _done.
WaitActivity ==
    /\ opc = "app" /\ running
    /\ opc' = "wait"
    /\ UNCHANGED <<queueVars, dispatcherVars, activityVars>>

WaitActivityReturns ==
    /\ opc = "wait" /\ done
    /\ opc' = "app"
    /\ UNCHANGED <<queueVars, dispatcherVars, activityVars>>

WGoto(w, from, to) == wpc[w] = from /\ wpc' = [wpc EXCEPT ![w] = to]

\* The method returns, of its own accord or because isStopped().
ActivityReturns(w) ==
    /\ WGoto(w, "run", "returned")
    /\ UNCHANGED <<queueVars, dispatcherVars, stopped, running, done, late, opc>>

\* _running = false ...
NotRunning(w) ==
    /\ WGoto(w, "returned", "signal")
    /\ running' = FALSE
    /\ UNCHANGED <<queueVars, dispatcherVars, stopped, done, late, opc>>

\* ... and then _done.set()
SignalDone(w) ==
    /\ WGoto(w, "signal", "free")
    /\ done' = TRUE
    /\ UNCHANGED <<queueVars, dispatcherVars, stopped, running, late, opc>>

-----------------------------------------------------------------------------
(* The destructor.                                                         *)

\* ~Activity: stop() ...
Destroy ==
    /\ opc = "app"
    /\ opc' = "dtor"
    /\ stopped' = TRUE
    /\ UNCHANGED <<queueVars, dispatcherVars, running, done, wpc, late>>

\* Mutant: an activity that is asked to stop is not waited for.
MustWaitUnlessStopped == running /\ ~stopped

MustWait == running

\* ... and wait().
DestroyWaits ==
    /\ \/ opc = "dtor" /\ MustWait /\ opc' = "dtorWait"
       \/ opc = "dtor" /\ ~MustWait /\ opc' = "clear"
       \/ opc = "dtorWait" /\ done /\ opc' = "clear"
    /\ UNCHANGED <<queueVars, dispatcherVars, activityVars>>

\* ActiveDispatcher::stop(): clear(), wakeUpAll(), enqueue the StopNotification
\* and join the thread.
DestroyClears ==
    /\ opc = "clear" /\ ClearQueue
    /\ opc' = "wakeUp"
    /\ UNCHANGED <<dpc, method, result, mpc, activityVars>>

DestroyWakes ==
    /\ opc = "wakeUp"
    /\ WakeUpAll \/ (waitQueue = <<>> /\ UNCHANGED queueVars)
    /\ opc' = "enqueue"
    /\ UNCHANGED <<dispatcherVars, activityVars>>

DestroyEnqueues ==
    /\ opc = "enqueue" /\ EnqueueNotification(Stop)
    /\ opc' = "join"
    /\ UNCHANGED <<dispatcherVars, activityVars>>

DestroyJoins ==
    /\ opc = "join" /\ dpc = "ended"
    /\ opc' = "gone"
    /\ UNCHANGED <<queueVars, dispatcherVars, activityVars>>

Destructor ==
    \/ DestroyWaits \/ DestroyClears \/ DestroyWakes \/ DestroyEnqueues \/ DestroyJoins

Dispatcher == Fetch \/ FetchHanded \/ FetchWaits \/ RunMethod

AONext ==
    \/ \E m \in Methods : CallMethod(m) \/ Wait(m) \/ WaitReturns(m)
    \/ Cancel \/ Dispatcher
    \/ StartActivity \/ StopActivity \/ WaitActivity \/ WaitActivityReturns
    \/ \E w \in Workers : ActivityReturns(w) \/ NotRunning(w) \/ SignalDone(w)
    \/ Destroy \/ Destructor

AOSpec == AOInit /\ [][AONext]_aoVars

\* Threads inside POCO's code are scheduled, active methods return, and the
\* activity's method returns once it is asked to stop.
AOFairSpec ==
    /\ AOSpec
    /\ WF_aoVars(Dispatcher) /\ WF_aoVars(Destructor)
    /\ \A m \in Methods : WF_aoVars(WaitReturns(m))
    /\ \A w \in Workers :
         WF_aoVars((stopped /\ ActivityReturns(w)) \/ NotRunning(w) \/ SignalDone(w))

-----------------------------------------------------------------------------
(* Properties.                                                             *)

\* The activity's method never runs in two threads, however start(), a
\* finishing run() and the pool's refusals interleave.
OneActivity ==
    LET busy == {w \in Workers : wpc[w] \in {"run", "returned"}}
    IN  AOTypeOK /\ (running <=> busy # {}) /\ \A v, w \in busy : v = w

\* "Activities are stopped before the object they belong to is destroyed":
\* the method has returned when the destructor is past the Activity, unless
\* the activity was restarted before its previous run had set _done.
StoppedBeforeDestroyed ==
    ~late /\ opc \in {"clear", "wakeUp", "enqueue", "join", "gone"} =>
        \A w \in Workers : wpc[w] \notin {"run", "returned"}

\* ActiveResult::wait() returns, whether the method returned or threw, unless
\* it was cleared before it ran.
ResultArrives ==
    \A m \in Methods : mpc[m] = "waiting" ~> (mpc[m] # "waiting" \/ m \in dropped)

\* The destructor ends the activity and the dispatcher's thread, wherever they
\* are when it begins.
DestructorEnds == opc = "dtor" ~> opc = "gone"
=============================================================================
