------------------------- MODULE ActiveObjectProofs -------------------------
(***************************************************************************)
(* Theorems about ActiveObject, for any number of active methods and any   *)
(* pool.  Its steps are steps of the dispatcher's NotificationQueue.       *)
(***************************************************************************)
EXTENDS ActiveObject, NotificationQueueProofs

\* Without a restart that overtakes the end of the previous run, at most one
\* thread is between the start of a run and its _done.set(), and _done is not
\* set before it gets there.
RunInv ==
    ~late => \A v, w \in Workers :
        wpc[v] # "free" /\ wpc[w] # "free" => v = w /\ ~done

AOInv == QueueInv /\ OneActivity /\ RunInv /\ StoppedBeforeDestroyed

-----------------------------------------------------------------------------
\* A new object satisfies the invariant.
LEMMA AOInvInit == AOInit => AOInv
<1> SUFFICES ASSUME AOInit PROVE AOInv
  OBVIOUS
<1> USE DEF AOInit
<1>1. QueueInv
  BY QueueInit
<1>2. stopped \in BOOLEAN /\ running \in BOOLEAN /\ done \in BOOLEAN /\ late \in BOOLEAN
  BY Zenon
<1>3. AOTypeOK
  BY <1>1, <1>2 DEF AOTypeOK, QueueInv, NothingLost
<1>4. OneActivity
  BY <1>3 DEF OneActivity
<1> QED BY <1>1, <1>4 DEF AOInv, RunInv, StoppedBeforeDestroyed

\* Whatever the object does to the dispatcher's queue is a step of the queue.
LEMMA DispatcherQueue == [AONext]_aoVars => [Next]_queueVars
<1> SUFFICES ASSUME AONext, ~UNCHANGED queueVars PROVE Next
  BY DEF aoVars
<1>1. ASSUME NEW m \in Methods, CallMethod(m) PROVE Next
  BY <1>1 DEF CallMethod, Methods, Next
<1>2. CASE Dispatcher
  BY <1>2, ActiveAssumption DEF Dispatcher, Fetch, FetchHanded, FetchWaits, RunMethod, Next, Consume
<1>3. CASE Cancel \/ DestroyClears \/ DestroyWakes
  BY <1>3 DEF Cancel, DestroyClears, ClearQueue, DestroyWakes, Next
<1>4. CASE DestroyEnqueues
  BY <1>4, ActiveAssumption DEF DestroyEnqueues, Next
<1> QED
  BY <1>1, <1>2, <1>3, <1>4 DEF AONext, Wait, WaitReturns, StartActivity, StopActivity, WaitActivity,
     WaitActivityReturns, ActivityReturns, NotRunning, SignalDone, Destroy, Destructor, DestroyWaits, DestroyJoins

\* Every variable keeps its type; the dispatcher's thread runs only methods.
LEMMA AOTypeStep == AOInv /\ AONext => AOTypeOK'
<1> SUFFICES ASSUME AOInv, AONext PROVE AOTypeOK'
  OBVIOUS
<1> USE ActiveAssumption DEF AOInv, OneActivity, AOTypeOK
<1>1. QueueTypeOK'
  BY DispatcherQueue, QueueStep DEF QueueInv, NothingLost
<1>2. stopped' \in BOOLEAN /\ running' \in BOOLEAN /\ done' \in BOOLEAN /\ late' \in BOOLEAN
  <2>1. CASE StartActivity
    BY <2>1, Zenon DEF StartActivity
  <2>2. CASE StopActivity \/ Destroy
    BY <2>2, Zenon DEF StopActivity, Destroy
  <2>3. ASSUME NEW w \in Workers, NotRunning(w) \/ SignalDone(w)
        PROVE  stopped' \in BOOLEAN /\ running' \in BOOLEAN /\ done' \in BOOLEAN /\ late' \in BOOLEAN
    BY <2>3, Zenon DEF NotRunning, SignalDone
  <2>4. CASE UNCHANGED <<stopped, running, done, late>>
    BY <2>4
  <2> QED
    BY <2>1, <2>2, <2>3, <2>4 DEF AONext, CallMethod, Wait, WaitReturns, Cancel, Dispatcher, Fetch, FetchHanded,
       FetchWaits, Proceed, RunMethod, WaitActivity, WaitActivityReturns, ActivityReturns, Destructor, DestroyWaits,
       DestroyClears, DestroyWakes, DestroyEnqueues, DestroyJoins, activityVars
<1>3. /\ dpc' \in {"fetch", "run", "ended"}
      /\ method' \in IF dpc' = "run" THEN Methods ELSE {None}
  <2>1. ASSUME NEW n \in Notifications \cup {None}, Proceed(n)
        PROVE  dpc' \in {"fetch", "run", "ended"} /\ method' \in IF dpc' = "run" THEN Methods ELSE {None}
    BY <2>1 DEF Proceed, IsMethod, Methods
  <2>2. nfQueue # <<>> => Head(nfQueue) \in Notifications
    BY EmptySeq, HeadTailProperties DEF QueueTypeOK
  <2>3. pNf[Thread] \in Notifications \cup {None}
    BY DEF QueueTypeOK
  <2>4. CASE Fetch \/ FetchHanded
    BY <2>1, <2>2, <2>3, <2>4 DEF Fetch, FetchHanded, TakeFirst
  <2>5. CASE RunMethod
    BY <2>5 DEF RunMethod
  <2>6. CASE UNCHANGED <<dpc, method>>
    BY <2>6
  <2> QED
    BY <2>4, <2>5, <2>6 DEF AONext, CallMethod, Wait, WaitReturns, Cancel, Dispatcher,
       FetchWaits, StartActivity, StopActivity, WaitActivity, WaitActivityReturns, ActivityReturns, NotRunning, SignalDone,
       Destroy, Destructor, DestroyWaits, DestroyClears, DestroyWakes, DestroyEnqueues, DestroyJoins, dispatcherVars
<1>4. result' \subseteq Methods /\ dropped' \subseteq Methods /\ mpc' \in [Methods -> {"rest", "called", "waiting"}]
  BY DEF AONext, CallMethod, Wait, WaitReturns, Cancel, ClearQueue, Dispatcher, Fetch, FetchHanded, FetchWaits, Proceed,
     RunMethod, Notified, StartActivity, StopActivity, WaitActivity, WaitActivityReturns, ActivityReturns, NotRunning,
     SignalDone, Destroy, Destructor, DestroyWaits, DestroyClears, DestroyWakes, DestroyEnqueues, DestroyJoins, dispatcherVars
<1>5. /\ wpc' \in [Workers -> {"free", "run", "returned", "signal"}]
      /\ opc' \in {"app", "wait", "dtor", "dtorWait", "clear", "wakeUp", "enqueue", "join", "gone"}
  BY DEF AONext, CallMethod, Wait, WaitReturns, Cancel, Dispatcher, Fetch, FetchHanded, FetchWaits, Proceed,
     RunMethod, StartActivity, StopActivity, WaitActivity, WaitActivityReturns, ActivityReturns, NotRunning, WGoto,
     SignalDone, Destroy, Destructor, DestroyWaits, DestroyClears, DestroyWakes, DestroyEnqueues, DestroyJoins, activityVars
<1> QED BY <1>1, <1>2, <1>3, <1>4, <1>5

\* The activity's threads.
LEMMA ActivityStep == AOInv /\ AONext => (OneActivity /\ RunInv /\ StoppedBeforeDestroyed)'
<1> SUFFICES ASSUME AOInv, AONext PROVE (OneActivity /\ RunInv /\ StoppedBeforeDestroyed)'
  OBVIOUS
<1>1. AOTypeOK'
  BY AOTypeStep
<1> USE <1>1 DEF AOInv, OneActivity, AOTypeOK, RunInv, StoppedBeforeDestroyed
<1>2. CASE StartActivity
  BY <1>2 DEF StartActivity, MayStart
<1>3. ASSUME NEW w \in Workers, ActivityReturns(w) PROVE (OneActivity /\ RunInv /\ StoppedBeforeDestroyed)'
  BY <1>3 DEF ActivityReturns, WGoto
<1>4. ASSUME NEW w \in Workers, NotRunning(w) PROVE (OneActivity /\ RunInv /\ StoppedBeforeDestroyed)'
  BY <1>4 DEF NotRunning, WGoto
<1>5. ASSUME NEW w \in Workers, SignalDone(w) PROVE (OneActivity /\ RunInv /\ StoppedBeforeDestroyed)'
  BY <1>5 DEF SignalDone, WGoto
<1>6. CASE DestroyWaits
  BY <1>6 DEF DestroyWaits, MustWait, activityVars
<1>7. CASE /\ UNCHANGED <<running, done, wpc, late>>
           /\ opc' \in {"clear", "wakeUp", "enqueue", "join", "gone"} => opc \in {"clear", "wakeUp", "enqueue", "join", "gone"}
  BY <1>7
<1> QED
  BY <1>2, <1>3, <1>4, <1>5, <1>6, <1>7 DEF AONext, CallMethod, Wait, WaitReturns, Cancel, Dispatcher, Fetch, FetchHanded,
     FetchWaits, Proceed, RunMethod, StopActivity, WaitActivity, WaitActivityReturns, Destroy, Destructor,
     DestroyClears, DestroyWakes, DestroyEnqueues, DestroyJoins, activityVars

\* Every step preserves the invariant.
LEMMA AOInvStep == AOInv /\ [AONext]_aoVars => AOInv'
<1> SUFFICES ASSUME AOInv, [AONext]_aoVars PROVE AOInv'
  OBVIOUS
<1>1. QueueInv'
  BY DispatcherQueue, QueueStep DEF AOInv
<1>2. CASE AONext
  BY <1>1, <1>2, ActivityStep DEF AOInv
<1>3. CASE UNCHANGED aoVars
  <2>1. AOTypeOK'
    BY <1>1, <1>3 DEF AOInv, OneActivity, AOTypeOK, aoVars, dispatcherVars, activityVars, QueueInv, NothingLost
  <2> QED BY <1>1, <1>3, <2>1 DEF AOInv, OneActivity, RunInv, StoppedBeforeDestroyed, aoVars, activityVars
<1> QED BY <1>2, <1>3

-----------------------------------------------------------------------------
\* The invariant holds of every reachable state.
THEOREM ActiveObjectSound == AOSpec => []AOInv
  BY AOInvInit, AOInvStep, PTL DEF AOSpec

\* The dispatcher's queue behaves as the queue's specification says.
THEOREM UsesDispatcherQueue == AOSpec => Spec
<1>1. AOInit => Init
  BY DEF AOInit
<1> QED BY <1>1, DispatcherQueue, PTL DEF AOSpec, Spec

\* The activity's method never runs in two threads, and the dispatcher's
\* thread never calls through a null pointer.
THEOREM NeverTwoRuns == AOSpec => []OneActivity
<1>1. AOInv => OneActivity
  BY DEF AOInv
<1> QED BY <1>1, ActiveObjectSound, PTL

\* The activity's method has returned when the destructor is past it, unless a
\* restart overtook the end of the previous run.
THEOREM ActivityEndsFirst == AOSpec => []StoppedBeforeDestroyed
<1>1. AOInv => StoppedBeforeDestroyed
  BY DEF AOInv
<1> QED BY <1>1, ActiveObjectSound, PTL
=============================================================================
