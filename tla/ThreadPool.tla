----------------------------- MODULE ThreadPool -----------------------------
(***************************************************************************)
(* Poco::ThreadPool and its PooledThread objects                           *)
(* (src/Foundation/src/ThreadPool.cpp).                                    *)
(*                                                                         *)
(* Clients are application threads that call the pool's operations.  A     *)
(* PooledThread is an object with an operating system thread that sleeps   *)
(* on the auto-reset event _targetReady, runs the Runnable it finds in     *)
(* _pTarget and reports through the manual-reset event _targetCompleted.   *)
(*                                                                         *)
(* Granularity.  A section of code under a PooledThread's own _mutex is    *)
(* one step: everything it writes is read under the same mutex, except     *)
(* _idle, which only the holder of the pool's _mutex clears.  The sections *)
(* under the pool's _mutex are NOT one step: the loops read the _idle      *)
(* flags one thread at a time while the pooled threads change them, and    *)
(* release() and join() block inside.  _threads is kept as a set: a        *)
(* vector's order only decides which of several idle threads comes first,  *)
(* so the loops visit the threads in any order.                            *)
(***************************************************************************)
EXTENDS Integers, FiniteSets

CONSTANTS
    Clients,        \* application threads
    Targets,        \* Runnable objects handed to start()
    Threads,        \* addresses a PooledThread object can be allocated at
    MinCapacity,    \* constructor argument minCapacity
    MaxCapacity,    \* constructor argument maxCapacity
    HousekeepAge,   \* number of getThread() calls between housekeeps (32)
    Deltas,         \* arguments of addCapacity()
    CapacityBound,  \* bound on _maxCapacity, so that addCapacity stays finite
    ClientOps,      \* the operations each client calls
    None            \* null pointer, no owner

Ops == {"start", "collect", "joinAll", "addCapacity", "stopAll"}

ASSUME PoolAssumption ==
    /\ MinCapacity \in Nat \ {0}
    /\ MaxCapacity \in Nat /\ MaxCapacity >= MinCapacity
    /\ CapacityBound \in Nat /\ CapacityBound >= MaxCapacity
    /\ HousekeepAge \in Nat \ {0}
    /\ Deltas \subseteq Int
    /\ ClientOps \in [Clients -> SUBSET Ops]
    /\ None \notin Clients \cup Targets \cup Threads \cup Ops

VARIABLES
    \* --- members of the ThreadPool object
    poolMutex,    \* owner of _mutex
    threads,      \* _threads
    maxCapacity,  \* _maxCapacity
    age,          \* _age
    \* --- members of the PooledThread objects
    wpc,          \* where the pooled thread is in PooledThread::run()
    idle,         \* _idle
    expired,      \* _idleTime lies at least the pool's idleTime in the past
    target,       \* _pTarget
    ready,        \* state of the auto-reset event _targetReady
    completed,    \* state of the manual-reset event _targetCompleted
    running,      \* the Runnable whose run() is executing
    \* --- the clients' calls
    pc,           \* where the client is in the pool's code
    op,           \* the operation it called
    arg,          \* the Runnable it passed to start()
    cur,          \* pThread / *it: the PooledThread it works on
    todo,         \* the threads the loop of the mutex holder has yet to visit
    sorted,       \* housekeep()'s idleThreads, expiredThreads, activeThreads
    \* --- history
    fate,         \* what became of the last start() of a target
    joining,      \* targets accepted before the client's joinAll(), not done
    leaked        \* PooledThread objects whose tryJoin() timed out

poolVars    == <<threads, maxCapacity, age>>
threadVars  == <<wpc, idle, expired, target, ready, completed, running>>
callVars    == <<pc, op, arg, cur, todo, sorted>>
historyVars == <<fate, joining, leaked>>
vars == <<poolMutex, poolVars, threadVars, callVars, historyVars>>

WorkerPC == {"none", "wait", "check", "deref", "run", "exit", "crash"}
ClientPC == {"app", "lock", "classify", "release", "tryJoin", "scan", "create",
             "activate", "assign", "join", "joinWait", "ret", "throw"}
Fates    == {"rest", "called", "pending", "running", "dropped"}

\* Type invariant.
TypeOK ==
    /\ poolMutex \in Clients \cup {None}
    /\ threads \subseteq Threads /\ IsFiniteSet(threads)
    /\ maxCapacity \in MinCapacity .. CapacityBound
    /\ age \in 0 .. HousekeepAge - 1
    /\ wpc \in [Threads -> WorkerPC]
    /\ idle \in [Threads -> BOOLEAN]
    /\ expired \in [Threads -> BOOLEAN]
    /\ target \in [Threads -> Targets \cup {None}]
    /\ ready \in [Threads -> BOOLEAN]
    /\ completed \in [Threads -> BOOLEAN]
    /\ running \in [Threads -> Targets \cup {None}]
    /\ pc \in [Clients -> ClientPC]
    /\ op \in [Clients -> Ops \cup {None}]
    /\ arg \in [Clients -> Targets \cup {None}]
    /\ cur \in [Clients -> Threads \cup {None}]
    /\ todo \subseteq Threads /\ IsFiniteSet(todo)
    /\ sorted \in [idle : SUBSET Threads, expired : SUBSET Threads,
                   active : SUBSET Threads]
    /\ IsFiniteSet(sorted.idle) /\ IsFiniteSet(sorted.expired)
    /\ IsFiniteSet(sorted.active)
    /\ fate \in [Targets -> Fates]
    /\ joining \in [Clients -> SUBSET Targets]
    /\ leaked \subseteq Threads

Unsorted == [idle |-> {}, expired |-> {}, active |-> {}]

\* The constructor has created and started minCapacity threads; it returns
\* before any client can call the pool.
Init ==
    /\ poolMutex = None
    /\ threads \in {S \in SUBSET Threads :
                      IsFiniteSet(S) /\ Cardinality(S) = MinCapacity}
    /\ maxCapacity = MaxCapacity
    /\ age = 0
    /\ wpc = [th \in Threads |-> IF th \in threads THEN "wait" ELSE "none"]
    /\ idle = [th \in Threads |-> TRUE]
    /\ expired = [th \in Threads |-> FALSE]
    /\ target = [th \in Threads |-> None]
    /\ ready = [th \in Threads |-> FALSE]
    /\ completed = [th \in Threads |-> FALSE]
    /\ running = [th \in Threads |-> None]
    /\ pc = [c \in Clients |-> "app"]
    /\ op = [c \in Clients |-> None]
    /\ arg = [c \in Clients |-> None]
    /\ cur = [c \in Clients |-> None]
    /\ todo = {}
    /\ sorted = Unsorted
    /\ fate = [t \in Targets |-> "rest"]
    /\ joining = [c \in Clients |-> {}]
    /\ leaked = {}

-----------------------------------------------------------------------------
(* Calls and returns.                                                      *)

Goto(c, label) == pc' = [pc EXCEPT ![c] = label]

\* stopAll() "should be the last action before the thread pool is deleted":
\* once it is called no client calls the pool again.
Closing == \E c \in Clients : op[c] = "stopAll"

CallStart(c, t) ==
    /\ pc[c] = "app" /\ "start" \in ClientOps[c] /\ ~Closing
    /\ fate[t] = "rest"
    /\ Goto(c, "lock")
    /\ op' = [op EXCEPT ![c] = "start"]
    /\ arg' = [arg EXCEPT ![c] = t]
    /\ fate' = [fate EXCEPT ![t] = "called"]
    /\ UNCHANGED <<poolMutex, poolVars, threadVars, cur, todo, sorted, joining, leaked>>

CallOther(c, o) ==
    /\ pc[c] = "app" /\ o \in ClientOps[c] \ {"start"} /\ ~Closing
    /\ o = "stopAll" => \A d \in Clients : pc[d] = "app"
    /\ Goto(c, "lock")
    /\ op' = [op EXCEPT ![c] = o]
    /\ joining' = [joining EXCEPT ![c] =
                     IF o = "joinAll"
                     THEN {t \in Targets : fate[t] \in {"pending", "running"}}
                     ELSE {}]
    /\ UNCHANGED <<poolMutex, poolVars, threadVars, arg, cur, todo, sorted, fate, leaked>>

\* The call returns to the application, or ends in an exception; a stopped
\* pool is not called again.
Return(c) ==
    /\ pc[c] \in {"ret", "throw"} /\ op[c] # "stopAll"
    /\ Goto(c, "app")
    /\ op' = [op EXCEPT ![c] = None]
    /\ arg' = [arg EXCEPT ![c] = None]
    /\ cur' = [cur EXCEPT ![c] = None]
    /\ UNCHANGED <<poolMutex, poolVars, threadVars, todo, sorted, historyVars>>

-----------------------------------------------------------------------------
(* Taking the pool's _mutex: the first statements of each operation.       *)

Acquire(c, o) ==
    /\ pc[c] = "lock" /\ op[c] = o
    /\ poolMutex = None
    /\ poolMutex' = c

\* housekeep() returns at once when the pool is at its minimum: its caller
\* goes on at label next with the threads in rest to visit.
BeginHousekeep(c, next, rest) ==
    /\ age' = 0
    /\ sorted' = Unsorted
    /\ IF Cardinality(threads) <= MinCapacity
       THEN Goto(c, next) /\ todo' = rest
       ELSE Goto(c, "classify") /\ todo' = threads

\* Every HousekeepAge-th getThread() cleans up: if (++_age == 32).
HousekeepDue == age + 1 = HousekeepAge

AcquireStart(c) ==
    /\ Acquire(c, "start")
    /\ \/ /\ HousekeepDue
          /\ BeginHousekeep(c, "scan", threads)
       \/ /\ ~HousekeepDue
          /\ age' = age + 1
          /\ todo' = threads
          /\ Goto(c, "scan")
          /\ UNCHANGED sorted
    /\ UNCHANGED <<threads, maxCapacity, threadVars, op, arg, cur, historyVars>>

AcquireCollect(c) ==
    /\ Acquire(c, "collect")
    /\ BeginHousekeep(c, "release", {})
    /\ UNCHANGED <<threads, maxCapacity, threadVars, op, arg, cur, historyVars>>

\* Mutant: the loops leave the busy threads alone.
LoopThreadsIdleOnly == {th \in threads : idle[th]}

\* What the loops of joinAll() and stopAll() visit.
LoopThreads == threads

AcquireLoop(c, o, label) ==
    /\ Acquire(c, o)
    /\ todo' = LoopThreads
    /\ Goto(c, label)
    /\ UNCHANGED <<poolVars, threadVars, op, arg, cur, sorted, historyVars>>

AcquireJoinAll(c) == AcquireLoop(c, "joinAll", "join")
AcquireStopAll(c) == AcquireLoop(c, "stopAll", "release")

\* Mutant: the assertion is missing.
CapacityAllowedAlways(n) == TRUE

\* poco_assert (_maxCapacity + n >= _minCapacity)
CapacityAllowed(n) == maxCapacity + n >= MinCapacity

\* The assertion throws and leaves the capacity alone.
AcquireAddCapacity(c, n) ==
    /\ pc[c] = "lock" /\ op[c] = "addCapacity"
    /\ poolMutex = None
    /\ maxCapacity + n <= CapacityBound
    /\ \/ /\ CapacityAllowed(n)
          /\ poolMutex' = c
          /\ maxCapacity' = maxCapacity + n
          /\ BeginHousekeep(c, "release", {})
       \/ /\ ~CapacityAllowed(n)
          /\ Goto(c, "throw")
          /\ UNCHANGED <<poolMutex, maxCapacity, age, todo, sorted>>
    /\ UNCHANGED <<threads, threadVars, op, arg, cur, historyVars>>

-----------------------------------------------------------------------------
(* ThreadPool::housekeep().                                                *)

\* Mutant: a thread is sorted by its idleTime() alone.
IsIdleAlways(th) == TRUE

\* PooledThread::idle()
IsIdle(th) == idle[th]

\* The loop sorts one more thread into the three local vectors.
Classify(c) ==
    /\ pc[c] = "classify"
    /\ \E th \in todo :
         /\ todo' = todo \ {th}
         /\ sorted' =
              IF ~IsIdle(th) THEN [sorted EXCEPT !.active = @ \cup {th}]
              ELSE IF expired[th] THEN [sorted EXCEPT !.expired = @ \cup {th}]
              ELSE [sorted EXCEPT !.idle = @ \cup {th}]
    /\ UNCHANGED <<poolMutex, poolVars, threadVars, pc, op, arg, cur, historyVars>>

\* Mutant: limit is not raised to _minCapacity.
KeptExpiredNoMinimum == 0

\* How many expired threads the pool keeps: as many as it takes to have
\* _minCapacity threads together with the idle and the active ones.
KeptExpired ==
    LET n     == Cardinality(sorted.active)
        limit == IF Cardinality(sorted.idle) + n < MinCapacity
                 THEN MinCapacity ELSE Cardinality(sorted.idle) + n
    IN  limit - n - Cardinality(sorted.idle)

\* _threads is rebuilt; the expired threads over the limit are released.
Rebuild(c) ==
    /\ pc[c] = "classify" /\ todo = {}
    /\ \E keep \in SUBSET sorted.expired :
         /\ Cardinality(keep) = KeptExpired
         /\ threads' = sorted.idle \cup keep \cup sorted.active
         /\ todo' = sorted.expired \ keep
    /\ sorted' = Unsorted
    /\ Goto(c, "release")
    /\ UNCHANGED <<poolMutex, maxCapacity, age, threadVars, op, arg, cur, historyVars>>

-----------------------------------------------------------------------------
(* PooledThread::release(), called by housekeep() and by stopAll().        *)

\* A target that has been accepted and has not begun is forgotten.
Dropped(th) ==
    IF target[th] # None /\ fate[target[th]] = "pending"
    THEN [fate EXCEPT ![target[th]] = "dropped"] ELSE fate

Release(c) ==
    /\ pc[c] = "release"
    /\ \E th \in todo :
         /\ todo' = todo \ {th}
         /\ cur' = [cur EXCEPT ![c] = th]
         /\ target' = [target EXCEPT ![th] = None]
         /\ ready' = [ready EXCEPT ![th] = TRUE]
         /\ fate' = Dropped(th)
    /\ Goto(c, "tryJoin")
    /\ UNCHANGED <<poolMutex, poolVars, wpc, idle, expired, completed, running, op, arg, sorted,
                   joining, leaked>>

\* The thread has ended: the PooledThread object is deleted.
TryJoinOk(c) ==
    /\ pc[c] = "tryJoin" /\ wpc[cur[c]] = "exit"
    /\ wpc' = [wpc EXCEPT ![cur[c]] = "none"]
    /\ cur' = [cur EXCEPT ![c] = None]
    /\ Goto(c, "release")
    /\ UNCHANGED <<poolMutex, poolVars, idle, expired, target, ready, completed, running, op, arg,
                   todo, sorted, historyVars>>

\* JOIN_TIMEOUT (10 seconds) passes first: the object is left to itself.
TryJoinTimeout(c) ==
    /\ pc[c] = "tryJoin" /\ wpc[cur[c]] # "exit"
    /\ leaked' = leaked \cup {cur[c]}
    /\ cur' = [cur EXCEPT ![c] = None]
    /\ Goto(c, "release")
    /\ UNCHANGED <<poolMutex, poolVars, threadVars, op, arg, todo, sorted, fate, joining>>

\* The loop over release() is over.  housekeep() was the last statement of
\* collect(), addCapacity() and joinAll(); getThread() goes on searching;
\* stopAll() clears _threads.
ReleaseDone(c) ==
    /\ pc[c] = "release" /\ todo = {}
    /\ \/ /\ op[c] = "start"
          /\ todo' = threads
          /\ Goto(c, "scan")
          /\ UNCHANGED <<poolMutex, threads>>
       \/ /\ op[c] # "start"
          /\ threads' = IF op[c] = "stopAll" THEN {} ELSE threads
          /\ poolMutex' = None
          /\ Goto(c, "ret")
          /\ UNCHANGED todo
    /\ UNCHANGED <<maxCapacity, age, threadVars, op, arg, cur, sorted, historyVars>>

-----------------------------------------------------------------------------
(* ThreadPool::getThread() and PooledThread::start().                      *)

ScanBusy(c) ==
    /\ pc[c] = "scan"
    /\ \E th \in todo : ~idle[th] /\ todo' = todo \ {th}
    /\ UNCHANGED <<poolMutex, poolVars, threadVars, pc, op, arg, cur, sorted, historyVars>>

ScanIdle(c) ==
    /\ pc[c] = "scan"
    /\ \E th \in todo : idle[th] /\ cur' = [cur EXCEPT ![c] = th]
    /\ todo' = {}
    /\ Goto(c, "activate")
    /\ UNCHANGED <<poolMutex, poolVars, threadVars, op, arg, sorted, historyVars>>

\* An exception leaves getThread(): the mutex is unlocked, the target is not
\* started.
Throw(c) ==
    /\ poolMutex' = None
    /\ fate' = [fate EXCEPT ![arg[c]] = "rest"]
    /\ Goto(c, "throw")

ScanNone(c) ==
    /\ pc[c] = "scan" /\ todo = {}
    /\ \/ /\ Cardinality(threads) < maxCapacity
          /\ Goto(c, "create")
          /\ UNCHANGED <<poolMutex, fate>>
       \/ /\ Cardinality(threads) >= maxCapacity   \* NoThreadAvailableException
          /\ Throw(c)
    /\ UNCHANGED <<poolVars, threadVars, op, arg, cur, todo, sorted, joining, leaked>>

\* createThread(), PooledThread::start() and push_back: the new thread has
\* signalled _started and waits for a target.
Create(c) ==
    /\ pc[c] = "create"
    /\ \E th \in Threads :
         /\ wpc[th] = "none"
         /\ wpc' = [wpc EXCEPT ![th] = "wait"]
         /\ idle' = [idle EXCEPT ![th] = TRUE]
         /\ expired' = [expired EXCEPT ![th] = FALSE]
         /\ target' = [target EXCEPT ![th] = None]
         /\ ready' = [ready EXCEPT ![th] = FALSE]
         /\ completed' = [completed EXCEPT ![th] = FALSE]
         /\ threads' = threads \cup {th}
         /\ cur' = [cur EXCEPT ![c] = th]
    /\ Goto(c, "activate")
    /\ UNCHANGED <<poolMutex, maxCapacity, age, running, op, arg, todo, sorted, historyVars>>

\* The system has no thread to give: the object is deleted again and the
\* exception leaves getThread().
CreateFails(c) ==
    /\ pc[c] = "create"
    /\ Throw(c)
    /\ UNCHANGED <<poolVars, threadVars, op, arg, cur, todo, sorted, joining, leaked>>

\* Mutant: activate() does not reset _targetCompleted.
ActivateStaysCompleted(c) ==
    /\ pc[c] = "activate"
    /\ idle' = [idle EXCEPT ![cur[c]] = FALSE]
    /\ poolMutex' = None
    /\ Goto(c, "assign")
    /\ UNCHANGED <<poolVars, wpc, expired, target, ready, completed, running, op, arg, cur, todo,
                   sorted, historyVars>>

\* PooledThread::activate(); getThread() returns and unlocks the pool.
Activate(c) ==
    /\ pc[c] = "activate"
    /\ idle' = [idle EXCEPT ![cur[c]] = FALSE]
    /\ completed' = [completed EXCEPT ![cur[c]] = FALSE]
    /\ poolMutex' = None
    /\ Goto(c, "assign")
    /\ UNCHANGED <<poolVars, wpc, expired, target, ready, running, op, arg, cur, todo, sorted,
                   historyVars>>

\* PooledThread::start(): outside the pool's mutex.
Assign(c) ==
    /\ pc[c] = "assign"
    /\ target' = [target EXCEPT ![cur[c]] = arg[c]]
    /\ ready' = [ready EXCEPT ![cur[c]] = TRUE]
    /\ fate' = [fate EXCEPT ![arg[c]] = "pending"]
    /\ Goto(c, "ret")
    /\ UNCHANGED <<poolMutex, poolVars, wpc, idle, expired, completed, running, op, arg, cur, todo,
                   sorted, joining, leaked>>

-----------------------------------------------------------------------------
(* ThreadPool::joinAll() and PooledThread::join().                         *)

\* Mutant: join() waits without looking at _pTarget.
HasTargetAlways(th) == TRUE

\* PooledThread::join() waits only for a thread that has a target.
HasTarget(th) == target[th] # None

JoinBusy(c) ==
    /\ pc[c] = "join"
    /\ \E th \in todo :
         /\ HasTarget(th)
         /\ cur' = [cur EXCEPT ![c] = th]
    /\ Goto(c, "joinWait")
    /\ UNCHANGED <<poolMutex, poolVars, threadVars, op, arg, todo, sorted, historyVars>>

JoinFree(c) ==
    /\ pc[c] = "join"
    /\ \E th \in todo : ~HasTarget(th) /\ todo' = todo \ {th}
    /\ UNCHANGED <<poolMutex, poolVars, threadVars, pc, op, arg, cur, sorted, historyVars>>

JoinWait(c) ==
    /\ pc[c] = "joinWait" /\ completed[cur[c]]
    /\ todo' = todo \ {cur[c]}
    /\ cur' = [cur EXCEPT ![c] = None]
    /\ Goto(c, "join")
    /\ UNCHANGED <<poolMutex, poolVars, threadVars, op, arg, sorted, historyVars>>

JoinDone(c) ==
    /\ pc[c] = "join" /\ todo = {}
    /\ BeginHousekeep(c, "release", {})
    /\ UNCHANGED <<poolMutex, threads, maxCapacity, threadVars, op, arg, cur, historyVars>>

-----------------------------------------------------------------------------
(* PooledThread::run(), and the clock.                                     *)

\* Mutant: _targetReady is a manual-reset event.
WorkerWakeNoReset(th) ==
    /\ wpc[th] = "wait" /\ ready[th]
    /\ wpc' = [wpc EXCEPT ![th] = "check"]
    /\ UNCHANGED <<poolMutex, poolVars, idle, expired, target, ready, completed, running, callVars,
                   historyVars>>

WorkerWake(th) ==
    /\ wpc[th] = "wait" /\ ready[th]
    /\ ready' = [ready EXCEPT ![th] = FALSE]
    /\ wpc' = [wpc EXCEPT ![th] = "check"]
    /\ UNCHANGED <<poolMutex, poolVars, idle, expired, target, completed, running, callVars,
                   historyVars>>

\* "a NULL target means kill yourself"
WorkerCheck(th) ==
    /\ wpc[th] = "check"
    /\ wpc' = [wpc EXCEPT ![th] = IF target[th] # None THEN "deref" ELSE "exit"]
    /\ UNCHANGED <<poolMutex, poolVars, idle, expired, target, ready, completed, running, callVars,
                   historyVars>>

\* _pTarget->run() reads _pTarget again, without the mutex.  A null pointer
\* there is undefined behaviour: the process dies (the model only lets the
\* thread die, which allows whatever the others could have done before).
WorkerRun(th) ==
    /\ wpc[th] = "deref"
    /\ \/ /\ target[th] # None
          /\ wpc' = [wpc EXCEPT ![th] = "run"]
          /\ running' = [running EXCEPT ![th] = target[th]]
          /\ fate' = [fate EXCEPT ![target[th]] = "running"]
       \/ /\ target[th] = None
          /\ wpc' = [wpc EXCEPT ![th] = "crash"]
          /\ UNCHANGED <<running, fate>>
    /\ UNCHANGED <<poolMutex, poolVars, idle, expired, target, ready, completed, callVars, joining,
                   leaked>>

\* The Runnable returned or threw (the ErrorHandler swallows the exception).
WorkerComplete(th) ==
    /\ wpc[th] = "run"
    /\ target' = [target EXCEPT ![th] = None]
    /\ expired' = [expired EXCEPT ![th] = FALSE]
    /\ idle' = [idle EXCEPT ![th] = TRUE]
    /\ completed' = [completed EXCEPT ![th] = TRUE]
    /\ running' = [running EXCEPT ![th] = None]
    /\ wpc' = [wpc EXCEPT ![th] = "wait"]
    /\ fate' = [fate EXCEPT ![running[th]] = "rest"]
    /\ joining' = [c \in Clients |-> joining[c] \ {running[th]}]
    /\ UNCHANGED <<poolMutex, poolVars, ready, callVars, leaked>>

\* Time passes until idleTime() reaches the pool's limit.
Expire(th) ==
    /\ th \in threads /\ idle[th] /\ ~expired[th]
    /\ expired' = [expired EXCEPT ![th] = TRUE]
    /\ UNCHANGED <<poolMutex, poolVars, wpc, idle, target, ready, completed, running, callVars,
                   historyVars>>

-----------------------------------------------------------------------------
\* The steps of a client inside the pool's code.
PoolStep(c) ==
    \/ AcquireStart(c) \/ AcquireCollect(c) \/ AcquireJoinAll(c)
    \/ AcquireStopAll(c) \/ \E n \in Deltas : AcquireAddCapacity(c, n)
    \/ Classify(c) \/ Rebuild(c)
    \/ Release(c) \/ TryJoinOk(c) \/ TryJoinTimeout(c) \/ ReleaseDone(c)
    \/ ScanBusy(c) \/ ScanIdle(c) \/ ScanNone(c)
    \/ Create(c) \/ CreateFails(c) \/ Activate(c) \/ Assign(c)
    \/ JoinBusy(c) \/ JoinFree(c) \/ JoinWait(c) \/ JoinDone(c)

Worker(th) == WorkerWake(th) \/ WorkerCheck(th) \/ WorkerRun(th) \/ WorkerComplete(th)

Next ==
    \/ \E c \in Clients :
         \/ \E t \in Targets : CallStart(c, t)
         \/ \E o \in Ops : CallOther(c, o)
         \/ Return(c)
         \/ PoolStep(c)
    \/ \E th \in Threads : Worker(th) \/ Expire(th)

Spec == Init /\ [][Next]_vars

\* Every thread inside the pool's code is scheduled, and every target's
\* run() returns.  Nothing obliges a client to call, the clock to expire a
\* thread, or a mutex to be granted in a fair order.
Fairness ==
    /\ \A c \in Clients : WF_vars(PoolStep(c))
    /\ \A th \in Threads : WF_vars(Worker(th))

FairSpec == Spec /\ Fairness

-----------------------------------------------------------------------------
(* Properties.                                                             *)

\* poco_assert (_idle) in activate() and poco_assert (_pTarget == 0) in
\* start() never fail, and start() is never called on a deleted object:
\* between getThread() unlocking the pool and start() locking the thread,
\* nobody else takes, releases or deletes the thread.
AssertionsHold ==
    \A c \in Clients :
        /\ pc[c] = "activate" => idle[cur[c]] /\ target[cur[c]] = None
        /\ pc[c] = "assign" => target[cur[c]] = None /\ wpc[cur[c]] # "none"

\* run() never calls through a null _pTarget, although it reads the pointer
\* a second time after unlocking the mutex it checked it under.  (True until
\* somebody calls stopAll().)
NoNullCall == \A th \in Threads : wpc[th] # "crash"

\* A target start() has accepted sits in exactly one pooled thread that is
\* in the pool, marked busy and about to wake up for it, until it has run:
\* no wake-up is lost, no target runs twice or is forgotten before stopAll().
AcceptedTargetHeld ==
    ~Closing => \A t \in Targets :
        /\ fate[t] \in {"pending", "running"} =>
             \E th \in threads :
                /\ target[th] = t /\ ~idle[th]
                /\ \A other \in Threads \ {th} : target[other] # t
                /\ \/ wpc[th] = "wait" /\ ready[th] /\ fate[t] = "pending"
                   \/ wpc[th] \in {"check", "deref"} /\ fate[t] = "pending"
                   \/ wpc[th] = "run" /\ running[th] = t /\ fate[t] = "running"
        /\ fate[t] # "dropped"

\* "The thread pool always keeps a minimum number of threads running": no
\* housekeeping takes the pool below minCapacity.
KeepsMinimum == ~Closing => Cardinality(threads) >= MinCapacity

\* housekeep() only releases a thread that is really idle: it has no target,
\* is out of _threads, and no client has obtained it from getThread().
ReleasesOnlyIdle ==
    \A c \in Clients : pc[c] = "tryJoin" /\ op[c] # "stopAll" =>
        /\ idle[cur[c]] /\ target[cur[c]] = None /\ cur[c] \notin threads
        /\ \A d \in Clients \ {c} : pc[d] = "assign" => cur[d] # cur[c]

\* The inductive invariant behind the safety properties of a pool that is
\* not stopped.  It says who may touch a thread: the holder of the pool's
\* mutex, the client that obtained it from getThread(), or the thread itself.
Locked == {"classify", "release", "tryJoin", "scan", "create", "activate",
           "join", "joinWait"}

InStart(c) == op[c] = "start" /\ pc[c] \notin {"app", "ret", "throw"}

\* The client in a locked section is the owner of the mutex; a client in
\* start() has a target of its own, not yet accepted.
MutexInv ==
    \A c \in Clients :
        /\ pc[c] \in Locked <=> poolMutex = c
        /\ op[c] # "stopAll"
        /\ pc[c] \in {"scan", "create", "activate", "assign"} => op[c] = "start"
        /\ InStart(c) => arg[c] \in Targets /\ fate[arg[c]] = "called"
        /\ \A d \in Clients : InStart(c) /\ InStart(d) /\ arg[c] = arg[d] => c = d

\* housekeep()'s three vectors partition the threads already visited; the
\* threads to be released are out of _threads.
LoopInv ==
    /\ \A c \in Clients :
        /\ pc[c] = "classify" =>
             /\ threads = todo \cup sorted.idle \cup sorted.expired \cup sorted.active
             /\ todo \cap (sorted.idle \cup sorted.expired \cup sorted.active) = {}
             /\ sorted.expired \cap (sorted.idle \cup sorted.active) = {}
             /\ sorted.idle \cap sorted.active = {}
             /\ \A th \in sorted.expired : idle[th]
        /\ pc[c] \in {"release", "tryJoin"} => todo \cap threads = {}
        /\ pc[c] = "tryJoin" => cur[c] \in Threads \ threads
        /\ pc[c] \in {"scan", "join", "joinWait"} => todo \subseteq threads
        /\ pc[c] = "activate" => cur[c] \in threads /\ idle[cur[c]]

\* A thread in the pool rests, has been handed to one client, or holds a
\* target that is pending until run() is called and running from then on;
\* a thread outside the pool is idle and can only end.
ThreadInv ==
    \A th \in Threads :
        /\ th \in threads =>
             \/ /\ target[th] = None /\ wpc[th] = "wait" /\ ~ready[th]
             \/ /\ target[th] \in Targets /\ ~idle[th]
                /\ \/ wpc[th] = "wait" /\ ready[th]
                   \/ wpc[th] \in {"check", "deref", "run"} /\ ~ready[th]
                /\ fate[target[th]] = IF wpc[th] = "run" THEN "running" ELSE "pending"
        /\ th \notin threads =>
             idle[th] /\ target[th] = None /\ wpc[th] \in {"none", "wait", "check", "exit"}
        /\ wpc[th] = "run" => running[th] = target[th]

\* A thread handed out by getThread() belongs to the client that got it.
HandoffInv ==
    \A c \in Clients : pc[c] = "assign" =>
        /\ cur[c] \in threads /\ ~idle[cur[c]] /\ target[cur[c]] = None
        /\ \A d \in Clients : pc[d] = "assign" /\ cur[d] = cur[c] => d = c

\* An accepted target is held by one thread.
FateInv ==
    \A t \in Targets :
        /\ fate[t] # "dropped"
        /\ fate[t] \in {"pending", "running"} => \E th \in threads : target[th] = t
        /\ \A x, y \in Threads : target[x] = t /\ target[y] = t => x = y

OpenInv == MutexInv /\ LoopInv /\ ThreadInv /\ HandoffInv /\ FateInv
PoolInv == Closing \/ OpenInv

\* When stopAll() has returned, every pooled thread has ended and its object
\* is deleted, except the ones it stopped waiting for after 10 seconds.
StopAllWaits ==
    \A c \in Clients : pc[c] = "ret" /\ op[c] = "stopAll" =>
        \A th \in Threads : wpc[th] # "none" => th \in leaked

Promise == INSTANCE Executor WITH
    inJoinAll <- [c \in Clients |-> op[c] = "joinAll"], outstanding <- joining,
    stopping <- Closing

\* The pool does what Executor promises: it runs every target start() accepts
\* exactly once, joinAll() waits for all of them, and only stopAll() forgets a
\* target, one that has not begun.
ImplementsExecutor == Promise!Spec

\* No accepted target is left waiting for a thread, unless the pool is stopped.
AcceptedRuns == \A t \in Targets : fate[t] = "pending" ~> (fate[t] = "rest" \/ Closing)

\* No operation keeps the pool's mutex for ever: joinAll() and the
\* housekeeping finish when the targets do.
MutexReleased == \A c \in Clients : poolMutex = c ~> poolMutex # c
=============================================================================
