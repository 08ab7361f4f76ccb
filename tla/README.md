# A TLA+ verification project for the POCO C++ Libraries

The repository is the POCO C++ Libraries, version 1.5.3 (`Foundation`, `Net`,
`Util`, `XML`, `JSON`, `Data`, `Crypto`, `Zip`, ...), with copies of other
projects beside them (`folly`, `WebKit`, `v8`, `coreutils`, `Gtest-1.7.0`,
`backtrace`). What can be wrong in POCO without a test noticing is mostly in
its threading services, and nearly everything concurrent in the library is
built on a few of them: `ThreadPool`, `TaskManager`, `NotificationQueue` and
`Timer`. They are modelled here, with what is built on top of them: the
`TCPServer`, the active objects, `Util::Timer` with its timed queue, and the
session pool of `Data`.

`PROJECT.json` is the machine-readable side of this document: which definition
models which lines, which run checks which property, which mutated definition
each property rejects, the hazards of the code and the findings.

## Running the checks

```
tlc -workers 2 -config ThreadPool.cfg MCThreadPool   # any run of PROJECT.json
tlapm ThreadPoolProofs.tla                           # any *Proofs module
```

## 1. Inventory

### The parts that are modelled

**ThreadPool** (`Foundation/src/ThreadPool.cpp`). *State*: the vector of
`PooledThread` objects, the capacity, an age counter that triggers
housekeeping, the pool's mutex; per pooled thread the pointer to its target,
the `_idle` flag, the time it became idle, an auto-reset event `_targetReady`
and a manual-reset event `_targetCompleted`. *Operations*: `start`, `collect`,
`joinAll`, `stopAll`, `addCapacity`, and internally `housekeep`, `getThread`
and the thread's loop. *Hard*: the pool reads `_idle` while the threads change
it; `getThread()` unlocks before `PooledThread::start()` stores the target;
`run()` reads `_pTarget` a second time after unlocking; `joinAll()` and
`release()` block with the pool locked; thread creation may fail. *Correct
when*: an accepted target runs exactly once, nobody releases a thread somebody
else has, the assertions hold, `joinAll()` waits for what was accepted before
it, housekeeping keeps the minimum.

**TaskManager and Task** (`Foundation/src/TaskManager.cpp`, `Task.cpp`).
*State*: the list of tasks under the manager's mutex; per task its state and
cancel event. *Operations*: `start`, `cancelAll`, `joinAll`, `cancel`, `reset`,
`setProgress`, and the callbacks of a running task. *Interaction*: `start()`
calls the pool with the manager's mutex held; a running task takes the same
mutex. *Correct when*: the list holds exactly the tasks somebody still refers
to, cancellation is seen, `joinAll()` returns.

**NotificationQueue** (`Foundation/src/NotificationQueue.cpp`). *State*: queued
notifications, and `WaitInfo` objects of waiting threads. *Operations*: two
ways to enqueue, three to dequeue, `dispatch`, `clear`, `wakeUpAll`. *Hard*: a
wait that times out while a producer hands over. *Correct when*: nothing is
lost or delivered twice, and no waiter is forgotten or left dangling.

**TCPServer and TCPServerDispatcher** (`Net/src/TCPServer.cpp`,
`TCPServerDispatcher.cpp`). *State*: the dispatcher's queue, thread count,
statistics, reference count and stop flag. *Operations*: accept and enqueue,
serve, stop, destroy. *Interaction*: a client of the notification queue and of
the thread pool. *Correct when*: every accepted connection is refused, served
or discarded by `stop()`; the thread count is right; `stop()` ends the threads;
the dispatcher outlives them.

**Timer** (`Foundation/src/Timer.cpp`). *State*: the intervals, the callback,
two auto-reset events, the next invocation. *Operations*: `start`, `stop`,
`restart`, `restart(ms)`, the setters, the timer thread's loop. *Hard*:
`stop()` unlocks while it waits; requests come from several threads and from
the callback; signals may be left over from an earlier life of the timer.
*Correct when*: a stopped timer is quiet, `stop()` returns, an undisturbed
timer fires on its grid.

**Util::Timer and TimedNotificationQueue** (`Util/src/Timer.cpp`,
`TimerTask.cpp`, `Foundation/src/TimedNotificationQueue.cpp`). *State*: a
multimap of notifications ordered by time with an auto-reset event, one thread,
a flag per task. *Operations*: `schedule`, `scheduleAtFixedRate`, `cancel` with
and without waiting, `TimerTask::cancel`, the destructor. *Interaction*: the
operations are notifications; `cancel()` and the destructor put theirs at the
front, and each of them clears the queue when it is executed. *Hard*: the
thread keeps an iterator across an unlock and a wait; repeated tasks enqueue
themselves again while somebody cancels. *Correct when*: the iterator stays
valid, no wake-up is missed, nothing runs early, `cancel(true)` leaves nothing
of what it cancels, the waiting calls return.

**Active objects** (`ActiveDispatcher`, `ActiveMethod`, `ActiveRunnable`,
`ActiveResult`, `Activity`). *State*: the dispatcher's notification queue and
thread; the event of every result; the activity's `_stopped`, `_running` and
`_done`. *Operations*: call a method, wait for its result, `cancel`; start,
stop and wait for the activity; destroy the object. *Interaction*: a client of
the notification queue and of the thread pool. *Hard*: the destructor stops
threads in three separate sections; `run()` writes `_running` and `_done`
without the mutex, one after the other; cleared methods have waiting callers.
*Correct when*: every result arrives, the activity runs once at a time and is
over before its object is, the destructor ends.

**SessionPool** (`Data/src/SessionPool.cpp`, `PooledSessionImpl.cpp`).
*State*: the lists of idle and active sessions, their number, the saved and
the default features, a flag, a recursive mutex, a janitor timer. *Operations*:
`get` with or without a feature, `setFeature`, the session's `close` with its
rollback, the janitor, `shutdown`. *Interaction*: sessions of a connector,
whose connection the database may drop at any time; `Timer`. *Hard*: shutdown
waits for the timer with the mutex held; clients close sessions the pool has
closed already; `rollback()` and `close()` fail, and the pool swallows it. *Correct when*: the number is the sessions there are, each in
one place; no transaction and no setting of one client reaches the next; the
limits are kept; every call returns.

### The parts that are not

`AsyncChannel`, the caches and the socket reactor keep state of their own and
are candidates for further modules. The platform layer (`Event_POSIX`,
`Mutex_POSIX`) is present only as the atomic steps the services use. XML, JSON,
Zip, Crypto, NetSSL, the database connectors, MongoDB and PDF are sequential
conversions of large inputs or wrappers of external libraries; the tools and the
bundled third-party code, which is most of the repository's lines, are not the
system. Section 7 says more.

## 2. Modules

| Module | Models | Extends |
|---|---|---|
| `ThreadPool` | ThreadPool, PooledThread | |
| `Executor` | what a pool promises its clients (abstract specification) | |
| `TaskManager` | TaskManager, Task | `ThreadPool` |
| `NotificationQueue` | NotificationQueue | |
| `TCPServer` | TCPServer, TCPServerDispatcher | `NotificationQueue` |
| `Timer` | Timer | |
| `UtilTimer` | Util::Timer, TimerTask, TimedNotificationQueue | |
| `ActiveObject` | ActiveDispatcher, ActiveMethod, ActiveResult, Activity | `NotificationQueue` |
| `SessionPool` | SessionPool, PooledSessionHolder, PooledSessionImpl | |
| `MC...` | values of the constants | the module they are named after |
| `ThreadPoolProofs` | theorems | `ThreadPool` |
| `TaskManagerProofs` | theorems | `TaskManager`, `ThreadPoolProofs` |
| `NotificationQueueProofs` | theorems | `NotificationQueue` |
| `TCPServerProofs` | theorems | `TCPServer`, `NotificationQueueProofs` |
| `ActiveObjectProofs` | theorems | `ActiveObject`, `NotificationQueueProofs` |
| `TimerProofs`, `UtilTimerProofs`, `SessionPoolProofs` | theorems | the module they are named after |

`TaskManager`, `TCPServer` and `ActiveObject` compose: a step of the manager,
the server or the dispatcher that is inside the pool's or the queue's code *is*
that module's action, conjoined with what the caller does. In `TCPServer` and
`ActiveObject` the thread pool is represented by its contract (it takes the
target or refuses), which is what `Executor` states and `ThreadPool` is proved
to implement. That a composed system uses its pool or queue as that module's
specification allows is a theorem (`UsesPool`, `UsesQueue`, `UsesDispatcherQueue`). In `SessionPool` the timer is what `timer` shows of it: `stop()`
returns once the callback is over.

### How state and actions correspond to the code

A variable is a member variable (the comment in `VARIABLES` names it), a program
counter, or history. A section of code under a mutex in which nothing blocks
is one step; a section that blocks, or that reads something another thread
writes without that mutex, is several. In particular:

- `ThreadPool`: the pool's mutex is a variable; the loops of `housekeep`,
  `getThread` and `joinAll` visit one thread per step. `_threads` is a set and
  visited in any order, which covers every order of the vector. `release()`'s
  clearing of `_pTarget` and its `_targetReady.set()` are one step: the pooled
  thread reads the pointer only after the event, or without regard to it, so
  every order of its steps with the two is also one with the single step.
  `_idleTime` is the flag `expired`, which the clock sets at any time.
- `TaskManager`: `_state` is written without a lock, so each write is a step.
- `NotificationQueue`: a `WaitInfo` is named by its thread. `tryWait` may report
  a time-out although the event has been set meanwhile (`Event_POSIX.cpp`,
  `waitImpl(long)`): `TimeOut` does not look at the event.
- `TCPServer`: only `enqueue()` holds the dispatcher's mutex over several steps
  (it calls the queue and the pool), so the mutex is held exactly in three
  positions of the accept thread. `stop()` takes no mutex and is three steps.
  `start()` may fail to start the accept thread with `_stopped` already false.
- `Timer`: time is relative; `due` is `_nextInvocation` minus now and a tick
  decreases it. The catch-up loop of `run()` is one step, `CatchUp`.
- `UtilTimer`: the multimap is a sequence sorted by time, in the order of
  insertion where times are equal. The iterator of
  `waitDequeueNotification()` is an index that moves with its entry. A record's
  field `before` and the variable `crowded` are history: what was scheduled
  before a `cancel(true)`, and whose command found another one pending.
- `ActiveObject`: one owner thread uses and destroys the object while other
  threads call methods; the object derives from the dispatcher and has the
  activity as a member, so the activity is destroyed first. The variable
  `late` is history: the activity was started before its last run had set `_done`.
- `SessionPool`: a call is one step under the recursive mutex; only `shutdown()`
  blocks inside, so the mutex is a variable that is owned only there. One
  feature stands for all features and properties: `feature[s]` says that the
  session has its default. The maps of saved values are keyed by the pointer
  the code uses. When `rollback()` fails the
  transaction stays, and the session is closed; when `close()` throws in
  `shutdown()` a session in use stays connected although it is erased, and `unclosed`
  (history) names it. A session is destroyed, and its connection ended, with
  the last reference to it: that of the idle list when the janitor or `shutdown()`
  erases it, or the client's when `putBack()` finds the pool shut down.

The definitions whose comment begins with "Mutant" are deliberately wrong
versions of the definition after them. No specification uses them; substituted
for the right one they must make the property PROJECT.json names fail.

A module's type invariant is the first conjunct of its main invariant
(`TaskListExact`, `NothingLost`, `ConnectionsAccounted`, `OnGrid`,
`NoDanglingIterator`, `OneActivity`, `SessionsAccounted`); `ThreadPool`'s
`TypeOK` stands alone, because the proofs start from it.

## 3. Runs

### Runs that pass

| Run | Shows |
|---|---|
| `pool` | two clients start, collect, join, change the capacity and stop the pool: assertions hold, accepted targets are held, the minimum is kept, `stopAll()` leaves no thread but those it stopped waiting for after 10 seconds; the inductive invariant `PoolInv` of the proofs; the pool implements `Executor` (`joinAll()` waits for all that was accepted, only `stopAll()` forgets a target), every accepted target runs, the mutex is always released |
| `tm` | the task list is exact under failed starts and cancellations; tasks leave it; `joinAll()` returns unless the deadlock of `tm_join_deadlock` closes (`Cycle`) |
| `queue` | notifications are in exactly one place, waiters are queued or signalled, nobody waits beside a backlog, and every notification is delivered although no wait need time out (unless urgent ones keep overtaking it) |
| `server` | connections are accounted for, no thread is in use that `_currentThreads` does not count and never more than `maxThreads` are, the statistics agree (also the maximum), nothing is queued after `stop()`, the reference count protects threads inside `run()`, one thread stays and queued connections are fetched (unless the factory failed or no thread was ever granted), `stop()` ends every thread |
| `timer` | a stopped timer is quiet, invocations stay on the grid and `skipped()` is exact, an undisturbed timer keeps firing whatever signal an earlier life left over, `stop()` by one thread returns unless the timer was refused a thread or is revived by a new interval |
| `utimer` | the iterator never dangles, the thread never oversleeps, nothing is executed early; when `cancel(true)` returns nothing scheduled before it is queued or running; a cancelled task stops for good; `cancel(true)` and the destructor return unless another command was pending |
| `active` | the result of a called method arrives, also when it throws, unless it was cleared; one activity at a time, over before its object (unless restarted in the window of `Activity.h:202`); the destructor ends wherever the threads are |
| `sessions` | sessions are counted exactly and have one owner; no transaction and no pool default is lost on the way to the next client, also when `rollback()` fails; after `shutdown()` only sessions whose `close()` threw are connected, and only while a client has them; every call returns unless `shutdown()` meets the janitor's callback |

### Runs that find what a doc, comment or test says violated

| Run | What happens |
|---|---|
| `pool_stop_null` | `stopAll()` clears `_pTarget` between `run()`'s check and its call: a call through null |
| `tm_join_deadlock` | `joinAll()`, another client's `start()` and a finishing task wait for each other |
| `server_thread_leak` | `createConnection()` throws: the thread ends, `_currentThreads` counts it for ever |
| `utimer_lost_stop` | a pending `cancel()` clears the destructor's StopNotification: the destructor never returns |

### Known limits of the code that have no run of their own

The models contain these behaviours, and the properties leave them aside. Where a
document says otherwise it is quoted.

- `ThreadPool.cpp:192`: `stopAll()` right after `start()` clears the target of a
  thread that has not woken up yet; the accepted target never runs.
- `Task.cpp:84`: a `cancel()` before the first statement of `Task::run()` is
  overwritten by `TASK_RUNNING`.
- `Task.cpp:62`, `102`: `cancelAll()` between `TASK_FINISHED` and the removal from
  the list leaves the task in `TASK_CANCELLING` for good.
- `TCPServerDispatcher.cpp:171`: when the pool refuses the first thread, the queued
  connection waits until another one arrives (`FetchedByAThread` is about a
  dispatcher that has a thread).
- `TCPServerDispatcher.cpp:121`: `run()` takes its reference itself ("ensure object stays
  alive"); a server that is destroyed between the pool's acceptance and that
  statement deletes the dispatcher first (`GuardHolds` is about threads that are past
  it).
- `Timer.cpp:103`: of two concurrent `stop()` one waits for ever; `Timer.cpp:91`: so
  does `stop()` after a `start()` the pool refused, and with it the destructor, which
  "Stops and destroys the timer" (`StopReturns` excludes the second; in `timer` only one
  thread stops, which excludes the first).
- `Timer.cpp:191`: `restart()` ends a one-shot timer that has not fired.
- `Timer.cpp:127`: `restart(ms)` by another thread after `stop()` has set the interval to
  zero revives the timer, and `stop()` waits for ever (`StopReturns` excludes it).
- `Util/src/Timer.cpp:266`: of two pending `cancel(true)` the one executed second was
  cleared by the first, and its caller waits for ever (`CommandsFinish` excludes it).
- `Activity.h:202`: a `start()` between `_running = false` and `_done.set()` has its
  reset of `_done` undone: `wait()` and the destructor return while the activity
  runs (`StoppedBeforeDestroyed` excludes it), although "Activities are stopped
  before the object they belong to is destroyed" (`Activity.h:68`).
- `Activity.h:203`: `wait()` does not wait once `_running` is false, so the destructor
  may be past the activity when its thread calls `_done.set()`: the event is destroyed
  by then. `StoppedBeforeDestroyed` is about the activity's method and lets the
  thread be in that place.
- `Activity.h:143`: a `wait()` concurrent with a refused `start()` may wait for ever; in
  the model one thread calls both.
- `ActiveDispatcher.cpp:105`: `cancel()` leaves the callers of the cleared methods waiting
  (`ResultArrives` excludes them). `cancel()` called from a running method while the
  destructor waits would remove the StopNotification; in the model nobody calls
  an object that is being destroyed.
- `SessionPool.cpp:298`: `shutdown()` waits for the janitor's callback with the mutex
  that callback needs (`CallsReturn` excludes it, as `JanitorDeadlock`).
- `SessionPool.cpp:279`: the janitor leaves dead sessions alone once the pool is down to
  its minimum, and only `get()` purges them; `SessionPool.h:75-82` says that they are
  purged on the janitor's event and that "Not connected idle sessions can not exist".
- `SessionPool.cpp:71`: `get(name, value)` saves the old value under the
  `PooledSessionImpl` and `putBack()` looks it up under the `SessionImpl` (line 252): a
  feature without a pool default reaches the next client, although it "is reset back
  to the pool value when the session is reclaimed by the pool" (`SessionPool.h:136`).
  `IdleSessionsClean` is about features with a pool default. The maps of saved values
  are changed without the mutex.
- `PooledSessionImpl.cpp:160`: a session that outlives its pool calls it.
- `PooledSessionImpl.cpp:157`: a `close()` that throws while the failed `rollback()` is
  handled leaves the session with its client; `~PooledSessionImpl()` calls the same
  function.

`taskState` and `cancelEvent` of `TaskManager` are there for the two limits of `Task.cpp`
above; no property reads them.

### Bounds, and why they are enough

- Pool: 2 clients, of which one may stop the pool, 2 targets, 2 addresses for
  pooled threads, minimum 1, maximum 2 (`CapacityBound` 2 caps `addCapacity`),
  housekeeping in every `start()` instead of every 32nd. Two clients meet each
  other in every pair of positions; two targets fill the pool, so that starts are
  refused; housekeeping happens between any two starts. The theorems cover the
  larger instances: their invariant is checked here and proved for every size.
  `tm` uses a pool of one thread, where everybody waits for the same one and a
  second start is refused; the task list needs no second thread to go wrong.
- Queue: one consumer of each kind and one that does everything; 4
  notifications, one urgent: three can wait in `WaitInfo`s while one is queued.
- Server: up to 2 connection threads, 3 addresses (one leaving while two run), 3
  connections and a queue of at most 2, a pool that refuses, a factory that fails,
  an accept thread that cannot be started, `stop()` and destruction at any time, all in
  one run. A connection arrives once.
- Timer: intervals 0, 1 and 3 milliseconds, lateness up to `MaxLag` = 4, so that up to
  four invocations are skipped; two application threads, refused starts, and a
  callback that changes the interval.
- Util::Timer: 2 users that cancel and wait or destroy the timer, one task scheduled in
  all three ways, possibly twice at once, with delays 0 and 1 and interval 1, a clock
  that goes up to 3, and an application that sees at most 2 queued entries
  (`QueueBound`) when it schedules: a task due now, one due later, a repeated one that
  re-enqueues itself and both commands meet in every order.
- Active object: two methods, two threads of the pool (one may still have to set `_done`
  while the next run is on), and one owner.
- Session pool: 3 clients (one of them tunes features, two may call `shutdown()`), 2
  sessions whose `rollback()` and `close()` may fail, minimum 1, maximum 2: a third client meets an exhausted pool, the
  janitor has one session to close and one to keep, and two shutdowns race.

Only `pool_stop_null`, an invariant, uses symmetry, over objects no definition tells
apart. Deadlock checking is off where the system may stop: a stopped
pool, server or session pool, a destroyed timer or active object, and the `TaskManager`
instances in which the deadlock of `tm_join_deadlock` is reachable.

### Fairness

A thread inside the library's code is eventually scheduled (weak fairness of its
steps); targets, connections and callbacks return; a wait with a time-out ends;
time passes. Nobody is obliged to call anything, connections need not arrive,
the consumers of `queue` do dequeue again, and no wait there needs to time out. POCO's
mutexes are the platform's and not fair: where a thread must win a mutex that
others may take again and again (`TasksLeave`, `JoinAllReturns`), the property
carries the hypothesis `Quiet` that the clients eventually stop competing. In
`active` the activity's method returns only once it is asked to stop, as its
documentation demands of it; in `utimer` the clock need not advance for the
properties, and a task's `run()` returns; in `sessions` the database, the
clients and the janitor's timer are free to do nothing.
`runTask()` may report progress arbitrarily often, so its return needs strong
fairness.

## 4. Theorems

All are proved by TLAPS, for every value of the constants that satisfies the
`...Assumption` of the module: any number of clients, threads, tasks,
notifications, connections and sessions, any capacities and intervals. Every
invariant and every action property that a passing run checks is the
statement of a theorem, and so is the refinement of `Executor`. A theorem's
invariant was first checked by TLC on the bounds of section 3.

**ThreadPoolProofs** (from `PoolAssumption`, the constraints the constructor
asserts).

- `TypeCorrect` and `PoolInvariant`: `Spec => []TypeOK`, and `Spec => []PoolInv`, the
  inductive invariant `Closing \/ OpenInv` of a pool until `stopAll()` is called.
- `AcceptedIsHeld`, `MinimumIsKept`, `NullNeverCalled`: what it says of accepted
  targets, of the minimum and of the second read of `_pTarget`. They say
  something only until `stopAll()`, and `pool_stop_null` shows why the last one
  cannot say more.
- `AssertionsNeverFail`, `HousekeepReleasesIdle`, `StopAllIsComplete`: hold with
  `stopAll()` included.
- `PoolIsExecutor`: `Spec => ImplementsExecutor`, every step of the pool is a step of
  `Executor` or invisible to it.

The argument: none of these properties is inductive. What makes them true is who
may touch a pooled thread: the holder of the pool's mutex (`MutexInv`,
`LoopInv`: what housekeeping has classified partitions `_threads`, and an expired
thread stays idle while the pool is locked, because only `activate()`, under the
same lock, clears `_idle`); the client that obtained it from `getThread()`
(`HandoffInv`: it is busy, has no target and belongs to one client, although the
pool is unlocked by then); or the thread itself (`ThreadInv`: the event is signalled
exactly while a target waits for the thread, so `run()` never wakes up to null).
`FateInv` relates this to the targets. The minimum follows from counting the
partition when `_threads` is rebuilt. For `stopAll()`, `AllocInv` says that no object
gets out of sight while the pool is open (it is in `_threads`, in the list of those
to be released, being joined, or given up), and `StopInv` that the client in
`stopAll()` is alone with what is left to release. For the refinement, `JoinInv` says
that `joinAll()` still has to wait only for targets of threads its loop has yet to
visit; `CompletedInv`, that `_targetCompleted` is never set while a target is there or
about to be assigned, so a finished wait means a finished target; `HoldInv`, which
thread has which target also while the pool is being stopped.

**TaskManagerProofs.** `UsesPool`: `TMSpec => Spec`, so the pool's theorems hold under a
manager (`TasksNeverDropped`, `TasksAreExecuted`; the manager never stops its
pool, so they hold without a condition). `ListIsExact` is the theorem about the
list. It needs, in `TMInv`, that the manager's mutex protects `start()` from the
insertion to the pool's answer (`ManagerInv`: the task it works on stays the last
one of the list, a thread has it when the pool's `start()` returned and none when it
threw) and that a task is inside `Task::run()` exactly while its thread runs it
(`TaskRunInv`).

**NotificationQueueProofs.** `NotificationsKept`, `BacklogIsServed`, `WaitersReachable`: the three
safety properties of `queue` are inductive together and not one by one: a
notification may be handed to the first waiter only because the queue is empty
whenever somebody waits, and the waiter can be found because `_waitQueue` lists it.

**TCPServerProofs.** `UsesQueue`: `ServerSpec => Spec` of the queue, whose invariant is
thereby available. `ThreadsBounded`, `ConnectionsExact`, `GuardProtects` and
`LastThreadStays` (the safety half of `FetchedByAThread`) follow from `ServerInv`: each
counter is the cardinality of a set of threads or connections (`CountInv`, which also counts
the failures of the factory, `RefInv`, `StatInv`), a connection is in one place (`PlaceInv`), and the accept thread only
starts a thread when there is room and is gone before `stop()` clears the queue
(`ControlInv`).

**ActiveObjectProofs.** `UsesDispatcherQueue`: `AOSpec => Spec` of the queue. `NeverTwoRuns`, and
`ActivityEndsFirst`, which needs `RunInv`: unless a restart has overtaken the end of the
previous run, one thread at most is between a start and its `_done.set()`, and
`_done` is not set before it gets there.

**UtilTimerProofs.** `IteratorValid`, `QueueOrdered`, `WakesUp`, `ExecutesOnTime`, `CancelIsComplete`, from
`UTInv`: the queue is sorted; the iterator is valid where the thread uses it and its
entry's time has come where it is erased (`ThreadInv`); and a `cancel(true)` has its
command on the way until it is told, once, after the purge (`CancelInv`).
`NoMissedWakeup` is inductive only in its strong form: an entry earlier than the one
the thread sleeps for implies a set event.

**SessionPoolProofs.** `SessionsExact`, `CleanHandover` and `ClosedAfterShutdown`, from `SPInv`: the mutex is held
across steps only inside `shutdown()` (`LockInv`); until its last step the active
list is what the clients hold and an open connection is in a list, and from then on
a connection is open only if its `close()` threw and a client has the session
(`HolderInv`); a session that comes to `putBack()` connected has no transaction
(`CleanInv`), because a failed `rollback()` closes it.

**TimerProofs.**

- `StoppedIsQuiet`: `TimerSpec => []QuietWhenStopped`, for any number of threads that
  stop, restart and start, with refused starts. The invariant `DoneToken`
  treats `_done` as a token: made once when the thread leaves its loop, taken by
  one `stop()`, spent when that `stop()` deletes the callback. The token
  explains both why nothing calls a deleted callback and why a second
  `stop()` waits for ever.
- `StaysOnGrid`: `TimerSpec => []OnGrid`. `RoundInv` says where a round begins;
  `MissedExists` that the inner loop's number of skipped intervals exists, by division.
  It rests on `StoppedIsQuiet`: a `start()` the pool refuses moves
  `_nextInvocation`, which is harmless only because no thread is in `run()` then.

The lemmas on sequences without repetition are stated in `NotificationQueueProofs` for the queue
and in `TaskManagerProofs` for the task list: the two developments cannot be
extended together, because both name their specification `Spec`.

**Only model-checked**: the liveness properties and the half of `FetchedByAThread` that is
one (liveness under fairness is outside the prover's reach), and the four runs
that find violations.

## 5. Hazards

`PROJECT.json` lists the most important ones at their lines, with the properties
that watch them. Nine of them no property covers. Two need the callee in the
model: `Task::setProgress()` calls observers with mutexes held (so does
`NotificationQueue::dispatch()`), and `TCPServerDispatcher::enqueue()` calls the
pool with its own mutex held (with `ThreadPool::joinAll()` elsewhere this is the
deadlock of `tm_join_deadlock` again). The others are defects the
models have and the properties exclude: a connection no thread could be started
for, a dispatcher deleted before its thread enters `run()`, a `stop()` of a timer
that was refused, is stopped twice or is restarted meanwhile, an activity that is
restarted while it ends, and the callers of methods that `ActiveDispatcher::cancel()`
clears. "Known limits" above names them, with what is left to the application.

## 6. Plan

Done: `ThreadPool` and `Executor`, `TaskManager`, `NotificationQueue`, `TCPServer`, `Timer`,
`UtilTimer`, `ActiveObject`, `SessionPool`, with the proofs of their safety properties. Next, in
this order:

1. Abstract specifications with their refinement proofs: a bag with blocking take
   for `NotificationQueue`; the server as a queue with at most `MaxThreads` servers.
2. `TCPServer` over `ThreadPool` in place of the contract, for the mutex cycle.
3. The caches (expiry against access), `AsyncChannel` and the socket reactor.

## 7. What is left out

- Thread names, priorities, stack sizes, stack traces, and the read-only queries.
- Observers and connection factories that call back into the library.
- `TCPServer::start()` after `stop()`, which its documentation excludes.
- `Timer::stop()` from the timer's own callback, which its documentation excludes, and
  `start()` of a timer that is already started, which it asserts against. The code
  evaluates that assertion before it locks `_mutex` (`Timer.cpp:85`); the model looks
  and sets in one step, which tells a difference only for two concurrent `start()`.
- The timed waits of `ActiveResult` and `Activity`, the `ActiveStarter` that takes a pool
  thread per method, and the operations of `TimedNotificationQueue` that
  `Util::Timer` does not call; with a second consumer its iterator could dangle.
- Sessions that a client reopens, or whose pool is destroyed before them.
- Once a thread has used a deleted object or a null pointer, what the process does
  then: the models let that thread go no further.
- Memory order: the flags that are read without a mutex (`_idle`, `_stopped`,
  `_periodicInterval`) are read as they were last written.
