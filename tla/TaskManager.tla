---------------------------- MODULE TaskManager -----------------------------
(***************************************************************************)
(* Poco::TaskManager and Poco::Task on top of the ThreadPool               *)
(* (src/Foundation/src/TaskManager.cpp, src/Foundation/src/Task.cpp).      *)
(*                                                                         *)
(* The pool's Targets are Task objects and its Clients call the task       *)
(* manager.  start() holds the manager's _mutex across the whole call of   *)
(* ThreadPool::start(), and a pooled thread needs the same mutex in        *)
(* taskProgress() and taskFinished(): the steps of the pool are therefore  *)
(* the pool's own actions, interleaved with the ones below.  Observers are *)
(* the application's; they are assumed not to call the manager back.       *)
(* _state is an enumeration written without a lock: every write is a step. *)
(***************************************************************************)
EXTENDS ThreadPool, SequencesExt

CONSTANT Cancellers    \* the clients that call cancelAll() and Task::cancel()

ASSUME TaskAssumption ==
    /\ Cancellers \subseteq Clients
    /\ Clients \cap Threads = {}

VARIABLES
    \* --- members of the TaskManager object
    tmMutex,      \* owner of _mutex: a client or a pooled thread
    taskList,     \* _taskList
    \* --- members of the Task objects
    taskState,    \* _state
    cancelEvent,  \* state of the manual-reset event _cancelEvent
    \* --- control
    mpc,          \* where the client is in the manager's code
    marg,         \* the task it passed to start()
    cancelling,   \* tasks cancelAll()'s loop has yet to visit
    rpc           \* where the pooled thread is in Task::run()

taskVars == <<taskState, cancelEvent>>
tmVars   == <<tmMutex, taskList, taskVars, mpc, marg, cancelling, rpc>>
allVars  == <<vars, tmVars>>

ManagerPC == {"app", "lockStart", "starting", "joining", "lockCancel", "cancel"}
RunPC     == {"none", "started", "task", "progress", "finished", "done"}
TaskStates == {"IDLE", "STARTING", "RUNNING", "CANCELLING", "FINISHED"}

Listed == Range(taskList)

\* Type invariant of the manager's own state.
TMTypeOK ==
    /\ TypeOK
    /\ tmMutex \in Clients \cup Threads \cup {None}
    /\ taskList \in Seq(Targets)
    /\ taskState \in [Targets -> TaskStates]
    /\ cancelEvent \in [Targets -> BOOLEAN]
    /\ mpc \in [Clients -> ManagerPC]
    /\ marg \in [Clients -> Targets \cup {None}]
    /\ cancelling \subseteq Targets
    /\ rpc \in [Threads -> RunPC]

TMInit ==
    /\ Init
    /\ tmMutex = None
    /\ taskList = <<>>
    /\ taskState = [t \in Targets |-> "IDLE"]
    /\ cancelEvent = [t \in Targets |-> FALSE]
    /\ mpc = [c \in Clients |-> "app"]
    /\ marg = [c \in Clients |-> None]
    /\ cancelling = {}
    /\ rpc = [th \in Threads |-> "none"]

-----------------------------------------------------------------------------
(* TaskManager::start().                                                   *)

MGoto(c, label) == mpc' = [mpc EXCEPT ![c] = label]

\* A task nobody has handed to the manager.
AtRest(t) == fate[t] = "rest" /\ t \notin Listed /\ \A c \in Clients : marg[c] # t

CallTaskStart(c, t) ==
    /\ mpc[c] = "app" /\ "start" \in ClientOps[c] /\ AtRest(t)
    /\ MGoto(c, "lockStart")
    /\ marg' = [marg EXCEPT ![c] = t]
    /\ UNCHANGED <<vars, tmMutex, taskList, taskVars, cancelling, rpc>>

\* _mutex is taken, the task is owned, STARTING and listed, and
\* ThreadPool::start() is called with the mutex held.
StartTask(c) ==
    /\ mpc[c] = "lockStart"
    /\ tmMutex = None
    /\ tmMutex' = c
    /\ taskState' = [taskState EXCEPT ![marg[c]] = "STARTING"]
    /\ taskList' = Append(taskList, marg[c])
    /\ CallStart(c, marg[c])
    /\ MGoto(c, "starting")
    /\ UNCHANGED <<cancelEvent, marg, cancelling, rpc>>

\* Mutant: the handler takes the wrong end of the list.
WithoutFirst == Tail(taskList)
WithoutLast == Front(taskList)

\* ThreadPool::start() returned, or threw and the handler takes the last
\* task off the list again; the mutex is unlocked.
EndStart(c) ==
    /\ mpc[c] = "starting"
    /\ taskList' = IF pc[c] = "throw" THEN WithoutLast ELSE taskList
    /\ tmMutex' = None
    /\ Return(c)
    /\ MGoto(c, "app")
    /\ marg' = [marg EXCEPT ![c] = None]
    /\ UNCHANGED <<taskVars, cancelling, rpc>>

-----------------------------------------------------------------------------
(* TaskManager::joinAll(), and the pool's own steps.                       *)

CallJoinAll(c) ==
    /\ mpc[c] = "app"
    /\ CallOther(c, "joinAll")
    /\ MGoto(c, "joining")
    /\ UNCHANGED <<tmMutex, taskList, taskVars, marg, cancelling, rpc>>

EndJoinAll(c) ==
    /\ mpc[c] = "joining"
    /\ Return(c)
    /\ MGoto(c, "app")
    /\ UNCHANGED <<tmMutex, taskList, taskVars, marg, cancelling, rpc>>

InPool(c) == PoolStep(c) /\ UNCHANGED tmVars

-----------------------------------------------------------------------------
(* TaskManager::cancelAll(), Task::cancel() and Task::reset().             *)

SetCancelled(t) ==
    /\ taskState' = [taskState EXCEPT ![t] = "CANCELLING"]
    /\ cancelEvent' = [cancelEvent EXCEPT ![t] = TRUE]

CallCancelAll(c) ==
    /\ mpc[c] = "app" /\ c \in Cancellers
    /\ MGoto(c, "lockCancel")
    /\ UNCHANGED <<vars, tmMutex, taskList, taskVars, marg, cancelling, rpc>>

BeginCancelAll(c) ==
    /\ mpc[c] = "lockCancel"
    /\ tmMutex = None
    /\ tmMutex' = c
    /\ cancelling' = Listed
    /\ MGoto(c, "cancel")
    /\ UNCHANGED <<vars, taskList, taskVars, marg, rpc>>

CancelNext(c) ==
    /\ mpc[c] = "cancel"
    /\ \E t \in cancelling : SetCancelled(t) /\ cancelling' = cancelling \ {t}
    /\ UNCHANGED <<vars, tmMutex, taskList, mpc, marg, rpc>>

\* Mutant: the mutex stays locked.
StaysLocked == tmMutex
Unlocked == None

EndCancelAll(c) ==
    /\ mpc[c] = "cancel" /\ cancelling = {}
    /\ tmMutex' = Unlocked
    /\ MGoto(c, "app")
    /\ UNCHANGED <<vars, taskList, taskVars, marg, cancelling, rpc>>

\* Task::cancel() on a task the application keeps a pointer to.
CancelTask(c, t) ==
    /\ mpc[c] = "app" /\ c \in Cancellers /\ t \in Listed
    /\ SetCancelled(t)
    /\ UNCHANGED <<vars, tmMutex, taskList, mpc, marg, cancelling, rpc>>

\* Task::reset(), or a new Task object: before the task is started (again).
Reset(c, t) ==
    /\ mpc[c] = "app" /\ AtRest(t) /\ taskState[t] # "IDLE"
    /\ taskState' = [taskState EXCEPT ![t] = "IDLE"]
    /\ cancelEvent' = [cancelEvent EXCEPT ![t] = FALSE]
    /\ UNCHANGED <<vars, tmMutex, taskList, mpc, marg, cancelling, rpc>>

-----------------------------------------------------------------------------
(* Task::run(), called by the pooled thread.                               *)

RGoto(th, label) == rpc' = [rpc EXCEPT ![th] = label]

\* PooledThread::run() calls Task::run(), which posts TaskStarted.
EnterRun(th) ==
    /\ WorkerRun(th)
    /\ RGoto(th, IF wpc'[th] = "run" THEN "started" ELSE "none")
    /\ UNCHANGED <<tmMutex, taskList, taskVars, mpc, marg, cancelling>>

\* _state = TASK_RUNNING, whatever cancel() has made of it before.
BeginTask(th) ==
    /\ rpc[th] = "started"
    /\ taskState' = [taskState EXCEPT ![running[th]] = "RUNNING"]
    /\ RGoto(th, "task")
    /\ UNCHANGED <<vars, tmMutex, taskList, cancelEvent, mpc, marg, cancelling>>

\* runTask() calls setProgress(): the thread waits for the manager's mutex.
SetProgress(th) ==
    /\ rpc[th] = "task"
    /\ RGoto(th, "progress")
    /\ UNCHANGED <<vars, tmMutex, taskList, taskVars, mpc, marg, cancelling>>

\* taskProgress() locks, notifies if 100 milliseconds have gone by, unlocks.
TaskProgress(th) ==
    /\ rpc[th] = "progress"
    /\ tmMutex = None
    /\ RGoto(th, "task")
    /\ UNCHANGED <<vars, tmMutex, taskList, taskVars, mpc, marg, cancelling>>

\* runTask() returned, or threw and taskFailed() was posted.
EndTask(th) ==
    /\ rpc[th] = "task"
    /\ taskState' = [taskState EXCEPT ![running[th]] = "FINISHED"]
    /\ RGoto(th, "finished")
    /\ UNCHANGED <<vars, tmMutex, taskList, cancelEvent, mpc, marg, cancelling>>

\* Mutant: the finished task is not looked for.
WithoutNone(t) == taskList
Without(t) == RemoveFirst(taskList, t)

\* taskFinished() takes the mutex and the task off the list.
TaskFinished(th) ==
    /\ rpc[th] = "finished"
    /\ tmMutex = None
    /\ taskList' = Without(running[th])
    /\ RGoto(th, "done")
    /\ UNCHANGED <<vars, tmMutex, taskVars, mpc, marg, cancelling>>

LeaveRun(th) ==
    /\ rpc[th] = "done"
    /\ WorkerComplete(th)
    /\ RGoto(th, "none")
    /\ UNCHANGED <<tmMutex, taskList, taskVars, mpc, marg, cancelling>>

-----------------------------------------------------------------------------
\* A client inside the code of the manager or of the pool.
ManagerStep(c) ==
    \/ StartTask(c) \/ EndStart(c) \/ EndJoinAll(c) \/ InPool(c)
    \/ BeginCancelAll(c) \/ CancelNext(c) \/ EndCancelAll(c)

\* A pooled thread outside the application's runTask().
TaskStep(th) ==
    \/ (WorkerWake(th) \/ WorkerCheck(th)) /\ UNCHANGED tmVars
    \/ EnterRun(th) \/ BeginTask(th) \/ TaskProgress(th)
    \/ TaskFinished(th) \/ LeaveRun(th)

TMNext ==
    \/ \E c \in Clients :
         \/ \E t \in Targets :
              CallTaskStart(c, t) \/ CancelTask(c, t) \/ Reset(c, t)
         \/ CallJoinAll(c) \/ CallCancelAll(c) \/ ManagerStep(c)
    \/ \E th \in Threads :
         \/ TaskStep(th) \/ SetProgress(th) \/ EndTask(th)
         \/ Expire(th) /\ UNCHANGED tmVars

TMSpec == TMInit /\ [][TMNext]_allVars

\* Threads inside POCO's code are scheduled; runTask() returns after finitely
\* many steps.  No mutex is granted in a fair order.
TMFairness ==
    /\ \A c \in Clients : WF_allVars(ManagerStep(c))
    /\ \A th \in Threads : WF_allVars(TaskStep(th)) /\ SF_allVars(EndTask(th))

TMFairSpec == TMSpec /\ TMFairness

-----------------------------------------------------------------------------
(* Properties.                                                             *)

\* The list holds, once each, the tasks start() is working on and the ones
\* it has handed to the pool until their own taskFinished(): a pooled thread
\* never holds a pointer to a task whose last reference is gone, a failed
\* start() takes back its own task and no other.
TaskListExact ==
    /\ TMTypeOK
    /\ IsInjective(taskList)
    /\ Listed = {t \in Targets :
                   \/ \E c \in Clients : mpc[c] = "starting" /\ marg[c] = t
                   \/ \E th \in Threads : target[th] = t /\ rpc[th] # "done"}

\* The clients stop calling some day: POCO's mutexes are not fair, and a client
\* that locks again and again may starve the others.
Quiet == <>[][\A c \in Clients : mpc[c] = "app" => mpc'[c] = "app"]_allVars

\* joinAll() "waits for the completion of all the threads" and returns when
\* they have completed.
JoinAllReturns ==
    Quiet => \A c \in Clients : mpc[c] = "joining" ~> mpc[c] # "joining"

\* The cycle that blocks joinAll(): it holds the pool's mutex and waits for a
\* task, which waits for the manager's mutex, which start() holds while it
\* waits for the pool's.
Cycle ==
    \E c, d \in Clients, th \in Threads :
        /\ poolMutex = c /\ pc[c] = "joinWait" /\ cur[c] = th
        /\ rpc[th] \in {"progress", "finished"}
        /\ tmMutex = d /\ mpc[d] = "starting" /\ pc[d] = "lock"

\* joinAll() returns unless that cycle is closed, whatever is cancelled: it is
\* the only way in which the two mutexes and the tasks can block each other.
JoinAllReturnsOrCycle ==
    Quiet => \A c \in Clients : mpc[c] = "joining" ~> (mpc[c] # "joining" \/ []Cycle)

\* Every task the list holds is taken off it again, unless that cycle is closed.
TasksLeave ==
    Quiet => \A t \in Targets : t \in Listed ~> (t \notin Listed \/ []Cycle)
=============================================================================
