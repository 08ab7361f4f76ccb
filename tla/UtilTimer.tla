----------------------------- MODULE UtilTimer ------------------------------
(***************************************************************************)
(* Poco::Util::Timer (src/Util/src/Timer.cpp) on the TimedNotificationQueue*)
(* it owns (src/Foundation/src/TimedNotificationQueue.cpp).                *)
(*                                                                         *)
(* All operations put a notification into a multimap ordered by time; the  *)
(* timer's one thread takes them out and executes them.  The commands of   *)
(* cancel() and of the destructor go in at Clock(0), before every task.    *)
(* The thread keeps an iterator across an unlock and a wait: it is an      *)
(* index that moves when something is inserted before it.  An application  *)
(* thread's call is one step up to the point where it waits.               *)
(***************************************************************************)
EXTENDS Integers, FiniteSets, SequencesExt

CONSTANTS
    Users,       \* threads that call cancel(true) or destroy the timer
    Tasks,       \* TimerTask objects
    Kinds,       \* which of schedule (once, periodic), scheduleAtFixedRate
    Delays,      \* how far ahead a task is scheduled
    Interval,    \* of the repeated tasks
    MaxTime,     \* bound on the clock
    QueueBound,  \* bound on the queue the application observes
    None

\* before: the users whose cancel(true) was called after the notification
\* was scheduled (history).
Entries == [at : Nat, kind : Kinds \cup {"cancel", "stop"},
            owner : Users \cup Tasks \cup {None}, before : SUBSET Users]

ASSUME UtilTimerAssumption ==
    /\ Kinds \subseteq {"once", "periodic", "fixed"}
    /\ Delays \subseteq Nat /\ Interval \in Nat /\ MaxTime \in Nat \ {0} /\ QueueBound \in Nat
    /\ None \notin Users \cup Tasks \cup Entries

VARIABLES
    now,        \* the monotonic clock
    queue,      \* _nfQueue: [at, kind, owner, before], sorted by at
    available,  \* _nfAvailable, an auto-reset event
    tpc,        \* where the timer's thread is
    it,         \* waitDequeueNotification()'s iterator
    nf,         \* the notification run() executes
    cancelled,  \* TimerTask::_isCancelled
    finished,   \* users whose CancelNotification::_finished is set
    upc,        \* where the user is
    crowded     \* history: users whose command found another one pending

utVars == <<now, queue, available, tpc, it, nf, cancelled, finished, upc, crowded>>

\* Type invariant; a repeated task and the stop command may exceed the bound.
UTTypeOK ==
    /\ now \in 1 .. MaxTime
    /\ queue \in Seq(Entries) /\ Len(queue) <= QueueBound + 2
    /\ available \in BOOLEAN
    /\ tpc \in {"begin", "sleep", "dequeue", "wait", "execute", "run", "after", "finish", "done"}
    /\ it \in Nat
    /\ nf \in Entries \cup {None}
    /\ cancelled \in [Tasks -> BOOLEAN]
    /\ finished \subseteq Users
    /\ upc \in [Users -> {"app", "cancelWait", "join", "gone"}]
    /\ crowded \subseteq Users

UTInit ==
    /\ now = 1
    /\ queue = <<>>
    /\ available = FALSE
    /\ tpc = "begin"
    /\ it = 0
    /\ nf = None
    /\ cancelled = [t \in Tasks |-> FALSE]
    /\ finished = {}
    /\ upc = [u \in Users |-> "app"]
    /\ crowded = {}

-----------------------------------------------------------------------------
(* TimedNotificationQueue.                                                 *)

\* Mutant: the consumer is only told when the queue was empty.
SignalledWhenEmpty == available \/ queue = <<>>

\* _nfAvailable.set()
Signalled == TRUE

\* enqueueNotification(): behind everything that is not later; q is the queue.
Enqueue(q, e) ==
    LET p == Cardinality({i \in DOMAIN q : q[i].at <= e.at}) + 1
    IN  /\ queue' = InsertAt(q, p, e)
        /\ it' = IF it >= p THEN it + 1 ELSE it
        /\ available' = Signalled

\* waitDequeueNotification() looks at the first entry, unlocks and compares
\* its time with the clock.
Begin ==
    /\ tpc = "begin"
    /\ \/ /\ queue = <<>>
          /\ tpc' = "wait"
          /\ UNCHANGED it
       \/ /\ queue # <<>>
          /\ it' = 1
          /\ tpc' = IF queue[1].at <= now THEN "dequeue" ELSE "sleep"
    /\ UNCHANGED <<now, queue, available, nf, cancelled, finished, upc, crowded>>

\* _nfAvailable.wait(), or wait(sleep) returned true: look again.
Woken ==
    /\ tpc \in {"wait", "sleep"} /\ available
    /\ available' = FALSE
    /\ tpc' = "begin"
    /\ it' = 0
    /\ UNCHANGED <<now, queue, nf, cancelled, finished, upc, crowded>>

\* Mutant: any return from wait(sleep) means that the time has come.
SleptEnoughAlways == TRUE

\* wait(sleep) slept until the time of the iterator's entry.
SleptEnough == queue[it].at <= now

\* The wait times out, even if the event is set at that moment.
SleepEnds ==
    /\ tpc = "sleep" /\ SleptEnough
    /\ tpc' = "dequeue"
    /\ UNCHANGED <<now, queue, available, it, nf, cancelled, finished, upc, crowded>>

\* dequeueOne() erases the iterator's entry.
DequeueOne ==
    /\ tpc = "dequeue"
    /\ nf' = queue[it]
    /\ queue' = RemoveAt(queue, it)
    /\ it' = 0
    /\ tpc' = "execute"
    /\ UNCHANGED <<now, available, cancelled, finished, upc, crowded>>

-----------------------------------------------------------------------------
(* Timer::run(): the execute() of the notifications.                       *)

\* StopNotification: the queue is cleared and run() returns.
ExecuteStop ==
    /\ tpc = "execute" /\ nf.kind = "stop"
    /\ queue' = <<>>
    /\ nf' = None
    /\ tpc' = "done"
    /\ UNCHANGED <<now, available, it, cancelled, finished, upc, crowded>>

\* Mutant: only the next notification is removed.
PurgedFirstOnly == IF queue = <<>> THEN <<>> ELSE Tail(queue)

\* queue().clear()
Purged == <<>>

\* CancelNotification clears the queue ...
ExecuteCancel ==
    /\ tpc = "execute" /\ nf.kind = "cancel"
    /\ queue' = Purged
    /\ tpc' = "finish"
    /\ UNCHANGED <<now, available, it, nf, cancelled, finished, upc, crowded>>

\* Mutant: the event is forgotten.
FinishedAfterNever == finished

\* _finished.set(): nobody waits for the one of a cancel(false).
FinishedAfter == finished \cup ({nf.owner} \cap Users)

\* ... and tells the waiting caller.
FinishCancel ==
    /\ tpc = "finish"
    /\ finished' = FinishedAfter
    /\ nf' = None
    /\ tpc' = "begin"
    /\ UNCHANGED <<now, queue, available, it, cancelled, upc, crowded>>

\* Mutant: the flag is not looked at.
IsCancelledNever(t) == FALSE

\* TimerTask::isCancelled(), read without a lock.
IsCancelled(t) == cancelled[t]

\* TaskNotification: the task's run() is called unless it is cancelled.
ExecuteTask ==
    /\ tpc = "execute" /\ nf.kind \in Kinds
    /\ tpc' = IF IsCancelled(nf.owner) THEN "after" ELSE "run"
    /\ UNCHANGED <<now, queue, available, it, nf, cancelled, finished, upc, crowded>>

\* run() returned or threw (the ErrorHandler swallows the exception).
TaskReturns ==
    /\ tpc = "run"
    /\ tpc' = "after"
    /\ UNCHANGED <<now, queue, available, it, nf, cancelled, finished, upc, crowded>>

\* PeriodicTaskNotification counts from the end of the run, FixedRate from
\* the time that was due, but not into the past.
NextExecution ==
    IF nf.kind = "periodic" THEN now + Interval
    ELSE IF nf.at + Interval < now THEN now ELSE nf.at + Interval

\* A repeated task that is not cancelled enqueues its notification again.
AfterTask ==
    /\ tpc = "after"
    /\ \/ /\ nf.kind # "once" /\ ~IsCancelled(nf.owner)
          /\ Enqueue(queue, [nf EXCEPT !.at = NextExecution])
       \/ /\ nf.kind = "once" \/ IsCancelled(nf.owner)
          /\ UNCHANGED <<queue, it, available>>
    /\ nf' = None
    /\ tpc' = "begin"
    /\ UNCHANGED <<now, cancelled, finished, upc, crowded>>

-----------------------------------------------------------------------------
(* The application.                                                        *)

\* Nobody calls a timer that is being destroyed.
Destroyed == \E u \in Users : upc[u] \in {"join", "gone"}

Open == ~Destroyed /\ Len(queue) < QueueBound

\* schedule() and scheduleAtFixedRate(), for a delay, a Clock or a Timestamp
\* (converted to the clock): a time in the past is as good as now.
Schedule(t, k, d) ==
    /\ Open
    /\ Enqueue(queue, [at |-> now + d, kind |-> k, owner |-> t, before |-> {}])
    /\ UNCHANGED <<now, tpc, nf, cancelled, finished, upc, crowded>>

CancelTimerTask(t) ==
    /\ ~cancelled[t]
    /\ cancelled' = [cancelled EXCEPT ![t] = TRUE]
    /\ UNCHANGED <<now, queue, available, tpc, it, nf, finished, upc, crowded>>

Command(k, o) == [at |-> 0, kind |-> k, owner |-> o, before |-> {}]

Commands == {e \in Range(queue) : e.kind = "cancel"} \cup
            (IF tpc = "execute" /\ nf.kind = "cancel" THEN {nf} ELSE {})

\* Mutant: the caller purges the queue itself.
CancelQueuePurged == <<>>

\* cancel() leaves it to the timer's thread to purge the queue.
CancelQueue == queue

\* cancel(false)
Cancel ==
    /\ Open
    /\ Enqueue(CancelQueue, Command("cancel", None))
    /\ UNCHANGED <<now, tpc, nf, cancelled, finished, upc, crowded>>

\* The history of what was scheduled before u's cancel(true).
Mark(u, e) == [e EXCEPT !.before = @ \cup {u}]
Unmark(u, e) == [e EXCEPT !.before = @ \ {u}]
MarkAll(u) == [i \in DOMAIN CancelQueue |-> Mark(u, CancelQueue[i])]

\* cancel(true) up to _finished.wait()
CancelAndWait(u) ==
    /\ Open /\ upc[u] = "app"
    /\ Enqueue(MarkAll(u), Command("cancel", u))
    /\ nf' = IF nf = None THEN None ELSE Mark(u, nf)
    /\ crowded' = IF Commands = {} THEN crowded \ {u} ELSE crowded \cup {u}
    /\ upc' = [upc EXCEPT ![u] = "cancelWait"]
    /\ UNCHANGED <<now, tpc, cancelled, finished>>

CancelReturns(u) ==
    /\ upc[u] = "cancelWait" /\ u \in finished
    /\ finished' = finished \ {u}
    /\ upc' = [upc EXCEPT ![u] = "app"]
    /\ queue' = [i \in DOMAIN queue |-> Unmark(u, queue[i])]
    /\ nf' = IF nf = None THEN None ELSE Unmark(u, nf)
    /\ UNCHANGED <<now, available, tpc, it, cancelled, crowded>>

\* ~Timer(): no other thread is inside a call.
Destroy(u) ==
    /\ \A v \in Users : upc[v] = "app"
    /\ Enqueue(queue, Command("stop", u))
    /\ crowded' = IF Commands = {} THEN crowded \ {u} ELSE crowded \cup {u}
    /\ upc' = [upc EXCEPT ![u] = "join"]
    /\ UNCHANGED <<now, tpc, nf, cancelled, finished>>

Join(u) ==
    /\ upc[u] = "join" /\ tpc = "done"
    /\ upc' = [upc EXCEPT ![u] = "gone"]
    /\ UNCHANGED <<now, queue, available, tpc, it, nf, cancelled, finished, crowded>>

Tick ==
    /\ now < MaxTime
    /\ now' = now + 1
    /\ UNCHANGED <<queue, available, tpc, it, nf, cancelled, finished, upc, crowded>>

-----------------------------------------------------------------------------
TimerThread ==
    \/ Begin \/ Woken \/ SleepEnds \/ DequeueOne
    \/ ExecuteStop \/ ExecuteCancel \/ FinishCancel
    \/ ExecuteTask \/ TaskReturns \/ AfterTask

UTNext ==
    \/ TimerThread
    \/ \E t \in Tasks :
         \/ \E k \in Kinds, d \in Delays : Schedule(t, k, d)
         \/ CancelTimerTask(t)
    \/ Cancel
    \/ \E u \in Users : CancelAndWait(u) \/ CancelReturns(u) \/ Destroy(u) \/ Join(u)
    \/ Tick

UTSpec == UTInit /\ [][UTNext]_utVars

\* The timer's thread is scheduled, tasks return, and waiters wake up.
UTFairSpec ==
    /\ UTSpec
    /\ WF_utVars(TimerThread)
    /\ \A u \in Users : WF_utVars(CancelReturns(u) \/ Join(u))

-----------------------------------------------------------------------------
(* Properties.                                                             *)

\* The iterator kept across the unlock and the wait still points into the
\* queue when waitDequeueNotification() uses it: only the timer's own thread
\* ever removes an entry.
NoDanglingIterator == UTTypeOK /\ (tpc \in {"sleep", "dequeue"} => it \in DOMAIN queue)

\* The thread never oversleeps: when it waits although there is something
\* earlier than what it waits for, its event is set.
NoMissedWakeup ==
    /\ tpc = "wait" /\ queue # <<>> => available
    /\ tpc = "sleep" /\ (\E i \in DOMAIN queue : queue[i].at < queue[it].at) => available

\* Nothing is executed before its time, whichever way the wait ended.
NeverEarly == nf # None => nf.at <= now

\* When cancel(true) is about to return, every task that was scheduled before
\* it was called is out of the queue and not running: not even a repeated
\* task that was running at the time of the call comes back.
CancelPurges ==
    \A u \in finished :
        /\ \A e \in Range(queue) : u \notin e.before
        /\ nf # None /\ tpc # "finish" => u \notin nf.before

\* A cancelled TimerTask "will never run again", however it repeats itself.
CancelledStops ==
    \A t \in Tasks : cancelled[t] ~> [](tpc = "run" => nf.owner # t)

\* cancel(true) and the destructor return, unless a cancel() was pending when
\* they were called.
CommandsFinish ==
    \A u \in Users :
        upc[u] \in {"cancelWait", "join"} /\ u \notin crowded ~> upc[u] \in {"app", "gone"}

\* "Destroys the Timer, cancelling all pending tasks."
DestructorReturns == \A u \in Users : upc[u] = "join" ~> upc[u] = "gone"
=============================================================================
