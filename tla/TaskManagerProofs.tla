------------------------- MODULE TaskManagerProofs --------------------------
(***************************************************************************)
(* Theorems about TaskManager, for any number of clients, tasks and pooled *)
(* threads.  The manager's steps are steps of its ThreadPool, which nobody *)
(* stops, so that the pool's invariants hold here too.                     *)
(***************************************************************************)
EXTENDS TaskManager, ThreadPoolProofs, SequenceTheorems

(* The list's operations, on lists that hold nothing twice.                *)

\* What is in the range of a sequence.
LEMMA InRange == ASSUME NEW q, NEW x PROVE x \in Range(q) <=> \E i \in DOMAIN q : q[i] = x
  BY DEF Range

\* push_back of a task that is not in the list.
LEMMA PushBack ==
  ASSUME NEW S, NEW q \in Seq(S), NEW x \in S, x \notin Range(q), IsInjective(q)
  PROVE  LET r == Append(q, x) IN
         /\ r \in Seq(S) /\ r # <<>> /\ r[Len(r)] = x
         /\ Range(r) = Range(q) \cup {x} /\ IsInjective(r)
<1> DEFINE r == Append(q, x)
<1>1. /\ Len(q) \in Nat /\ DOMAIN q = 1 .. Len(q)
      /\ r \in Seq(S) /\ Len(r) = Len(q) + 1 /\ DOMAIN r = 1 .. Len(q) + 1
      /\ \A i \in 1 .. Len(q) : r[i] = q[i]
      /\ r[Len(q) + 1] = x
  BY AppendProperties, LenProperties
<1> HIDE DEF r
<1>2. \A i \in DOMAIN r : i = Len(q) + 1 \/ i \in DOMAIN q
  BY <1>1
<1>3. DOMAIN q \subseteq DOMAIN r /\ Len(q) + 1 \in DOMAIN r /\ r # <<>>
  BY <1>1, EmptySeq
<1>4. Range(r) = Range(q) \cup {x}
  BY <1>1, <1>2, <1>3 DEF Range
<1>5. IsInjective(r)
  BY <1>1, <1>2 DEF IsInjective, Range
<1> QED BY <1>1, <1>3, <1>4, <1>5 DEF r

\* pop_back takes off what was pushed last.
LEMMA PopBack ==
  ASSUME NEW S, NEW q \in Seq(S), q # <<>>, IsInjective(q)
  PROVE  /\ Front(q) \in Seq(S) /\ Range(Front(q)) = Range(q) \ {q[Len(q)]}
         /\ IsInjective(Front(q))
<1>1. Len(q) \in Nat \ {0} /\ DOMAIN q = 1 .. Len(q) /\ \A i \in DOMAIN q : q[i] \in S
  BY EmptySeq, LenProperties, ElementOfSeq
<1> DEFINE r == Front(q)
<1>2. /\ r \in Seq(S) /\ Len(r) = Len(q) - 1
      /\ \A i \in 1 .. Len(q) - 1 : r[i] = q[i]
  <2>1. \A i \in 1 .. Len(q) - 1 : q[i] \in S
    BY <1>1
  <2>2. Front(q) = SubSeq(q, 1, Len(q) - 1)
    BY DEF Front
  <2> QED BY <1>1, <2>1, <2>2, SubSeqProperties
<1> HIDE DEF r
<1>3. DOMAIN r = 1 .. Len(q) - 1
  BY <1>1, <1>2, LenProperties
<1>4. Len(q) \in DOMAIN q /\ \A i \in DOMAIN q : i = Len(q) \/ i \in DOMAIN r
  BY <1>1, <1>3
<1>5. \A i \in DOMAIN r : i \in DOMAIN q /\ i # Len(q) /\ r[i] = q[i]
  BY <1>1, <1>2, <1>3
<1>6. Range(r) = Range(q) \ {q[Len(q)]}
  BY <1>4, <1>5 DEF Range, IsInjective
<1>7. IsInjective(r)
  BY <1>5 DEF IsInjective
<1> QED BY <1>2, <1>6, <1>7 DEF r

\* One task is erased, wherever it is.
LEMMA EraseFirst ==
  ASSUME NEW S, NEW q \in Seq(S), NEW x, IsInjective(q)
  PROVE  /\ RemoveFirst(q, x) \in Seq(S)
         /\ Range(RemoveFirst(q, x)) = Range(q) \ {x}
         /\ IsInjective(RemoveFirst(q, x))
<1>1. Len(q) \in Nat /\ DOMAIN q = 1 .. Len(q) /\ \A i \in DOMAIN q : q[i] \in S
  BY LenProperties, ElementOfSeq
<1>2. CASE x \notin Range(q)
  <2>1. RemoveFirst(q, x) = q
    BY <1>1, <1>2 DEF RemoveFirst, Range
  <2> QED BY <1>2, <2>1
<1>3. CASE x \in Range(q)
  <2>1. PICK p \in 1 .. Len(q) : q[p] = x
    BY <1>1, <1>3 DEF Range
  <2>2. RemoveFirst(q, x) = RemoveAt(q, p)
    <3>1. {i \in 1 .. Len(q) : q[i] = x} = {p}
      BY <1>1, <2>1 DEF IsInjective
    <3>2. Min({p}) = p
      BY <1>1, <2>1 DEF Min
    <3>3. SelectInSeq(q, LAMBDA v : v = x) = p
      BY <3>1, <3>2, Zenon DEF SelectInSeq
    <3> QED BY <2>1, <3>3, Zenon DEF RemoveFirst
  <2> DEFINE a == SubSeq(q, 1, p - 1)
             b == SubSeq(q, p + 1, Len(q))
             r == a \o b
  <2>3. /\ a \in Seq(S) /\ Len(a) = p - 1
        /\ \A i \in 1 .. p - 1 : a[i] = q[i]
    <3>1. \A i \in 1 .. p - 1 : q[i] \in S
      BY <1>1
    <3> QED BY <1>1, <3>1, SubSeqProperties
  <2>4. /\ b \in Seq(S) /\ Len(b) = Len(q) - p
        /\ \A i \in 1 .. Len(q) - p : b[i] = q[p + i]
    <3>1. \A i \in p + 1 .. Len(q) : q[i] \in S
      BY <1>1
    <3>2. /\ b \in Seq(S) /\ Len(b) = IF p + 1 <= Len(q) THEN Len(q) - (p + 1) + 1 ELSE 0
          /\ \A i \in 1 .. Len(q) - (p + 1) + 1 : b[i] = q[(p + 1) + i - 1]
      BY <1>1, <3>1, SubSeqProperties
    <3> HIDE DEF b
    <3>3. Len(b) = Len(q) - p
      <4>1. Len(q) \in Nat /\ p \in Nat /\ p <= Len(q)
        BY <1>1
      <4>2. Len(b) = IF p + 1 <= Len(q) THEN Len(q) - (p + 1) + 1 ELSE 0
        BY <3>2
      <4>3. CASE p + 1 <= Len(q)
        BY ONLY <4>1, <4>2, <4>3
      <4>4. CASE p = Len(q)
        BY ONLY <4>1, <4>2, <4>4
      <4> QED BY ONLY <4>1, <4>3, <4>4
    <3>4. \A i \in 1 .. Len(q) - p : i \in 1 .. Len(q) - (p + 1) + 1 /\ (p + 1) + i - 1 = p + i
      BY <1>1, <2>1
    <3> QED BY <3>2, <3>3, <3>4
  <2> HIDE DEF a, b
  <2>5. /\ r \in Seq(S) /\ Len(r) = Len(a) + Len(b)
        /\ \A i \in 1 .. Len(a) + Len(b) : r[i] = IF i <= Len(a) THEN a[i] ELSE b[i - Len(a)]
    BY <2>3, <2>4, ConcatProperties
  <2> HIDE DEF r
  <2>6. DOMAIN r = 1 .. Len(q) - 1
    BY <1>1, <2>3, <2>4, <2>5, LenProperties
  <2>7. \A i \in DOMAIN r :
          \/ i < p /\ i \in DOMAIN q /\ r[i] = q[i]
          \/ i >= p /\ i + 1 \in DOMAIN q /\ r[i] = q[i + 1]
    <3> TAKE i \in DOMAIN r
    <3>1. CASE i < p
      <4>1. i \in 1 .. p - 1 /\ i \in DOMAIN q /\ i \in 1 .. Len(a) + Len(b) /\ i <= Len(a)
        BY <1>1, <2>1, <2>3, <2>4, <2>6, <3>1
      <4> QED BY <2>3, <2>5, <3>1, <4>1
    <3>2. CASE i >= p
      <4>1. i + 1 \in DOMAIN q /\ i - (p - 1) \in 1 .. Len(q) - p /\ p + (i - (p - 1)) = i + 1
        BY <1>1, <2>6, <3>2
      <4>2. r[i] = b[i - (p - 1)]
        <5>1. Len(a) = p - 1 /\ Len(b) = Len(q) - p
          BY <2>3, <2>4
        <5>2. i \in 1 .. Len(q) - 1 /\ Len(q) \in Nat
          BY <1>1, <2>6
        <5>3. i \in 1 .. Len(a) + Len(b) /\ ~(i <= Len(a))
          BY ONLY <3>2, <5>1, <5>2, p \in 1 .. Len(q)
        <5>4. r[i] = IF i <= Len(a) THEN a[i] ELSE b[i - Len(a)]
          BY ONLY <2>5, <5>3
        <5> QED BY ONLY <5>1, <5>3, <5>4
      <4>3. b[i - (p - 1)] = q[p + (i - (p - 1))]
        BY <2>4, <4>1
      <4> QED BY <3>2, <4>1, <4>2, <4>3
    <3> QED BY <1>1, <2>6, <3>1, <3>2
  <2>8. \A i \in DOMAIN q : i # p => \E j \in DOMAIN r : r[j] = q[i]
    <3> SUFFICES ASSUME NEW i \in DOMAIN q, i # p PROVE \E j \in DOMAIN r : r[j] = q[i]
      OBVIOUS
    <3>1. CASE i < p
      BY <1>1, <2>6, <2>7, <3>1
    <3>2. CASE i > p
      <4>1. i - 1 \in DOMAIN r /\ i - 1 >= p /\ (i - 1) + 1 = i
        BY <1>1, <2>6, <3>2
      <4>2. r[i - 1] = q[(i - 1) + 1]
        BY <2>7, <4>1
      <4> QED BY <4>1, <4>2
    <3> QED BY <1>1, <3>1, <3>2
  <2>9. Range(r) = Range(q) \ {x}
    BY <1>1, <2>1, <2>6, <2>7, <2>8, SMTT(40) DEF Range, IsInjective
  <2>10. IsInjective(r)
    BY <1>1, <2>6, <2>7 DEF IsInjective
  <2>11. RemoveFirst(q, x) = r
    BY <2>2 DEF RemoveAt, r, a, b
  <2> QED BY <2>5, <2>9, <2>10, <2>11
<1> QED BY <1>2, <1>3

-----------------------------------------------------------------------------
(* The inductive invariant.                                                *)

\* start() is working on the task.
Starting(t) == \E c \in Clients : mpc[c] = "starting" /\ marg[c] = t

\* A pooled thread has the task, which has yet to be taken off the list.
Holding(t) == \E th \in Threads : target[th] = t /\ rpc[th] # "done"

\* What TaskListExact says of the list.
ListInv == IsInjective(taskList) /\ Listed = {t \in Targets : Starting(t) \/ Holding(t)}

\* start() and cancelAll() hold the manager's mutex.  start()'s task stays the
\* last one of the list; a pool thread has it when ThreadPool::start()
\* returned, and none has it when that threw.
ManagerInv ==
    \A c \in Clients :
        /\ mpc[c] \in {"starting", "cancel"} <=> tmMutex = c
        /\ mpc[c] = "starting" <=> op[c] = "start"
        /\ mpc[c] \in {"lockStart", "starting"} => marg[c] \in Targets
        /\ mpc[c] = "starting" =>
             /\ arg[c] = marg[c]
             /\ taskList # <<>> /\ taskList[Len(taskList)] = marg[c]
             /\ pc[c] = "ret" => Holding(marg[c])
             /\ pc[c] = "throw" => \A th \in Threads : target[th] # marg[c]

\* A thread is in Task::run() while the pool's thread runs a target.
TaskRunInv == \A th \in Threads : rpc[th] # "none" <=> wpc[th] = "run"

TMInv == TypeInv /\ OpenInv /\ TMTypeOK /\ ListInv /\ ManagerInv /\ TaskRunInv

-----------------------------------------------------------------------------
(* The steps.                                                              *)

\* What a step inside the pool may do to the manager's view of it: hand the
\* client's task to a resting thread, or leave every thread's target alone.
LEMMA PoolEffect ==
  ASSUME TypeOK, OpenInv, NEW c \in Clients, PoolStep(c)
  PROVE  /\ UNCHANGED <<op, arg>> /\ pc[c] \notin {"app", "ret", "throw"}
         /\ \A d \in Clients \ {c} : pc'[d] = pc[d]
         /\ \A th \in Threads : wpc'[th] = "run" <=> wpc[th] = "run"
         /\ \/ /\ op[c] = "start" /\ pc'[c] = "ret"
               /\ cur[c] \in Threads /\ wpc[cur[c]] = "wait" /\ target[cur[c]] = None
               /\ target' = [target EXCEPT ![cur[c]] = arg[c]]
            \/ /\ UNCHANGED target /\ (pc'[c] = "ret" => op[c] # "start")
               /\ pc'[c] = "throw" /\ op[c] = "start" => \A th \in Threads : target[th] # arg[c]
<1> DEFINE Calm(l) ==
             /\ UNCHANGED <<op, arg, target>> /\ pc' = [pc EXCEPT ![c] = l]
             /\ l = "ret" => op[c] # "start"
             /\ l = "throw" /\ op[c] = "start" => \A th \in Threads : target[th] # arg[c]
             /\ \A th \in Threads : wpc'[th] = "run" <=> wpc[th] = "run"
             /\ pc[c] \notin {"app", "ret", "throw"}
<1> SUFFICES Assign(c) \/ \E l \in ClientPC : Calm(l)
  <2>1. CASE Assign(c)
    <3>1. pc[c] = "assign" /\ op[c] = "start"
      BY <2>1 DEF Assign, OpenInv, MutexInv
    <3>2. cur[c] \in Threads /\ wpc[cur[c]] = "wait" /\ target[cur[c]] = None
      BY <3>1, PoolAssumption DEF OpenInv, HandoffInv, ThreadInv, TypeOK
    <3> QED BY <2>1, <3>1, <3>2 DEF Assign, Goto, TypeOK
  <2>2. ASSUME NEW l \in ClientPC, Calm(l)
        PROVE  /\ UNCHANGED <<op, arg, target>> /\ pc[c] \notin {"app", "ret", "throw"} /\ pc'[c] = l
               /\ \A d \in Clients \ {c} : pc'[d] = pc[d]
    BY <2>2 DEF TypeOK
  <2> QED BY <2>1, <2>2
<1> USE DEF Goto, TypeOK, ClientPC
<1>1. CASE AcquireStart(c) \/ AcquireCollect(c)
  BY <1>1 DEF AcquireStart, AcquireCollect, Acquire, BeginHousekeep, threadVars
<1>2. CASE AcquireJoinAll(c) \/ AcquireStopAll(c)
  BY <1>2 DEF AcquireJoinAll, AcquireStopAll, AcquireLoop, Acquire, threadVars
<1>3. ASSUME NEW n \in Deltas, AcquireAddCapacity(c, n) PROVE \E l \in ClientPC : Calm(l)
  BY <1>3 DEF AcquireAddCapacity, BeginHousekeep, threadVars
<1>4. CASE Classify(c) \/ Rebuild(c)
  BY <1>4 DEF Classify, Rebuild, threadVars
<1>5. CASE Release(c)
  <2>1. PICK th \in todo : target' = [target EXCEPT ![th] = None]
    BY <1>5 DEF Release
  <2>2. th \in Threads /\ target[th] = None
    BY <1>5, <2>1 DEF Release, OpenInv, LoopInv, ThreadInv
  <2>3. UNCHANGED target
    BY <2>1, <2>2
  <2> QED BY <1>5, <2>3 DEF Release
<1>6. CASE TryJoinOk(c) \/ TryJoinTimeout(c) \/ ReleaseDone(c)
  BY <1>6 DEF TryJoinOk, TryJoinTimeout, ReleaseDone, threadVars
<1>7. ASSUME pc[c] \in {"scan", "create"}, UNCHANGED <<op, arg, threadVars>>, Throw(c) PROVE Calm("throw")
  <2>1. arg[c] \in Targets /\ fate[arg[c]] = "called"
    BY <1>7 DEF OpenInv, MutexInv, InStart
  <2>2. \A th \in Threads : target[th] # arg[c]
    BY <2>1, CalledNotHeld DEF OpenInv
  <2> QED BY <1>7, <2>2 DEF Throw, threadVars
<1>8. CASE ScanBusy(c) \/ ScanIdle(c)
  BY <1>8 DEF ScanBusy, ScanIdle, threadVars
<1>9. CASE ScanNone(c) \/ CreateFails(c)
  BY <1>7, <1>9 DEF ScanNone, CreateFails, threadVars
<1>10. CASE Create(c)
  <2>1. PICK th \in Threads : /\ wpc[th] = "none" /\ wpc' = [wpc EXCEPT ![th] = "wait"]
                              /\ target' = [target EXCEPT ![th] = None]
    BY <1>10 DEF Create
  <2>2. target[th] = None
    BY <2>1 DEF OpenInv, ThreadInv
  <2>3. UNCHANGED target
    BY <2>1, <2>2
  <2> QED BY <1>10, <2>1, <2>3 DEF Create
<1>11. CASE Activate(c)
  BY <1>11 DEF Activate
<1>12. CASE JoinBusy(c) \/ JoinFree(c) \/ JoinWait(c) \/ JoinDone(c)
  BY <1>12 DEF JoinBusy, JoinFree, JoinWait, JoinDone, BeginHousekeep, threadVars
<1> HIDE DEF Calm
<1> QED BY <1>1, <1>2, <1>3, <1>4, <1>5, <1>6, <1>8, <1>9, <1>10, <1>11, <1>12 DEF PoolStep

\* The manager uses its pool as the pool's specification says.
LEMMA PoolRefined == TMInv /\ [TMNext]_allVars => [Next]_vars
<1> SUFFICES ASSUME TMInv, TMNext, ~UNCHANGED vars PROVE Next
  BY DEF allVars
<1>1. ASSUME NEW c \in Clients, StartTask(c) PROVE Next
  BY <1>1 DEF StartTask, TMInv, ManagerInv, Next
<1>2. ASSUME NEW c \in Clients, EndStart(c) \/ EndJoinAll(c) \/ CallJoinAll(c) \/ InPool(c) PROVE Next
  BY <1>2 DEF EndStart, EndJoinAll, CallJoinAll, InPool, Next, Ops
<1>3. ASSUME NEW th \in Threads, TaskStep(th) \/ Expire(th) PROVE Next
  BY <1>3 DEF TaskStep, EnterRun, BeginTask, TaskProgress, TaskFinished, LeaveRun, Worker, Next
<1> QED
  BY <1>1, <1>2, <1>3 DEF TMNext, ManagerStep, CallTaskStart, CancelTask, Reset, CallCancelAll, BeginCancelAll,
     CancelNext, EndCancelAll, SetProgress, EndTask

\* Nobody stops the pool, so its invariants go on holding.
LEMMA PoolStaysSound == TMInv /\ [TMNext]_allVars => TypeInv' /\ OpenInv'
<1> SUFFICES ASSUME TMInv, [TMNext]_allVars PROVE TypeInv' /\ OpenInv'
  OBVIOUS
<1>1. [Next]_vars
  BY PoolRefined
<1>2. TypeInv'
  BY <1>1, TypeStep DEF TMInv
<1>3. ~Closing'
  <2>1. \A c \in Clients : op[c] # "stopAll"
    BY DEF TMInv, OpenInv, MutexInv
  <2>2. CASE UNCHANGED op
    BY <2>1, <2>2 DEF Closing
  <2>3. ASSUME NEW c \in Clients, op' = [op EXCEPT ![c] = "start"] \/ op' = [op EXCEPT ![c] = "joinAll"] \/ op' = [op EXCEPT ![c] = None]
        PROVE  ~Closing'
    BY <2>1, <2>3, PoolAssumption DEF Closing, TMInv, TypeInv, TypeOK, Ops
  <2>4. ASSUME NEW c \in Clients, InPool(c) PROVE UNCHANGED op
    BY <2>4, PoolEffect DEF InPool, TMInv, TypeInv
  <2>5. ASSUME NEW th \in Threads, TaskStep(th) \/ SetProgress(th) \/ EndTask(th) \/ Expire(th) PROVE UNCHANGED op
    BY <2>5 DEF TaskStep, WorkerWake, WorkerCheck, EnterRun, WorkerRun, BeginTask, TaskProgress, TaskFinished, LeaveRun,
       WorkerComplete, SetProgress, EndTask, Expire, callVars, vars
  <2> QED
    BY <2>2, <2>3, <2>4, <2>5 DEF TMNext, ManagerStep, allVars, vars, callVars, CallTaskStart, CancelTask, Reset,
       CallJoinAll, CallOther, CallCancelAll, StartTask, CallStart, EndStart, EndJoinAll, Return, BeginCancelAll,
       CancelNext, EndCancelAll
<1>4. OpenInv'
  BY <1>1, <1>2, <1>3, OpenStep DEF TMInv, TypeInv
<1> QED BY <1>2, <1>4

\* Every variable of the manager keeps its type.
LEMMA TMTypeStep == TMInv /\ TMNext => TMTypeOK'
<1> SUFFICES ASSUME TMInv, TMNext PROVE TMTypeOK'
  OBVIOUS
<1>1. TypeOK'
  BY PoolStaysSound DEF TypeInv
<1> USE <1>1, PoolAssumption
    DEF TMInv, TMTypeOK, ManagerPC, RunPC, TaskStates, MGoto, RGoto, taskVars, tmVars
<1>2. Listed \subseteq Targets
  BY ElementOfSeq, LenProperties DEF Listed, Range
<1>3. ASSUME NEW c \in Clients, NEW t \in Targets, CallTaskStart(c, t) \/ CancelTask(c, t) \/ Reset(c, t) PROVE TMTypeOK'
  <2>1. CASE CallTaskStart(c, t)
    BY <2>1 DEF CallTaskStart
  <2>2. CASE CancelTask(c, t)
    BY <2>2 DEF CancelTask, SetCancelled
  <2>3. CASE Reset(c, t)
    BY <2>3 DEF Reset
  <2> QED BY <1>3, <2>1, <2>2, <2>3
<1>4. ASSUME NEW c \in Clients, StartTask(c) PROVE TMTypeOK'
  <2>1. marg[c] \in Targets
    BY <1>4 DEF StartTask, ManagerInv
  <2>2. taskList' \in Seq(Targets)
    BY <1>4, <2>1, AppendProperties DEF StartTask
  <2> QED BY <1>4, <2>1, <2>2 DEF StartTask
<1>5. ASSUME NEW c \in Clients, EndStart(c) PROVE TMTypeOK'
  <2>1. taskList # <<>>
    BY <1>5 DEF EndStart, ManagerInv
  <2>2. taskList' \in Seq(Targets)
    BY <1>5, <2>1, PopBack DEF EndStart, WithoutLast, ListInv
  <2> QED BY <1>5, <2>2 DEF EndStart
<1>6. ASSUME NEW c \in Clients, CallJoinAll(c) \/ EndJoinAll(c) \/ CallCancelAll(c) PROVE TMTypeOK'
  BY <1>6 DEF CallJoinAll, EndJoinAll, CallCancelAll
<1>7. ASSUME NEW c \in Clients, BeginCancelAll(c) \/ CancelNext(c) \/ EndCancelAll(c) PROVE TMTypeOK'
  <2>1. CASE BeginCancelAll(c)
    BY <1>2, <2>1 DEF BeginCancelAll
  <2>2. CASE CancelNext(c)
    BY <2>2 DEF CancelNext, SetCancelled
  <2>3. CASE EndCancelAll(c)
    BY <2>3 DEF EndCancelAll, Unlocked
  <2> QED BY <1>7, <2>1, <2>2, <2>3
<1>8. ASSUME NEW th \in Threads, TaskFinished(th) PROVE TMTypeOK'
  <2>1. taskList' \in Seq(Targets)
    BY <1>8, EraseFirst DEF TaskFinished, Without, ListInv
  <2> QED BY <1>8, <2>1 DEF TaskFinished
<1>9. ASSUME NEW th \in Threads, EnterRun(th) \/ BeginTask(th) \/ TaskProgress(th) \/ LeaveRun(th) \/ SetProgress(th) \/ EndTask(th)
      PROVE  TMTypeOK'
  BY <1>9 DEF EnterRun, BeginTask, TaskProgress, LeaveRun, SetProgress, EndTask
<1>10. CASE UNCHANGED tmVars
  BY <1>10
<1> QED
  BY <1>3, <1>4, <1>5, <1>6, <1>7, <1>8, <1>9, <1>10 DEF TMNext, ManagerStep, TaskStep, InPool

\* A thread enters and leaves Task::run() with the pool's thread.
LEMMA TaskRunStep == TMInv /\ TMNext => TaskRunInv'
<1> SUFFICES ASSUME TMInv, TMNext PROVE TaskRunInv'
  OBVIOUS
<1> USE DEF TMInv, TypeInv, TypeOK, WorkerPC, TMTypeOK, TaskRunInv, RGoto, tmVars, vars, threadVars
<1>1. CASE UNCHANGED <<wpc, rpc>>
  BY <1>1
<1>2. ASSUME NEW c \in Clients, InPool(c) PROVE TaskRunInv'
  BY <1>2, PoolEffect DEF InPool
<1>3. ASSUME NEW th \in Threads, (WorkerWake(th) \/ WorkerCheck(th)) /\ UNCHANGED tmVars PROVE TaskRunInv'
  BY <1>3 DEF WorkerWake, WorkerCheck
<1>4. ASSUME NEW th \in Threads, EnterRun(th) PROVE TaskRunInv'
  BY <1>4 DEF EnterRun, WorkerRun
<1>5. ASSUME NEW th \in Threads, LeaveRun(th) PROVE TaskRunInv'
  BY <1>5 DEF LeaveRun, WorkerComplete
<1>6. ASSUME NEW th \in Threads, BeginTask(th) \/ TaskProgress(th) \/ SetProgress(th) \/ EndTask(th) \/ TaskFinished(th)
      PROVE  TaskRunInv'
  BY <1>6 DEF BeginTask, TaskProgress, SetProgress, EndTask, TaskFinished
<1> QED
  BY <1>1, <1>2, <1>3, <1>4, <1>5, <1>6 DEF TMNext, ManagerStep, TaskStep, Expire, CallTaskStart, CancelTask, Reset,
     CallJoinAll, CallOther, CallCancelAll, StartTask, CallStart, EndStart, EndJoinAll, Return, BeginCancelAll,
     CancelNext, EndCancelAll

\* A thread that runs a task has it as its target, and no other thread has.
LEMMA RunsItsTarget ==
  ASSUME TMInv, NEW th \in Threads, rpc[th] # "none"
  PROVE  /\ running[th] = target[th] /\ target[th] \in Targets
         /\ \A other \in Threads \ {th} : target[other] # target[th]
<1>1. wpc[th] = "run"
  BY DEF TMInv, TaskRunInv
<1>2. running[th] = target[th] /\ target[th] \in Targets
  BY <1>1, PoolAssumption DEF TMInv, OpenInv, ThreadInv
<1> QED BY <1>2 DEF TMInv, OpenInv, FateInv

\* The list and the manager's mutex.
LEMMA ListStep == TMInv /\ TMNext => ListInv' /\ ManagerInv'
<1> SUFFICES ASSUME TMInv, TMNext PROVE ListInv' /\ ManagerInv'
  OBVIOUS
<1>0. /\ taskList \in Seq(Targets) /\ IsInjective(taskList)
      /\ Listed = {t \in Targets : Starting(t) \/ Holding(t)}
  BY DEF TMInv, TMTypeOK, ListInv
<1> USE PoolAssumption, TaskAssumption
    DEF TMInv, TMTypeOK, TypeInv, TypeOK, ManagerInv, MGoto, RGoto, tmVars, taskVars
<1>1. ASSUME UNCHANGED <<taskList, target, arg, op, marg>>,
             \A th \in Threads : rpc'[th] = "done" <=> rpc[th] = "done",
             \A c \in Clients : \/ mpc'[c] = mpc[c] /\ pc'[c] = pc[c]
                                \/ mpc[c] \notin {"starting", "lockStart"} /\ mpc'[c] \notin {"starting", "lockStart"},
             \A c \in Clients : mpc'[c] \in {"starting", "cancel"} <=> tmMutex' = c
      PROVE  ListInv' /\ ManagerInv'
  <2>1. \A t : Starting(t)' <=> Starting(t)
    BY <1>1 DEF Starting
  <2>2. \A t : Holding(t)' <=> Holding(t)
    BY <1>1 DEF Holding
  <2>3. ListInv'
    BY <1>0, <1>1, <2>1, <2>2 DEF ListInv, Listed
  <2>4. ManagerInv'
    BY <1>1, <2>2
  <2> QED BY <2>3, <2>4
<1>2. ASSUME NEW c \in Clients, NEW t \in Targets, CallTaskStart(c, t) PROVE ListInv' /\ ManagerInv'
  <2>1. /\ UNCHANGED <<vars, tmMutex, taskList, rpc>> /\ mpc[c] = "app"
        /\ mpc' = [mpc EXCEPT ![c] = "lockStart"] /\ marg' = [marg EXCEPT ![c] = t]
    BY <1>2 DEF CallTaskStart
  <2>2. UNCHANGED <<target, arg, op, pc>>
    BY <2>1 DEF vars, threadVars, callVars
  <2>3. \A u : Starting(u)' <=> Starting(u)
    BY <2>1 DEF Starting
  <2>4. \A u : Holding(u)' <=> Holding(u)
    BY <2>1, <2>2 DEF Holding
  <2>5. ListInv'
    BY <1>0, <2>1, <2>3, <2>4 DEF ListInv, Listed
  <2>6. ManagerInv'
    BY <2>1, <2>2, <2>4
  <2> QED BY <2>5, <2>6
<1>3. ASSUME NEW c \in Clients, StartTask(c) PROVE ListInv' /\ ManagerInv'
  <2>1. /\ mpc[c] = "lockStart" /\ mpc' = [mpc EXCEPT ![c] = "starting"]
        /\ tmMutex = None /\ tmMutex' = c /\ UNCHANGED <<marg, rpc, target>>
        /\ op' = [op EXCEPT ![c] = "start"] /\ arg' = [arg EXCEPT ![c] = marg[c]]
        /\ pc' = [pc EXCEPT ![c] = "lock"] /\ fate[marg[c]] = "rest"
        /\ taskList' = Append(taskList, marg[c]) /\ marg[c] \in Targets
    BY <1>3 DEF StartTask, CallStart, Goto, threadVars
  <2>2. \A d \in Clients : mpc[d] # "starting"
    BY <2>1
  <2>3. \A th \in Threads : target[th] # marg[c]
    BY <2>1, CalledNotHeld DEF OpenInv
  <2>4. marg[c] \notin Range(taskList)
    BY <1>0, <2>2, <2>3 DEF Listed, Starting, Holding
  <2>5. /\ taskList' # <<>> /\ taskList'[Len(taskList')] = marg[c]
        /\ Range(taskList') = Range(taskList) \cup {marg[c]} /\ IsInjective(taskList')
    BY <1>0, <2>1, <2>4, PushBack
  <2>6. \A t : Starting(t)' <=> t = marg[c]
    BY <2>1, <2>2 DEF Starting
  <2>7. \A t : Holding(t)' <=> Holding(t)
    BY <2>1 DEF Holding
  <2>8. \A t : ~Starting(t)
    BY <2>2 DEF Starting
  <2>9. ListInv'
    BY <1>0, <2>1, <2>5, <2>6, <2>7, <2>8 DEF ListInv, Listed
  <2>10. ManagerInv'
    BY <2>1, <2>2, <2>5
  <2> QED BY <2>9, <2>10
<1>4. ASSUME NEW c \in Clients, EndStart(c) PROVE ListInv' /\ ManagerInv'
  <2>1. /\ mpc[c] = "starting" /\ mpc' = [mpc EXCEPT ![c] = "app"]
        /\ tmMutex' = None /\ marg' = [marg EXCEPT ![c] = None] /\ UNCHANGED <<rpc, target>>
        /\ op' = [op EXCEPT ![c] = None] /\ arg' = [arg EXCEPT ![c] = None]
        /\ pc' = [pc EXCEPT ![c] = "app"] /\ pc[c] \in {"ret", "throw"}
        /\ taskList' = IF pc[c] = "throw" THEN Front(taskList) ELSE taskList
    BY <1>4 DEF EndStart, Return, Goto, threadVars, WithoutLast
  <2>2. tmMutex = c /\ \A d \in Clients \ {c} : mpc[d] \notin {"starting", "cancel"}
    BY <2>1
  <2>3. \A t : Starting(t) <=> t = marg[c]
    BY <2>1, <2>2 DEF Starting
  <2>4. \A t : ~Starting(t)'
    BY <2>1, <2>2 DEF Starting
  <2>5. \A t : Holding(t)' <=> Holding(t)
    BY <2>1 DEF Holding
  <2>6. ListInv'
    <3>1. CASE pc[c] = "throw"
      <4>1. taskList # <<>> /\ taskList[Len(taskList)] = marg[c] /\ ~Holding(marg[c])
        BY <2>1, <3>1 DEF Holding
      <4>2. Range(taskList') = Range(taskList) \ {marg[c]} /\ IsInjective(taskList')
        BY <1>0, <2>1, <3>1, <4>1, PopBack
      <4> QED BY <1>0, <2>3, <2>4, <2>5, <4>1, <4>2 DEF ListInv, Listed
    <3>2. CASE pc[c] = "ret"
      <4>1. Holding(marg[c])
        BY <2>1, <3>2
      <4> QED BY <1>0, <2>1, <2>3, <2>4, <2>5, <3>2, <4>1 DEF ListInv, Listed
    <3> QED BY <2>1, <3>1, <3>2
  <2>7. ManagerInv'
    BY <2>1, <2>2 DEF Ops
  <2> QED BY <2>6, <2>7
<1>5. ASSUME NEW c \in Clients, CallJoinAll(c) \/ EndJoinAll(c) PROVE ListInv' /\ ManagerInv'
  <2>1. /\ mpc[c] \in {"app", "joining"} /\ UNCHANGED <<rpc, target, taskList, marg, tmMutex>>
        /\ \E l \in {"app", "joining"} : mpc' = [mpc EXCEPT ![c] = l]
        /\ \E o \in {"joinAll", None} : op' = [op EXCEPT ![c] = o]
        /\ \A d \in Clients \ {c} : arg'[d] = arg[d] /\ pc'[d] = pc[d]
    BY <1>5 DEF CallJoinAll, EndJoinAll, CallOther, Return, Goto, threadVars
  <2>2. \A t : Starting(t)' <=> Starting(t)
    BY <2>1 DEF Starting
  <2>3. \A t : Holding(t)' <=> Holding(t)
    BY <2>1 DEF Holding
  <2>4. ListInv'
    BY <1>0, <2>1, <2>2, <2>3 DEF ListInv, Listed
  <2>5. ManagerInv'
    BY <2>1, <2>3 DEF Ops
  <2> QED BY <2>4, <2>5
<1>6. ASSUME NEW c \in Clients, InPool(c) PROVE ListInv' /\ ManagerInv'
  <2>1. /\ UNCHANGED <<op, arg>> /\ pc[c] \notin {"app", "ret", "throw"}
        /\ \A d \in Clients \ {c} : pc'[d] = pc[d]
        /\ UNCHANGED <<tmMutex, taskList, mpc, marg, rpc>>
    BY <1>6, PoolEffect DEF InPool
  <2>2. \A t : Starting(t)' <=> Starting(t)
    BY <2>1 DEF Starting
  <2>3. CASE /\ op[c] = "start" /\ pc'[c] = "ret"
             /\ cur[c] \in Threads /\ wpc[cur[c]] = "wait" /\ target[cur[c]] = None
             /\ target' = [target EXCEPT ![cur[c]] = arg[c]]
    <3>1. mpc[c] = "starting" /\ arg[c] = marg[c] /\ marg[c] \in Targets /\ rpc[cur[c]] = "none"
      BY <2>3 DEF TaskRunInv
    <3>2. \A t \in Targets : Holding(t)' <=> Holding(t) \/ t = marg[c]
      BY <2>1, <2>3, <3>1 DEF Holding
    <3>3. Starting(marg[c])
      BY <3>1 DEF Starting
    <3>4. ListInv'
      BY <1>0, <2>1, <2>2, <3>2, <3>3 DEF ListInv, Listed
    <3>5. ManagerInv'
      <4>1. \A d \in Clients \ {c} : mpc[d] # "starting"
        BY <3>1
      <4> QED BY <2>1, <2>3, <3>1, <3>2, <4>1
    <3> QED BY <3>4, <3>5
  <2>4. CASE /\ UNCHANGED target /\ (pc'[c] = "ret" => op[c] # "start")
             /\ pc'[c] = "throw" /\ op[c] = "start" => \A th \in Threads : target[th] # arg[c]
    <3>1. \A t : Holding(t)' <=> Holding(t)
      BY <2>1, <2>4 DEF Holding
    <3>2. ListInv'
      BY <1>0, <2>1, <2>2, <3>1 DEF ListInv, Listed
    <3>3. ManagerInv'
      BY <2>1, <2>4, <3>1
    <3> QED BY <3>2, <3>3
  <2> QED BY <1>6, <2>3, <2>4, PoolEffect DEF InPool
<1>7. ASSUME NEW th \in Threads, TaskFinished(th) PROVE ListInv' /\ ManagerInv'
  <2>1. /\ rpc[th] = "finished" /\ rpc' = [rpc EXCEPT ![th] = "done"] /\ tmMutex = None
        /\ UNCHANGED <<tmMutex, mpc, marg, vars>> /\ taskList' = RemoveFirst(taskList, running[th])
    BY <1>7 DEF TaskFinished, Without
  <2>2. UNCHANGED <<target, arg, op, pc>>
    BY <2>1 DEF vars, threadVars, callVars
  <2>3. \A c \in Clients : mpc[c] # "starting"
    BY <2>1
  <2>4. /\ running[th] = target[th] /\ target[th] \in Targets
        /\ \A other \in Threads \ {th} : target[other] # target[th]
    BY <2>1, RunsItsTarget
  <2>5. Range(taskList') = Range(taskList) \ {target[th]} /\ IsInjective(taskList')
    BY <1>0, <2>1, <2>4, EraseFirst
  <2>6. \A t : ~Starting(t) /\ ~Starting(t)'
    BY <2>1, <2>3 DEF Starting
  <2>7. \A t : Holding(t)' <=> Holding(t) /\ t # target[th]
    BY <2>1, <2>2, <2>4 DEF Holding
  <2>8. ListInv'
    BY <1>0, <2>5, <2>6, <2>7 DEF ListInv, Listed
  <2>9. ManagerInv'
    BY <2>1, <2>2, <2>3
  <2> QED BY <2>8, <2>9
<1>8. ASSUME NEW th \in Threads, LeaveRun(th) PROVE ListInv' /\ ManagerInv'
  <2>1. /\ rpc[th] = "done" /\ rpc' = [rpc EXCEPT ![th] = "none"] /\ target' = [target EXCEPT ![th] = None]
        /\ UNCHANGED <<tmMutex, taskList, mpc, marg, arg, op, pc>>
    BY <1>8 DEF LeaveRun, WorkerComplete, callVars
  <2>2. \A t : Starting(t)' <=> Starting(t)
    BY <2>1 DEF Starting
  <2>3. \A t \in Targets : Holding(t)' <=> Holding(t)
    BY <2>1 DEF Holding
  <2>4. ListInv'
    BY <1>0, <2>1, <2>2, <2>3 DEF ListInv, Listed
  <2>5. ManagerInv'
    BY <2>1, <2>3
  <2> QED BY <2>4, <2>5
<1>9. ASSUME NEW th \in Threads, (TaskStep(th) /\ ~TaskFinished(th) /\ ~LeaveRun(th)) \/ SetProgress(th) \/ EndTask(th) \/ (Expire(th) /\ UNCHANGED tmVars)
      PROVE  ListInv' /\ ManagerInv'
  <2>1. UNCHANGED <<taskList, target, arg, op, marg, mpc, pc, tmMutex>>
    BY <1>9 DEF TaskStep, WorkerWake, WorkerCheck, EnterRun, WorkerRun, BeginTask, TaskProgress, SetProgress, EndTask,
       Expire, vars, threadVars, callVars
  <2>2. \A x \in Threads : rpc'[x] = "done" <=> rpc[x] = "done"
    BY <1>9 DEF TaskStep, WorkerWake, WorkerCheck, EnterRun, WorkerRun, BeginTask, TaskProgress, SetProgress, EndTask,
       Expire, TaskRunInv
  <2> QED BY <1>1, <2>1, <2>2
<1>10. ASSUME NEW c \in Clients, NEW t \in Targets, CancelTask(c, t) \/ Reset(c, t) PROVE ListInv' /\ ManagerInv'
  <2>1. UNCHANGED <<taskList, target, arg, op, marg, mpc, pc, tmMutex, rpc>>
    BY <1>10 DEF CancelTask, Reset, vars, threadVars, callVars
  <2> QED BY <1>1, <2>1
<1>11. ASSUME NEW c \in Clients, CallCancelAll(c) \/ BeginCancelAll(c) \/ CancelNext(c) \/ EndCancelAll(c) PROVE ListInv' /\ ManagerInv'
  <2>1. UNCHANGED <<taskList, target, arg, op, marg, pc, rpc>>
    BY <1>11 DEF CallCancelAll, BeginCancelAll, CancelNext, EndCancelAll, vars, threadVars, callVars
  <2>2. \A d \in Clients : mpc'[d] = mpc[d] \/ (mpc[d] \notin {"starting", "lockStart"} /\ mpc'[d] \notin {"starting", "lockStart"})
    BY <1>11 DEF CallCancelAll, BeginCancelAll, CancelNext, EndCancelAll
  <2>3. \A d \in Clients : mpc'[d] \in {"starting", "cancel"} <=> tmMutex' = d
    BY <1>11 DEF CallCancelAll, BeginCancelAll, CancelNext, EndCancelAll, Unlocked
  <2> QED BY <1>1, <2>1, <2>2, <2>3
<1> QED
  BY <1>2, <1>3, <1>4, <1>5, <1>6, <1>7, <1>8, <1>9, <1>10, <1>11 DEF TMNext, ManagerStep, TaskStep

\* A new manager on a new pool satisfies the invariant.
LEMMA TMInvInit == TMInit => TMInv
<1> SUFFICES ASSUME TMInit PROVE TMInv
  OBVIOUS
<1>1. TypeInv /\ OpenInv
  BY TypeInit, PoolInit DEF TMInit
<1> USE PoolAssumption, TaskAssumption DEF TMInit
<1>2. cancelEvent \in [Targets -> BOOLEAN]
  BY Zenon
<1>3. TMTypeOK
  BY <1>1, <1>2, EmptySeq DEF TypeInv, TMTypeOK, ManagerPC, RunPC, TaskStates
<1>4. Range(<<>>) = {} /\ IsInjective(<<>>)
  BY DEF Range, IsInjective
<1>5. \A t \in Targets : ~Starting(t) /\ ~Holding(t)
  BY DEF Starting, Holding, Init
<1>6. ListInv
  BY <1>4, <1>5 DEF ListInv, Listed
<1>7. ManagerInv /\ TaskRunInv
  BY DEF ManagerInv, TaskRunInv, Init, Ops
<1> QED BY <1>1, <1>3, <1>6, <1>7 DEF TMInv

\* Every step preserves the invariant.
LEMMA TMInvStep == TMInv /\ [TMNext]_allVars => TMInv'
<1> SUFFICES ASSUME TMInv, [TMNext]_allVars PROVE TMInv'
  OBVIOUS
<1>1. TypeInv' /\ OpenInv'
  BY PoolStaysSound
<1>2. CASE TMNext
  BY <1>1, <1>2, TMTypeStep, TaskRunStep, ListStep DEF TMInv
<1>3. CASE UNCHANGED allVars
  <2>1. UNCHANGED <<tmMutex, taskList, taskState, cancelEvent, mpc, marg, cancelling, rpc, target, wpc, op, arg, pc>>
    BY <1>3 DEF allVars, vars, tmVars, taskVars, threadVars, callVars
  <2>2. \A t : (Starting(t)' <=> Starting(t)) /\ (Holding(t)' <=> Holding(t))
    BY <2>1 DEF Starting, Holding
  <2>3. TMTypeOK'
    BY <1>1, <2>1 DEF TMInv, TMTypeOK, TypeInv
  <2>4. ListInv'
    BY <2>1, <2>2 DEF TMInv, ListInv, Listed
  <2>5. ManagerInv' /\ TaskRunInv'
    BY <2>1, <2>2 DEF TMInv, ManagerInv, TaskRunInv
  <2> QED BY <1>1, <2>3, <2>4, <2>5 DEF TMInv
<1> QED BY <1>2, <1>3

-----------------------------------------------------------------------------
(* What follows.                                                           *)

\* The invariant holds of every reachable state.
THEOREM ManagerSound == TMSpec => []TMInv
  BY TMInvInit, TMInvStep, PTL DEF TMSpec

\* The manager's pool behaves as the pool's specification says, although
\* start() calls it with the manager's mutex held.
THEOREM UsesPool == TMSpec => Spec
<1>1. TMInit => Init
  BY DEF TMInit
<1> QED BY <1>1, PoolRefined, ManagerSound, PTL DEF TMSpec, Spec

\* The list holds exactly the tasks that start() works on or the pool has.
THEOREM ListIsExact == TMSpec => []TaskListExact
<1>1. TMInv => TaskListExact
  BY DEF TMInv, ListInv, TaskListExact, Starting, Holding
<1> QED BY <1>1, ManagerSound, PTL

\* Under a task manager, which never stops its pool, the pool's assertions
\* hold, no thread calls through a null _pTarget, and every accepted task is
\* held by one thread until it has run.
THEOREM TasksNeverDropped == TMSpec => [](AssertionsHold /\ NoNullCall /\ AcceptedTargetHeld)
<1>1. TMInv => ~Closing
  BY DEF TMInv, OpenInv, MutexInv, Closing
<1> QED BY <1>1, UsesPool, ManagerSound, AssertionsNeverFail, NullNeverCalled, AcceptedIsHeld, PTL

\* The manager's tasks are run as the Executor promises: a task start() puts in
\* the list and the pool accepts is run exactly once.
THEOREM TasksAreExecuted == TMSpec => ImplementsExecutor
  BY UsesPool, PoolIsExecutor, PTL
=============================================================================
