-------------------------- MODULE ThreadPoolProofs --------------------------
(***************************************************************************)
(* Theorems about ThreadPool, for any number of clients, targets, pooled   *)
(* threads and any capacities.                                             *)
(***************************************************************************)
EXTENDS ThreadPool, FiniteSetTheorems, TLAPS

\* TypeOK is inductive together with this: release() has an object.
TypeInv == TypeOK /\ \A c \in Clients : pc[c] = "tryJoin" => cur[c] \in Threads

\* The constructor leaves well-typed state.
LEMMA TypeInit == Init => TypeInv
  BY PoolAssumption, FS_EmptySet DEF Init, TypeInv, TypeOK, Unsorted, WorkerPC, ClientPC, Fates, Ops

\* What BeginHousekeep leaves is well typed.
LEMMA HousekeepType ==
  ASSUME TypeOK, NEW c \in Clients, NEW next \in ClientPC \ {"tryJoin"},
         NEW rest \in SUBSET Threads, IsFiniteSet(rest), BeginHousekeep(c, next, rest)
  PROVE  /\ age' \in 0 .. HousekeepAge - 1
         /\ sorted' \in [idle : SUBSET Threads, expired : SUBSET Threads, active : SUBSET Threads]
         /\ IsFiniteSet(sorted'.idle) /\ IsFiniteSet(sorted'.expired) /\ IsFiniteSet(sorted'.active)
         /\ pc' \in [Clients -> ClientPC] /\ pc'[c] # "tryJoin"
         /\ \A d \in Clients \ {c} : pc'[d] = pc[d]
         /\ todo' \subseteq Threads /\ IsFiniteSet(todo')
  BY PoolAssumption, FS_EmptySet DEF BeginHousekeep, Unsorted, TypeOK, Goto, ClientPC

\* Every step of the pool preserves the types.
LEMMA TypeStep == TypeInv /\ [Next]_vars => TypeInv'
<1> SUFFICES ASSUME TypeInv, [Next]_vars PROVE TypeInv'
  OBVIOUS
<1> USE DEF TypeInv, TypeOK, Goto, WorkerPC, ClientPC, Fates, Ops, poolVars, threadVars, callVars, historyVars
<1>1. ASSUME NEW c \in Clients, AcquireStart(c) PROVE TypeInv'
  <2>1. CASE BeginHousekeep(c, "scan", threads)
    <3> HIDE DEF Goto
    <3> QED BY <1>1, <2>1, HousekeepType DEF AcquireStart, Acquire
  <2>2. CASE age + 1 # HousekeepAge
    BY <1>1, <2>2, PoolAssumption DEF AcquireStart, Acquire, HousekeepDue
  <2> QED BY <1>1, <2>1, <2>2 DEF AcquireStart, HousekeepDue
<1>2. ASSUME NEW c \in Clients, AcquireCollect(c) PROVE TypeInv'
  BY <1>2, HousekeepType, FS_EmptySet DEF AcquireCollect, Acquire
<1>3. ASSUME NEW c \in Clients, AcquireJoinAll(c) PROVE TypeInv'
  BY <1>3 DEF AcquireJoinAll, AcquireLoop, LoopThreads, Acquire
<1>4. ASSUME NEW c \in Clients, AcquireStopAll(c) PROVE TypeInv'
  BY <1>4 DEF AcquireStopAll, AcquireLoop, LoopThreads, Acquire
<1>5. ASSUME NEW c \in Clients, Classify(c) PROVE TypeInv'
  <2>1. PICK th \in todo :
          /\ todo' = todo \ {th}
          /\ \/ sorted' = [sorted EXCEPT !.active = @ \cup {th}]
             \/ sorted' = [sorted EXCEPT !.expired = @ \cup {th}]
             \/ sorted' = [sorted EXCEPT !.idle = @ \cup {th}]
    BY <1>5, Zenon DEF Classify
  <2>2. todo' \subseteq Threads /\ IsFiniteSet(todo')
    BY <2>1, FS_RemoveElement
  <2>3. /\ sorted' \in [idle : SUBSET Threads, expired : SUBSET Threads, active : SUBSET Threads]
        /\ sorted'.idle \in {sorted.idle, sorted.idle \cup {th}}
        /\ sorted'.expired \in {sorted.expired, sorted.expired \cup {th}}
        /\ sorted'.active \in {sorted.active, sorted.active \cup {th}}
    BY <2>1
  <2>4. IsFiniteSet(sorted'.idle) /\ IsFiniteSet(sorted'.expired) /\ IsFiniteSet(sorted'.active)
    <3>1. \A S \in {sorted.idle, sorted.expired, sorted.active} : IsFiniteSet(S \cup {th})
      BY FS_AddElement
    <3> QED BY <2>3, <3>1
  <2> QED BY <1>5, <2>2, <2>3, <2>4 DEF Classify
<1>6. ASSUME NEW c \in Clients, Rebuild(c) PROVE TypeInv'
  <2>1. PICK keep \in SUBSET sorted.expired :
          /\ threads' = (sorted.idle \cup keep) \cup sorted.active
          /\ todo' = sorted.expired \ keep
    BY <1>6 DEF Rebuild
  <2>2. IsFiniteSet(keep) /\ IsFiniteSet(todo') /\ todo' \subseteq Threads
    BY <2>1, FS_Subset
  <2>3. IsFiniteSet(threads') /\ threads' \subseteq Threads
    BY <2>1, <2>2, FS_Union
  <2> QED BY <1>6, <2>2, <2>3, FS_EmptySet DEF Rebuild, Unsorted
<1>7. ASSUME NEW c \in Clients, Release(c) PROVE TypeInv'
  BY <1>7, FS_RemoveElement DEF Release, Dropped
<1>8. ASSUME NEW c \in Clients, TryJoinOk(c) PROVE TypeInv'
  BY <1>8 DEF TryJoinOk
<1>9. ASSUME NEW c \in Clients, TryJoinTimeout(c) PROVE TypeInv'
  BY <1>9 DEF TryJoinTimeout
<1>10. ASSUME NEW c \in Clients, ReleaseDone(c) PROVE TypeInv'
  BY <1>10, FS_EmptySet, ZenonT(40) DEF ReleaseDone
<1>11. ASSUME NEW c \in Clients, ScanBusy(c) PROVE TypeInv'
  BY <1>11, FS_RemoveElement DEF ScanBusy
<1>12. ASSUME NEW c \in Clients, ScanIdle(c) PROVE TypeInv'
  BY <1>12, FS_EmptySet DEF ScanIdle
<1>13. ASSUME NEW c \in Clients, ScanNone(c) PROVE TypeInv'
  BY <1>13 DEF ScanNone, Throw
<1>14. ASSUME NEW c \in Clients, Create(c) PROVE TypeInv'
  <2>1. PICK th \in Threads : threads' = threads \cup {th} /\ cur' = [cur EXCEPT ![c] = th]
        /\ wpc' = [wpc EXCEPT ![th] = "wait"]
        /\ idle' = [idle EXCEPT ![th] = TRUE]
        /\ expired' = [expired EXCEPT ![th] = FALSE]
        /\ target' = [target EXCEPT ![th] = None]
        /\ ready' = [ready EXCEPT ![th] = FALSE]
        /\ completed' = [completed EXCEPT ![th] = FALSE]
    BY <1>14 DEF Create
  <2>2. IsFiniteSet(threads') /\ threads' \subseteq Threads
    BY <2>1, FS_AddElement, ZenonT(40)
  <2> QED BY <1>14, <2>1, <2>2 DEF Create
<1>15. ASSUME NEW c \in Clients, CreateFails(c) PROVE TypeInv'
  BY <1>15 DEF CreateFails, Throw
<1>16. ASSUME NEW c \in Clients, Activate(c) PROVE TypeInv'
  BY <1>16 DEF Activate
<1>17. ASSUME NEW c \in Clients, Assign(c) PROVE TypeInv'
  BY <1>17 DEF Assign
<1>18. ASSUME NEW c \in Clients, JoinBusy(c) PROVE TypeInv'
  BY <1>18 DEF JoinBusy
<1>19. ASSUME NEW c \in Clients, JoinFree(c) PROVE TypeInv'
  BY <1>19, FS_RemoveElement DEF JoinFree
<1>20. ASSUME NEW c \in Clients, JoinWait(c) PROVE TypeInv'
  BY <1>20, FS_RemoveElement DEF JoinWait
<1>21. ASSUME NEW c \in Clients, JoinDone(c) PROVE TypeInv'
  BY <1>21, HousekeepType, FS_EmptySet DEF JoinDone
<1>22. ASSUME NEW c \in Clients, NEW n \in Deltas, AcquireAddCapacity(c, n) PROVE TypeInv'
  <2>1. CASE BeginHousekeep(c, "release", {}) /\ maxCapacity' = maxCapacity + n /\ maxCapacity + n >= MinCapacity
    <3>1. maxCapacity' \in MinCapacity .. CapacityBound
      BY <1>22, <2>1, PoolAssumption DEF AcquireAddCapacity
    <3> QED BY <1>22, <2>1, <3>1, HousekeepType, FS_EmptySet DEF AcquireAddCapacity
  <2>2. CASE maxCapacity + n < MinCapacity /\ Goto(c, "throw") /\ UNCHANGED <<poolMutex, maxCapacity, age, todo, sorted>>
    BY <1>22, <2>2 DEF AcquireAddCapacity
  <2> QED BY <1>22, <2>1, <2>2 DEF AcquireAddCapacity, CapacityAllowed
<1>23. ASSUME NEW c \in Clients, NEW t \in Targets, CallStart(c, t) PROVE TypeInv'
  BY <1>23 DEF CallStart
<1>24. ASSUME NEW c \in Clients, NEW o \in Ops, CallOther(c, o) PROVE TypeInv'
  BY <1>24 DEF CallOther
<1>25. ASSUME NEW c \in Clients, Return(c) PROVE TypeInv'
  BY <1>25 DEF Return
<1>26. ASSUME NEW th \in Threads, WorkerWake(th) PROVE TypeInv'
  BY <1>26 DEF WorkerWake
<1>27. ASSUME NEW th \in Threads, WorkerCheck(th) PROVE TypeInv'
  BY <1>27 DEF WorkerCheck
<1>28. ASSUME NEW th \in Threads, WorkerRun(th) PROVE TypeInv'
  BY <1>28 DEF WorkerRun
<1>29. ASSUME NEW th \in Threads, WorkerComplete(th) PROVE TypeInv'
  BY <1>29 DEF WorkerComplete
<1>30. ASSUME NEW th \in Threads, Expire(th) PROVE TypeInv'
  BY <1>30 DEF Expire
<1>31. CASE UNCHANGED vars
  BY <1>31 DEF vars
<1> HIDE DEF TypeInv
<1> QED
  BY <1>1, <1>2, <1>3, <1>4, <1>5, <1>6, <1>7, <1>8, <1>9, <1>10, <1>11, <1>12, <1>13, <1>14, <1>15, <1>16, <1>17, <1>18, <1>19, <1>20, <1>21, <1>22, <1>23, <1>24, <1>25, <1>26, <1>27, <1>28, <1>29, <1>30, <1>31 DEF Next, PoolStep, Worker

\* Every variable of the pool keeps its type, stopAll() included.
THEOREM TypeCorrect == Spec => []TypeOK
<1>1. TypeInv => TypeOK
  BY DEF TypeInv
<1> QED BY <1>1, TypeInit, TypeStep, PTL DEF Spec

-----------------------------------------------------------------------------
(* The inductive invariant of a pool until stopAll() is called.            *)

\* A thread that has a target is in the pool, busy, and the target accepted.
LEMMA HeldTarget ==
  ASSUME ThreadInv, NEW th \in Threads, target[th] # None
  PROVE  /\ th \in threads /\ target[th] \in Targets /\ ~idle[th]
         /\ fate[target[th]] = IF wpc[th] = "run" THEN "running" ELSE "pending"
  BY DEF ThreadInv

\* A target start() has not accepted is in no thread.
LEMMA CalledNotHeld ==
  ASSUME ThreadInv, NEW t \in Targets, fate[t] \in {"called", "rest"}, NEW th \in Threads
  PROVE  target[th] # t
  BY HeldTarget, PoolAssumption

\* The constructor establishes the invariant.
LEMMA PoolInit == Init => OpenInv
  BY PoolAssumption DEF Init, OpenInv, MutexInv, LoopInv, ThreadInv, HandoffInv, FateInv,
     Locked, InStart, Ops

\* Every step of a pool that is not being stopped preserves the invariant.
LEMMA OpenStep == ASSUME TypeOK, TypeOK', OpenInv, [Next]_vars, ~Closing' PROVE OpenInv'
<1> USE PoolAssumption
    DEF TypeOK, WorkerPC, ClientPC, Fates, Ops, poolVars, threadVars, callVars, historyVars,
        Goto, Locked, InStart, OpenInv, MutexInv, LoopInv, ThreadInv, HandoffInv, FateInv
<1>1. ASSUME NEW c \in Clients, AcquireStart(c) PROVE OpenInv'
  <2>1. MutexInv'
    <3>1. op[c] = "start" /\ pc[c] = "lock" /\ UNCHANGED <<op, arg, fate>>
      BY <1>1 DEF AcquireStart, Acquire
    <3>2. \/ pc' = [pc EXCEPT ![c] = "classify"] /\ poolMutex' = c
          \/ pc' = [pc EXCEPT ![c] = "scan"] /\ poolMutex' = c
      BY <1>1 DEF AcquireStart, Acquire, BeginHousekeep
    <3>3. \A d \in Clients : InStart(d)' = InStart(d)
      BY <3>1, <3>2
    <3>4. \A d \in Clients : pc'[d] \in Locked <=> poolMutex' = d
      BY <1>1, <3>2 DEF AcquireStart, Acquire
    <3>5. \A d \in Clients : pc'[d] \in {"scan", "create", "activate", "assign"} =>
            pc'[d] = pc[d] \/ d = c
      BY <3>2
    <3> HIDE DEF InStart
    <3> QED BY <3>1, <3>3, <3>4, <3>5
  <2>2. LoopInv'
    BY <1>1 DEF AcquireStart, Acquire, BeginHousekeep, Unsorted
  <2>3. ThreadInv'
    BY <1>1 DEF AcquireStart, Acquire, BeginHousekeep, Unsorted
  <2>4. HandoffInv'
    BY <1>1 DEF AcquireStart, Acquire, BeginHousekeep, Unsorted
  <2>5. FateInv'
    BY <1>1 DEF AcquireStart, Acquire, BeginHousekeep, Unsorted
  <2> QED BY <2>1, <2>2, <2>3, <2>4, <2>5 DEF OpenInv
<1>2. ASSUME NEW c \in Clients, AcquireCollect(c) PROVE OpenInv'
  <2>1. MutexInv'
    BY <1>2 DEF AcquireCollect, Acquire, BeginHousekeep, Unsorted
  <2>2. LoopInv'
    BY <1>2 DEF AcquireCollect, Acquire, BeginHousekeep, Unsorted
  <2>3. ThreadInv'
    BY <1>2 DEF AcquireCollect, Acquire, BeginHousekeep, Unsorted
  <2>4. HandoffInv'
    BY <1>2 DEF AcquireCollect, Acquire, BeginHousekeep, Unsorted
  <2>5. FateInv'
    BY <1>2 DEF AcquireCollect, Acquire, BeginHousekeep, Unsorted
  <2> QED BY <2>1, <2>2, <2>3, <2>4, <2>5 DEF OpenInv
<1>3. ASSUME NEW c \in Clients, AcquireJoinAll(c) PROVE OpenInv'
  BY <1>3 DEF AcquireJoinAll, AcquireLoop, LoopThreads, Acquire
<1>4. ASSUME NEW c \in Clients, Classify(c) PROVE OpenInv'
  BY <1>4 DEF Classify, IsIdle
<1>5. ASSUME NEW c \in Clients, Rebuild(c) PROVE OpenInv'
  BY <1>5 DEF Rebuild, Unsorted
<1>6. ASSUME NEW c \in Clients, Release(c) PROVE OpenInv'
  BY <1>6 DEF Release, Dropped
<1>7. ASSUME NEW c \in Clients, TryJoinOk(c) PROVE OpenInv'
  BY <1>7 DEF TryJoinOk
<1>8. ASSUME NEW c \in Clients, TryJoinTimeout(c) PROVE OpenInv'
  BY <1>8 DEF TryJoinTimeout
<1>9. ASSUME NEW c \in Clients, ReleaseDone(c) PROVE OpenInv'
  <2>1. MutexInv'
    BY <1>9, SMTT(40) DEF ReleaseDone
  <2>2. LoopInv'
    BY <1>9 DEF ReleaseDone
  <2>3. ThreadInv'
    BY <1>9 DEF ReleaseDone
  <2>4. HandoffInv'
    BY <1>9 DEF ReleaseDone
  <2>5. FateInv'
    BY <1>9 DEF ReleaseDone
  <2> QED BY <2>1, <2>2, <2>3, <2>4, <2>5 DEF OpenInv
<1>10. ASSUME NEW c \in Clients, ScanBusy(c) PROVE OpenInv'
  BY <1>10 DEF ScanBusy
<1>11. ASSUME NEW c \in Clients, ScanIdle(c) PROVE OpenInv'
  BY <1>11 DEF ScanIdle
<1>12. ASSUME NEW c \in Clients, ScanNone(c) PROVE OpenInv'
  <2>1. MutexInv'
    BY <1>12, SMTT(40) DEF ScanNone, Throw
  <2>2. LoopInv'
    BY <1>12 DEF ScanNone, Throw
  <2>3. ThreadInv'
    <3>1. CASE Throw(c)
      <4>1. \A th \in Threads : target[th] # arg[c]
        BY <1>12, <3>1, SMTT(40) DEF ScanNone
      <4>2. \A t \in Targets \ {arg[c]} : fate'[t] = fate[t]
        BY <3>1 DEF Throw
      <4> QED BY <1>12, <4>1, <4>2 DEF ScanNone
    <3>2. CASE UNCHANGED fate
      BY <1>12, <3>2 DEF ScanNone
    <3> QED BY <1>12, <3>1, <3>2 DEF ScanNone
  <2>4. HandoffInv'
    BY <1>12 DEF ScanNone, Throw
  <2>5. FateInv'
    BY <1>12 DEF ScanNone, Throw
  <2> QED BY <2>1, <2>2, <2>3, <2>4, <2>5 DEF OpenInv
<1>13. ASSUME NEW c \in Clients, Create(c) PROVE OpenInv'
  <2>1. MutexInv'
    BY <1>13 DEF Create
  <2>2. LoopInv'
    BY <1>13 DEF Create
  <2>3. ThreadInv'
    BY <1>13 DEF Create
  <2>4. HandoffInv'
    BY <1>13 DEF Create
  <2>5. FateInv'
    <3>1. PICK th \in Threads : th \notin threads /\ target' = [target EXCEPT ![th] = None] /\ threads' = threads \cup {th}
      BY <1>13 DEF Create
    <3>2. target' = target
      BY <3>1
    <3> QED BY <1>13, <3>1, <3>2 DEF Create
  <2> QED BY <2>1, <2>2, <2>3, <2>4, <2>5 DEF OpenInv
<1>14. ASSUME NEW c \in Clients, CreateFails(c) PROVE OpenInv'
  BY <1>14, SMTT(40) DEF CreateFails, Throw
<1>15. ASSUME NEW c \in Clients, Activate(c) PROVE OpenInv'
  BY <1>15 DEF Activate
<1>16. ASSUME NEW c \in Clients, Assign(c) PROVE OpenInv'
  <2>1. /\ cur[c] \in threads /\ arg[c] \in Targets /\ fate[arg[c]] = "called"
        /\ wpc[cur[c]] = "wait" /\ ~idle[cur[c]]
    <3>1. pc[c] = "assign" /\ op[c] = "start"
      BY <1>16 DEF Assign
    <3>2. arg[c] \in Targets /\ fate[arg[c]] = "called"
      BY <3>1
    <3>3. cur[c] \in threads /\ ~idle[cur[c]] /\ target[cur[c]] = None
      BY <3>1
    <3> QED BY <3>2, <3>3
  <2>2. \A th \in Threads : target[th] # arg[c]
    BY <2>1, CalledNotHeld DEF OpenInv
  <2>3. ThreadInv'
    <3> SUFFICES ASSUME NEW th \in Threads PROVE ThreadInv!(th)'
      BY Zenon DEF ThreadInv
    <3>1. CASE th = cur[c]
      BY <1>16, <2>1, <3>1 DEF Assign
    <3>2. CASE th # cur[c]
      BY <1>16, <2>1, <2>2, <3>2 DEF Assign
    <3> QED BY <3>1, <3>2
  <2>4. MutexInv'
    <3>0. InStart(c)
      BY <1>16 DEF Assign
    <3>1. \A d \in Clients \ {c} : InStart(d) => arg[d] # arg[c]
      <4> HIDE DEF InStart
      <4> QED BY <3>0
    <3>2. ~InStart(c)' /\ \A d \in Clients \ {c} : InStart(d)' = InStart(d)
      BY <1>16 DEF Assign
    <3>3. \A t \in Targets \ {arg[c]} : fate'[t] = fate[t]
      BY <1>16 DEF Assign
    <3> QED BY <1>16, <3>1, <3>2, <3>3 DEF Assign
  <2>5. LoopInv' /\ HandoffInv' /\ FateInv'
    BY <1>16, <2>1, <2>2 DEF Assign
  <2> QED BY <2>3, <2>4, <2>5 DEF OpenInv
<1>17. ASSUME NEW c \in Clients, JoinBusy(c) PROVE OpenInv'
  BY <1>17 DEF JoinBusy
<1>18. ASSUME NEW c \in Clients, JoinFree(c) PROVE OpenInv'
  BY <1>18 DEF JoinFree
<1>19. ASSUME NEW c \in Clients, JoinWait(c) PROVE OpenInv'
  BY <1>19 DEF JoinWait
<1>20. ASSUME NEW c \in Clients, JoinDone(c) PROVE OpenInv'
  <2>1. MutexInv'
    BY <1>20 DEF JoinDone, BeginHousekeep, Unsorted
  <2>2. LoopInv'
    BY <1>20 DEF JoinDone, BeginHousekeep, Unsorted
  <2>3. ThreadInv'
    BY <1>20 DEF JoinDone, BeginHousekeep, Unsorted
  <2>4. HandoffInv'
    BY <1>20 DEF JoinDone, BeginHousekeep, Unsorted
  <2>5. FateInv'
    BY <1>20 DEF JoinDone, BeginHousekeep, Unsorted
  <2> QED BY <2>1, <2>2, <2>3, <2>4, <2>5 DEF OpenInv
<1>21. ASSUME NEW c \in Clients, NEW n \in Deltas, AcquireAddCapacity(c, n) PROVE OpenInv'
  <2>1. MutexInv'
    <3>1. op[c] = "addCapacity" /\ pc[c] = "lock" /\ UNCHANGED <<op, arg, fate>>
      BY <1>21 DEF AcquireAddCapacity
    <3>2. \/ pc' = [pc EXCEPT ![c] = "classify"] /\ poolMutex' = c
          \/ pc' = [pc EXCEPT ![c] = "release"] /\ poolMutex' = c
          \/ pc' = [pc EXCEPT ![c] = "throw"] /\ poolMutex' = None
      BY <1>21 DEF AcquireAddCapacity, BeginHousekeep
    <3>3. poolMutex = None 
      BY <1>21 DEF AcquireAddCapacity
    <3>4. \A d \in Clients : InStart(d)' = InStart(d)
      BY <3>1, <3>2
    <3>5. \A d \in Clients : pc'[d] \in Locked <=> poolMutex' = d
      BY <3>2, <3>3
    <3>6. \A d \in Clients : pc'[d] \in {"scan", "create", "activate", "assign"} => pc'[d] = pc[d]
      BY <3>2
    <3> HIDE DEF InStart
    <3> QED BY <3>1, <3>4, <3>5, <3>6
  <2>2. LoopInv'
    BY <1>21 DEF AcquireAddCapacity, BeginHousekeep, Unsorted
  <2>3. ThreadInv'
    BY <1>21 DEF AcquireAddCapacity, BeginHousekeep, Unsorted
  <2>4. HandoffInv'
    BY <1>21 DEF AcquireAddCapacity, BeginHousekeep, Unsorted
  <2>5. FateInv'
    BY <1>21 DEF AcquireAddCapacity, BeginHousekeep, Unsorted
  <2> QED BY <2>1, <2>2, <2>3, <2>4, <2>5 DEF OpenInv
<1>22. ASSUME NEW c \in Clients, NEW t \in Targets, CallStart(c, t) PROVE OpenInv'
  BY <1>22 DEF CallStart
<1>23. ASSUME NEW c \in Clients, NEW o \in Ops, CallOther(c, o) PROVE OpenInv'
  <2>1. o # "stopAll"
    BY <1>23 DEF CallOther, Closing
  <2> QED BY <1>23, <2>1 DEF CallOther
<1>24. ASSUME NEW c \in Clients, Return(c) PROVE OpenInv'
  BY <1>24 DEF Return
<1>25. ASSUME NEW th \in Threads, WorkerWake(th) PROVE OpenInv'
  BY <1>25 DEF WorkerWake
<1>26. ASSUME NEW th \in Threads, WorkerCheck(th) PROVE OpenInv'
  BY <1>26 DEF WorkerCheck
<1>27. ASSUME NEW th \in Threads, WorkerRun(th) PROVE OpenInv'
  <2>1. MutexInv' /\ LoopInv'
    BY <1>27 DEF WorkerRun
  <2>2. ThreadInv'
    BY <1>27, SMTT(40) DEF WorkerRun
  <2>3. HandoffInv' /\ FateInv'
    BY <1>27 DEF WorkerRun
  <2> QED BY <2>1, <2>2, <2>3 DEF OpenInv
<1>28. ASSUME NEW th \in Threads, WorkerComplete(th) PROVE OpenInv'
  BY <1>28 DEF WorkerComplete
<1>29. ASSUME NEW th \in Threads, Expire(th) PROVE OpenInv'
  BY <1>29 DEF Expire
<1>30. CASE UNCHANGED vars
  BY <1>30 DEF vars
<1>31. ASSUME NEW c \in Clients PROVE ~AcquireStopAll(c)
  BY DEF AcquireStopAll, AcquireLoop, Acquire
<1> HIDE DEF OpenInv
<1> QED
  BY <1>1, <1>2, <1>3, <1>4, <1>5, <1>6, <1>7, <1>8, <1>9, <1>10, <1>11, <1>12, <1>13, <1>14, <1>15, <1>16, <1>17, <1>18, <1>19, <1>20, <1>21, <1>22, <1>23, <1>24, <1>25, <1>26, <1>27, <1>28, <1>29, <1>30, <1>31 DEF Next, PoolStep, Worker

\* Once stopAll() is called the pool stays closed.
LEMMA StaysClosed == ASSUME TypeOK, Closing, [Next]_vars PROVE Closing'
<1>1. PICK c \in Clients : op[c] = "stopAll"
  BY DEF Closing
<1> SUFFICES op'[c] = "stopAll"
  BY DEF Closing
<1>2. ASSUME NEW d \in Clients, Return(d) PROVE op'[c] = "stopAll"
  BY <1>1, <1>2 DEF Return, TypeOK
<1>3. ASSUME NEW d \in Clients, PoolStep(d) PROVE op' = op
  BY <1>3 DEF PoolStep, AcquireStart, AcquireCollect, AcquireJoinAll, AcquireStopAll, AcquireLoop,
     AcquireAddCapacity, Classify, Rebuild, Release, TryJoinOk, TryJoinTimeout, ReleaseDone,
     ScanBusy, ScanIdle, ScanNone, Create, CreateFails, Activate, Assign, JoinBusy, JoinFree,
     JoinWait, JoinDone
<1>4. ASSUME NEW th \in Threads, Worker(th) \/ Expire(th) PROVE op' = op
  BY <1>4 DEF Worker, WorkerWake, WorkerCheck, WorkerRun, WorkerComplete, Expire, callVars
<1>5. CASE UNCHANGED vars
  BY <1>1, <1>5 DEF vars, callVars
<1> QED BY <1>1, <1>2, <1>3, <1>4, <1>5 DEF Next, CallStart, CallOther

\* Until stopAll() is called, whoever is about to touch a pooled thread is
\* entitled to it.
THEOREM PoolInvariant == Spec => []PoolInv
<1>1. Init => PoolInv
  BY PoolInit DEF PoolInv
<1>2. TypeOK /\ TypeOK' /\ PoolInv /\ [Next]_vars => PoolInv'
  BY StaysClosed, OpenStep DEF PoolInv
<1> QED BY <1>1, <1>2, TypeCorrect, PTL DEF Spec

\* run() never calls through a null _pTarget as long as nobody calls stopAll().
THEOREM NullNeverCalled == Spec => [](~Closing => NoNullCall)
<1>1. PoolInv => (~Closing => NoNullCall)
  BY DEF PoolInv, OpenInv, ThreadInv, NoNullCall
<1> QED BY <1>1, PoolInvariant, PTL

\* An accepted target sits in exactly one busy thread, with its wake-up on the
\* way, until it has run or the pool is stopped.
THEOREM AcceptedIsHeld == Spec => []AcceptedTargetHeld
<1>1. ASSUME TypeOK, OpenInv, NEW t \in Targets PROVE AcceptedTargetHeld!2!(t)
  <2>1. CASE fate[t] \in {"pending", "running"}
    <3>1. PICK th \in threads : target[th] = t
      BY <1>1, <2>1 DEF OpenInv, FateInv
    <3>2. th \in Threads /\ target[th] # None
      BY <1>1, <3>1, PoolAssumption DEF TypeOK
    <3>3. \A other \in Threads \ {th} : target[other] # t
      BY <1>1, <3>1, <3>2 DEF OpenInv, FateInv
    <3>4. /\ ~idle[th]
          /\ \/ wpc[th] = "wait" /\ ready[th] /\ fate[t] = "pending"
             \/ wpc[th] \in {"check", "deref"} /\ fate[t] = "pending"
             \/ wpc[th] = "run" /\ running[th] = t /\ fate[t] = "running"
      BY <1>1, <3>1, <3>2 DEF OpenInv, ThreadInv
    <3>5. fate[t] # "dropped"
      BY <1>1 DEF OpenInv, FateInv
    <3> QED BY <3>1, <3>3, <3>4, <3>5
  <2>2. CASE fate[t] \notin {"pending", "running"}
    BY <1>1, <2>2 DEF OpenInv, FateInv
  <2> QED BY <2>1, <2>2
<1>2. TypeOK /\ PoolInv => AcceptedTargetHeld
  BY <1>1 DEF PoolInv, AcceptedTargetHeld
<1> QED BY <1>2, PoolInvariant, TypeCorrect, PTL

-----------------------------------------------------------------------------
(* The minimum number of threads.                                          *)

\* Until stopAll() is called, only housekeep() shrinks _threads, and what it
\* keeps is at least minCapacity threads.
LEMMA MinimumStep ==
  ASSUME TypeOK, OpenInv, Cardinality(threads) >= MinCapacity, [Next]_vars
  PROVE  Cardinality(threads') >= MinCapacity
<1>1. MinCapacity \in Nat /\ IsFiniteSet(threads)
  BY PoolAssumption DEF TypeOK
<1>2. ASSUME NEW c \in Clients, Rebuild(c) PROVE Cardinality(threads') >= MinCapacity
  <2>1. PICK keep \in SUBSET sorted.expired :
          Cardinality(keep) = KeptExpired /\ threads' = (sorted.idle \cup keep) \cup sorted.active
    BY <1>2 DEF Rebuild
  <2>2. /\ IsFiniteSet(sorted.idle) /\ IsFiniteSet(sorted.active) /\ IsFiniteSet(sorted.expired)
        /\ sorted.expired \cap (sorted.idle \cup sorted.active) = {} /\ sorted.idle \cap sorted.active = {}
    BY <1>2 DEF Rebuild, TypeOK, OpenInv, LoopInv
  <2> DEFINE I == Cardinality(sorted.idle)
             A == Cardinality(sorted.active)
  <2>3. IsFiniteSet(keep) /\ I \in Nat /\ A \in Nat /\ Cardinality(keep) \in Nat
    BY <2>2, FS_Subset, FS_CardinalityType
  <2>4. /\ IsFiniteSet(sorted.idle \cup keep)
        /\ Cardinality(sorted.idle \cup keep) = I + Cardinality(keep)
    <3>1. sorted.idle \cap keep = {}
      BY <2>2
    <3>2. Cardinality(sorted.idle \cup keep) = I + Cardinality(keep) - Cardinality(sorted.idle \cap keep)
      BY <2>2, <2>3, FS_Union
    <3>3. Cardinality(sorted.idle \cap keep) = 0
      BY <3>1, FS_EmptySet
    <3>4. IsFiniteSet(sorted.idle \cup keep)
      BY <2>2, <2>3, FS_Union
    <3> QED BY <2>3, <3>2, <3>3, <3>4
  <2>5. Cardinality(threads') = I + Cardinality(keep) + A
    <3>1. (sorted.idle \cup keep) \cap sorted.active = {}
      BY <2>2
    <3>2. Cardinality(threads') = Cardinality(sorted.idle \cup keep) + A - Cardinality((sorted.idle \cup keep) \cap sorted.active)
      BY <2>1, <2>2, <2>4, FS_Union
    <3>3. Cardinality((sorted.idle \cup keep) \cap sorted.active) = 0
      BY <3>1, FS_EmptySet
    <3> QED BY <2>3, <2>4, <3>2, <3>3
  <2>6. KeptExpired = (IF I + A < MinCapacity THEN MinCapacity ELSE I + A) - A - I
    BY DEF KeptExpired
  <2> HIDE DEF I, A
  <2> QED BY <1>1, <2>1, <2>3, <2>5, <2>6
<1>3. ASSUME NEW c \in Clients, Create(c) PROVE Cardinality(threads') >= MinCapacity
  <2>1. PICK th \in Threads : threads' = threads \cup {th}
    BY <1>3 DEF Create
  <2>2. Cardinality(threads) \in Nat /\ Cardinality(threads') \in {Cardinality(threads), Cardinality(threads) + 1}
    BY <1>1, <2>1, FS_AddElement, FS_CardinalityType
  <2> QED BY <1>1, <2>2
<1>4. ASSUME NEW c \in Clients, ReleaseDone(c) PROVE UNCHANGED threads
  BY <1>4 DEF ReleaseDone, OpenInv, MutexInv
<1>5. ASSUME NEW c \in Clients, PoolStep(c), ~Rebuild(c), ~Create(c) PROVE UNCHANGED threads
  BY <1>4, <1>5 DEF PoolStep, AcquireStart, AcquireCollect, AcquireJoinAll, AcquireStopAll, AcquireLoop,
     AcquireAddCapacity, Classify, Release, TryJoinOk, TryJoinTimeout,
     ScanBusy, ScanIdle, ScanNone, CreateFails, Activate, Assign, JoinBusy, JoinFree,
     JoinWait, JoinDone, poolVars
<1>6. ASSUME NEW th \in Threads, Worker(th) \/ Expire(th) PROVE UNCHANGED threads
  BY <1>6 DEF Worker, WorkerWake, WorkerCheck, WorkerRun, WorkerComplete, Expire, poolVars
<1>7. CASE UNCHANGED vars
  BY <1>7 DEF vars, poolVars
<1> QED
  BY <1>2, <1>3, <1>5, <1>6, <1>7 DEF Next, CallStart, CallOther, Return, poolVars

\* No housekeeping takes the pool below minCapacity.
THEOREM MinimumIsKept == Spec => []KeepsMinimum
<1>1. Init => KeepsMinimum
  BY PoolAssumption DEF Init, KeepsMinimum
<1>2. TypeOK /\ PoolInv /\ KeepsMinimum /\ [Next]_vars => KeepsMinimum'
  BY MinimumStep, StaysClosed DEF PoolInv, KeepsMinimum
<1> QED BY <1>1, <1>2, TypeCorrect, PoolInvariant, PTL DEF Spec

-----------------------------------------------------------------------------
(* stopAll().                                                              *)

\* A PooledThread object that exists is in the pool, about to be released, or
\* was given up after the time-out.
Owned(th) ==
    \/ th \in threads \cup leaked
    \/ \E c \in Clients : \/ pc[c] \in {"release", "tryJoin"} /\ th \in todo
                          \/ pc[c] = "tryJoin" /\ cur[c] = th

AllocInv == \A th \in Threads : wpc[th] # "none" => Owned(th)

\* The client in stopAll() is alone with the pooled threads, and has yet to
\* release the ones that exist.
StopInv ==
    \A c \in Clients : op[c] = "stopAll" =>
        /\ \A d \in Clients \ {c} : pc[d] = "app"
        /\ pc[c] \in {"lock", "release", "tryJoin", "ret"}
        /\ \A th \in Threads : wpc[th] # "none" =>
             \/ th \in leaked
             \/ pc[c] = "lock" /\ th \in threads
             \/ pc[c] \in {"release", "tryJoin"} /\ th \in todo
             \/ pc[c] = "tryJoin" /\ th = cur[c]

\* What every step but Create() does to the objects: it brings none to life.
LEMMA NoneCreated ==
  ASSUME TypeOK, Next, \A c \in Clients : ~Create(c), NEW th \in Threads, wpc'[th] # "none"
  PROVE  wpc[th] # "none"
<1> USE DEF TypeOK, WorkerPC
<1>1. ASSUME NEW c \in Clients, PoolStep(c) PROVE wpc[th] # "none"
  BY <1>1 DEF PoolStep, AcquireStart, AcquireCollect, AcquireJoinAll, AcquireStopAll, AcquireLoop,
     AcquireAddCapacity, Classify, Rebuild, Release, TryJoinOk, TryJoinTimeout, ReleaseDone,
     ScanBusy, ScanIdle, ScanNone, CreateFails, Activate, Assign, JoinBusy, JoinFree,
     JoinWait, JoinDone, threadVars
<1>2. ASSUME NEW x \in Threads, Worker(x) \/ Expire(x) PROVE wpc[th] # "none"
  BY <1>2 DEF Worker, WorkerWake, WorkerCheck, WorkerRun, WorkerComplete, Expire
<1> QED BY <1>1, <1>2 DEF Next, CallStart, CallOther, Return, threadVars

\* While the pool is open, no object gets out of sight.
LEMMA AllocStep ==
  ASSUME TypeInv, OpenInv, AllocInv, [Next]_vars PROVE AllocInv'
<1> SUFFICES ASSUME NEW th \in Threads, wpc'[th] # "none" PROVE Owned(th)'
  BY DEF AllocInv
<1> USE PoolAssumption DEF TypeInv, TypeOK, Goto, Owned, threadVars, poolVars, historyVars
<1>1. ASSUME NEW c \in Clients, Create(c) PROVE Owned(th)'
  <2>1. pc[c] = "create" /\ poolMutex = c /\ UNCHANGED <<leaked, todo>>
    BY <1>1 DEF Create, OpenInv, MutexInv, Locked
  <2>2. \A d \in Clients : pc[d] \notin {"release", "tryJoin"}
    BY <2>1 DEF OpenInv, MutexInv, Locked
  <2>3. PICK x \in Threads : wpc' = [wpc EXCEPT ![x] = "wait"] /\ threads' = threads \cup {x}
    BY <1>1 DEF Create
  <2> QED BY <2>1, <2>2, <2>3 DEF AllocInv
<1>2. CASE UNCHANGED vars
  BY <1>2 DEF vars, AllocInv, callVars
<1> SUFFICES ASSUME Next, \A c \in Clients : ~Create(c) PROVE Owned(th)'
  BY <1>1, <1>2
<1>3. Owned(th)
  BY NoneCreated DEF AllocInv
<1>4. ASSUME NEW c \in Clients, Rebuild(c) PROVE Owned(th)'
  <2>1. pc[c] = "classify" /\ todo = {} /\ pc'[c] = "release" /\ UNCHANGED leaked /\ threads \subseteq threads' \cup todo'
    BY <1>4 DEF Rebuild, OpenInv, LoopInv
  <2>2. \A d \in Clients : pc[d] \notin {"release", "tryJoin"}
    BY <2>1 DEF OpenInv, MutexInv, Locked
  <2> QED BY <1>3, <2>1, <2>2
<1>5. ASSUME NEW c \in Clients, Release(c) \/ TryJoinTimeout(c) PROVE Owned(th)'
  <2>1. \A d \in Clients \ {c} : pc[d] \notin {"release", "tryJoin"}
    BY <1>5 DEF Release, TryJoinTimeout, OpenInv, MutexInv, Locked
  <2> QED BY <1>3, <1>5, <2>1 DEF Release, TryJoinTimeout
<1>6. ASSUME NEW c \in Clients, TryJoinOk(c) PROVE Owned(th)'
  <2>1. \A d \in Clients \ {c} : pc[d] \notin {"release", "tryJoin"}
    BY <1>6 DEF TryJoinOk, OpenInv, MutexInv, Locked
  <2> QED BY <1>3, <1>6, <2>1 DEF TryJoinOk
<1>7. ASSUME NEW c \in Clients, ReleaseDone(c) PROVE Owned(th)'
  <2>1. /\ pc[c] = "release" /\ todo = {} /\ UNCHANGED <<threads, leaked>>
        /\ \A d \in Clients \ {c} : pc[d] \notin {"release", "tryJoin"}
    BY <1>7 DEF ReleaseDone, OpenInv, MutexInv, Locked
  <2> QED BY <1>3, <2>1
<1>8. ASSUME NEW c \in Clients, UNCHANGED <<threads, leaked>>,
             \/ poolMutex = None
             \/ pc[c] \in Locked \ {"release", "tryJoin"}
      PROVE  Owned(th)'
  <2>1. \A d \in Clients : pc[d] \notin {"release", "tryJoin"}
    BY <1>8 DEF OpenInv, MutexInv, Locked
  <2> QED BY <1>3, <1>8, <2>1
<1>9. ASSUME NEW c \in Clients, UNCHANGED <<threads, leaked, todo, cur>>, pc[c] \in {"app", "assign"},
             \A d \in Clients \ {c} : pc'[d] = pc[d]
      PROVE  Owned(th)'
  BY <1>3, <1>9
<1>10. ASSUME NEW c \in Clients, Return(c) PROVE Owned(th)'
  BY <1>3, <1>10 DEF Return
<1>11. ASSUME NEW c \in Clients, PoolStep(c) PROVE Owned(th)'
  BY <1>4, <1>5, <1>6, <1>7, <1>8, <1>9, <1>11 DEF PoolStep, AcquireStart, AcquireCollect, AcquireJoinAll,
     AcquireStopAll, AcquireLoop, Acquire, AcquireAddCapacity, Classify,
     ScanBusy, ScanIdle, ScanNone, CreateFails, Activate, Assign, JoinBusy, JoinFree, JoinWait, JoinDone, Locked
<1>12. ASSUME NEW x \in Threads, Worker(x) \/ Expire(x) PROVE UNCHANGED <<threads, leaked, todo, cur, pc>>
  BY <1>12 DEF Worker, WorkerWake, WorkerCheck, WorkerRun, WorkerComplete, Expire, callVars
<1> QED BY <1>3, <1>9, <1>10, <1>11, <1>12 DEF Next, CallStart, CallOther

\* Only the call of stopAll() makes the pool close.
LEMMA StopCalled ==
  ASSUME TypeOK, ~Closing, [Next]_vars, NEW c \in Clients, op'[c] = "stopAll"
  PROVE  CallOther(c, "stopAll")
<1>0. op[c] # "stopAll"
  BY DEF Closing
<1>1. ASSUME NEW d \in Clients, PoolStep(d) PROVE op' = op
  BY <1>1 DEF PoolStep, AcquireStart, AcquireCollect, AcquireJoinAll, AcquireStopAll, AcquireLoop,
     AcquireAddCapacity, Classify, Rebuild, Release, TryJoinOk, TryJoinTimeout, ReleaseDone,
     ScanBusy, ScanIdle, ScanNone, Create, CreateFails, Activate, Assign, JoinBusy, JoinFree,
     JoinWait, JoinDone
<1>2. ASSUME NEW th \in Threads, Worker(th) \/ Expire(th) PROVE op' = op
  BY <1>2 DEF Worker, WorkerWake, WorkerCheck, WorkerRun, WorkerComplete, Expire, callVars
<1>3. ASSUME NEW d \in Clients, Return(d) PROVE FALSE
  BY <1>0, <1>3, PoolAssumption DEF Return, TypeOK, Ops
<1>4. ASSUME NEW d \in Clients, NEW t \in Targets, CallStart(d, t) PROVE FALSE
  BY <1>0, <1>4 DEF CallStart, TypeOK
<1>5. ASSUME NEW d \in Clients, NEW o \in Ops, CallOther(d, o) PROVE CallOther(c, "stopAll")
  BY <1>0, <1>5 DEF CallOther, TypeOK
<1> QED BY <1>0, <1>1, <1>2, <1>3, <1>4, <1>5 DEF Next, vars, callVars

\* The call of stopAll() finds every other client outside the pool.
LEMMA StopBegins ==
  ASSUME TypeInv, OpenInv, AllocInv, [Next]_vars PROVE StopInv'
<1> SUFFICES ASSUME NEW c \in Clients, op'[c] = "stopAll" PROVE StopInv!(c)!2'
  BY DEF StopInv
<1>2. CallOther(c, "stopAll")
  BY StopCalled DEF OpenInv, MutexInv, Closing, TypeInv
<1>3. /\ \A d \in Clients : pc[d] = "app" /\ pc' = [pc EXCEPT ![c] = "lock"]
      /\ UNCHANGED <<threads, leaked, wpc>>
  BY <1>2 DEF CallOther, Goto, poolVars, threadVars
<1>4. \A th \in Threads : wpc[th] # "none" => th \in threads \cup leaked
  BY <1>3 DEF AllocInv, Owned
<1> QED BY <1>3, <1>4 DEF TypeInv, TypeOK

\* Then only the client in stopAll() has steps to take in the pool's code.
LEMMA OnlyStopper ==
  ASSUME StopInv, NEW c \in Clients, op[c] = "stopAll", NEW d \in Clients, PoolStep(d)
  PROVE  d = c /\ (AcquireStopAll(c) \/ Release(c) \/ TryJoinOk(c) \/ TryJoinTimeout(c) \/ ReleaseDone(c))
<1>1. pc[c] \in {"lock", "release", "tryJoin", "ret"} /\ \A x \in Clients \ {c} : pc[x] = "app"
  BY DEF StopInv
<1> QED
  BY <1>1 DEF PoolStep, AcquireStart, AcquireCollect, AcquireJoinAll, AcquireStopAll, AcquireLoop,
     Acquire, AcquireAddCapacity, Classify, Rebuild, Release, TryJoinOk, TryJoinTimeout, ReleaseDone,
     ScanBusy, ScanIdle, ScanNone, Create, CreateFails, Activate, Assign, JoinBusy, JoinFree, JoinWait, JoinDone

\* Until it has visited every thread, stopAll() does not return.
LEMMA StopStep ==
  ASSUME TypeInv, StopInv, Closing, [Next]_vars PROVE StopInv'
<1>1. PICK c \in Clients : op[c] = "stopAll"
  BY DEF Closing
<1>2. /\ \A d \in Clients \ {c} : pc[d] = "app"
      /\ pc[c] \in {"lock", "release", "tryJoin", "ret"}
      /\ \A th \in Threads : wpc[th] # "none" =>
           \/ th \in leaked
           \/ pc[c] = "lock" /\ th \in threads
           \/ pc[c] \in {"release", "tryJoin"} /\ th \in todo
           \/ pc[c] = "tryJoin" /\ th = cur[c]
  BY <1>1 DEF StopInv
<1>3. \A d \in Clients : op[d] = "stopAll" => d = c
  BY <1>1, <1>2 DEF StopInv
<1> USE DEF TypeInv, TypeOK, Goto, WorkerPC, ClientPC
<1>4. ASSUME UNCHANGED op,
             \A d \in Clients \ {c} : pc'[d] = "app",
             pc'[c] \in {"lock", "release", "tryJoin", "ret"},
             \A th \in Threads : wpc'[th] # "none" =>
               \/ th \in leaked'
               \/ pc'[c] = "lock" /\ th \in threads'
               \/ pc'[c] \in {"release", "tryJoin"} /\ th \in todo'
               \/ pc'[c] = "tryJoin" /\ th = cur'[c]
      PROVE  StopInv'
  BY <1>3, <1>4 DEF StopInv
<1>5. ASSUME NEW d \in Clients, PoolStep(d)
      PROVE  d = c /\ (AcquireStopAll(c) \/ Release(c) \/ TryJoinOk(c) \/ TryJoinTimeout(c) \/ ReleaseDone(c))
  BY <1>1, <1>5, OnlyStopper
<1>6. CASE AcquireStopAll(c)
  BY <1>2, <1>4, <1>6 DEF AcquireStopAll, AcquireLoop, Acquire, LoopThreads, threadVars, historyVars
<1>7. CASE Release(c)
  BY <1>2, <1>4, <1>7 DEF Release
<1>8. CASE TryJoinOk(c)
  BY <1>2, <1>4, <1>8 DEF TryJoinOk, historyVars
<1>9. CASE TryJoinTimeout(c)
  BY <1>2, <1>4, <1>9 DEF TryJoinTimeout, threadVars
<1>10. CASE ReleaseDone(c)
  BY <1>1, <1>2, <1>4, <1>10 DEF ReleaseDone, threadVars, historyVars
<1>11. ASSUME NEW th \in Threads, Worker(th) \/ Expire(th) PROVE StopInv'
  <2>1. /\ UNCHANGED <<op, pc, threads, todo, cur, leaked>>
        /\ \A x \in Threads : wpc'[x] # "none" => wpc[x] # "none"
    BY <1>11 DEF Worker, WorkerWake, WorkerCheck, WorkerRun, WorkerComplete, Expire, callVars, poolVars, historyVars
  <2> QED BY <1>2, <1>4, <2>1
<1>12. CASE UNCHANGED vars
  BY <1>2, <1>4, <1>12 DEF vars, callVars, poolVars, threadVars, historyVars
<1>13. ASSUME NEW d \in Clients, Return(d) PROVE FALSE
  BY <1>1, <1>2, <1>13 DEF Return
<1> QED
  BY <1>5, <1>6, <1>7, <1>8, <1>9, <1>10, <1>11, <1>12, <1>13 DEF Next, CallStart, CallOther

\* Who is in the pool's code while it is stopped, and what is left to release.
LEMMA StopInvariant == Spec => []StopInv
<1> DEFINE I == (Closing \/ AllocInv) /\ StopInv
<1>1. Init => I
  BY PoolAssumption DEF Init, AllocInv, Owned, StopInv, Ops
<1>2. TypeInv /\ PoolInv /\ I /\ [Next]_vars => I'
  <2>1. CASE Closing
    BY <2>1, StaysClosed, StopStep DEF TypeInv
  <2>2. CASE ~Closing
    BY <2>2, AllocStep, StopBegins DEF PoolInv
  <2> QED BY <2>1, <2>2
<1>3. I => StopInv
  OBVIOUS
<1>4. Spec => []TypeInv
  BY TypeInit, TypeStep, PTL DEF Spec
<1> HIDE DEF I
<1> QED BY <1>1, <1>2, <1>3, <1>4, PoolInvariant, PTL DEF Spec

\* The poco_asserts of activate() and PooledThread::start() never fail: a thread
\* handed out by getThread() stays its client's until start(), and stopAll() is
\* called when no client is in between.
THEOREM AssertionsNeverFail == Spec => []AssertionsHold
<1>1. TypeOK /\ PoolInv /\ StopInv => AssertionsHold
  <2> SUFFICES ASSUME TypeOK, PoolInv, StopInv PROVE AssertionsHold
    OBVIOUS
  <2>1. CASE Closing
    <3>1. \A c \in Clients : pc[c] \notin {"activate", "assign"}
      BY <2>1 DEF Closing, StopInv
    <3> QED BY <3>1 DEF AssertionsHold
  <2>2. CASE ~Closing
    BY <2>2, PoolAssumption DEF TypeOK, PoolInv, OpenInv, LoopInv, ThreadInv, HandoffInv, AssertionsHold
  <2> QED BY <2>1, <2>2
<1> QED BY <1>1, PoolInvariant, StopInvariant, TypeCorrect, PTL

\* housekeep() never releases a thread that has a target or was handed out.
THEOREM HousekeepReleasesIdle == Spec => []ReleasesOnlyIdle
<1>1. TypeOK /\ PoolInv /\ StopInv => ReleasesOnlyIdle
  <2> SUFFICES ASSUME TypeOK, PoolInv, StopInv PROVE ReleasesOnlyIdle
    OBVIOUS
  <2>1. CASE Closing
    <3>1. \A c \in Clients : pc[c] = "tryJoin" => op[c] = "stopAll"
      BY <2>1 DEF Closing, StopInv
    <3> QED BY <3>1 DEF ReleasesOnlyIdle
  <2>2. CASE ~Closing
    BY <2>2 DEF TypeOK, PoolInv, OpenInv, LoopInv, ThreadInv, HandoffInv, ReleasesOnlyIdle
  <2> QED BY <2>1, <2>2
<1> QED BY <1>1, PoolInvariant, StopInvariant, TypeCorrect, PTL

\* When stopAll() has returned, every pooled thread has ended and its object is
\* deleted, except the ones it gave up after JOIN_TIMEOUT.
THEOREM StopAllIsComplete == Spec => []StopAllWaits
<1>1. StopInv => StopAllWaits
  BY DEF StopInv, StopAllWaits
<1> QED BY <1>1, StopInvariant, PTL

-----------------------------------------------------------------------------
(* The pool implements the Executor.                                       *)

\* A client that is not in the pool's code is in no operation.
CallInv == \A c \in Clients : pc[c] = "app" <=> op[c] = None

\* joinAll() still has to wait for what is accepted when it begins, then for
\* the targets of the threads its loop has yet to visit, then for nothing.
JoinInv ==
    \A c \in Clients :
        /\ op[c] # "joinAll" \/ pc[c] \notin {"lock", "join", "joinWait"} => joining[c] = {}
        /\ pc[c] = "lock" => \A t \in joining[c] : fate[t] \in {"pending", "running"}
        /\ pc[c] \in {"join", "joinWait"} => \A t \in joining[c] : \E th \in todo : target[th] = t

\* _targetCompleted is not set while there is a target, nor from activate()
\* until start() has assigned one.
CompletedInv ==
    /\ \A th \in Threads : target[th] # None => ~completed[th]
    /\ \A c \in Clients : pc[c] = "assign" => ~completed[cur[c]]

\* Nobody is in joinAll().
NoJoin == \A c \in Clients : op[c] # "joinAll" /\ joining[c] = {}

\* Who holds a target, in a pool that may be stopping: a thread whose target
\* is released while it runs goes on running it.
HoldInv ==
    \A th \in Threads :
        /\ target[th] # None =>
             /\ fate[target[th]] = IF wpc[th] = "run" THEN "running" ELSE "pending"
             /\ \A x \in Threads : target[x] = target[th] => x = th
        /\ wpc[th] = "run" =>
             /\ running[th] \in Targets /\ fate[running[th]] = "running"
             /\ target[th] \in {None, running[th]}
             /\ \A x \in Threads : wpc[x] = "run" /\ running[x] = running[th] => x = th

ExecInv ==
    /\ CallInv /\ HoldInv
    /\ IF Closing THEN NoJoin ELSE JoinInv /\ CompletedInv

\* What the open pool's invariant says of the holders.
LEMMA OpenHolds == TypeOK /\ OpenInv => HoldInv
<1> SUFFICES ASSUME TypeOK, OpenInv, NEW th \in Threads PROVE HoldInv!(th)
  BY DEF HoldInv
<1> USE PoolAssumption DEF OpenInv
<1>1. CASE target[th] # None
  <2>1. /\ target[th] \in Targets
        /\ fate[target[th]] = IF wpc[th] = "run" THEN "running" ELSE "pending"
    BY <1>1, HeldTarget
  <2>2. \A x \in Threads : target[x] = target[th] => x = th
    BY <2>1 DEF FateInv
  <2>3. wpc[th] = "run" => running[th] = target[th]
    BY DEF ThreadInv
  <2>4. \A x \in Threads : wpc[x] = "run" => running[x] = target[x]
    BY DEF ThreadInv
  <2> QED BY <2>1, <2>2, <2>3, <2>4
<1>2. CASE target[th] = None
  BY <1>2 DEF ThreadInv
<1> QED BY <1>1, <1>2

\* Calls and returns.
LEMMA CallStep == ASSUME TypeOK, CallInv, [Next]_vars PROVE CallInv'
<1> USE PoolAssumption DEF CallInv, TypeOK, Goto, ClientPC, Ops
<1>1. ASSUME NEW c \in Clients, PoolStep(c)
      PROVE  UNCHANGED op /\ pc[c] # "app" /\ \E l \in ClientPC \ {"app"} : pc' = [pc EXCEPT ![c] = l]
  BY <1>1 DEF PoolStep, AcquireStart, AcquireCollect, AcquireJoinAll, AcquireStopAll, AcquireLoop, Acquire, BeginHousekeep,
     AcquireAddCapacity, Classify, Rebuild, Release, TryJoinOk, TryJoinTimeout, ReleaseDone,
     ScanBusy, ScanIdle, ScanNone, Throw, Create, CreateFails, Activate, Assign, JoinBusy, JoinFree,
     JoinWait, JoinDone
<1>2. ASSUME NEW th \in Threads, Worker(th) \/ Expire(th) PROVE UNCHANGED <<op, pc>>
  BY <1>2 DEF Worker, WorkerWake, WorkerCheck, WorkerRun, WorkerComplete, Expire, callVars
<1>3. ASSUME NEW c \in Clients, NEW t \in Targets, CallStart(c, t) PROVE CallInv'
  BY <1>3 DEF CallStart
<1>4. ASSUME NEW c \in Clients, NEW o \in Ops, CallOther(c, o) PROVE CallInv'
  BY <1>4 DEF CallOther
<1>5. ASSUME NEW c \in Clients, Return(c) PROVE CallInv'
  BY <1>5 DEF Return
<1>6. CASE UNCHANGED vars
  BY <1>6 DEF vars, callVars
<1>7. ASSUME NEW c \in Clients, PoolStep(c) PROVE CallInv'
  BY <1>1, <1>7
<1> QED BY <1>2, <1>3, <1>4, <1>5, <1>6, <1>7 DEF Next

\* Holders in a pool that is being stopped: nothing is assigned any more.
LEMMA HoldStep == ASSUME TypeInv, StopInv, Closing, HoldInv, [Next]_vars PROVE HoldInv'
<1> USE PoolAssumption DEF TypeInv, TypeOK, WorkerPC, Fates
<1>1. PICK c \in Clients : op[c] = "stopAll"
  BY DEF Closing
<1>2. pc[c] \in {"lock", "release", "tryJoin", "ret"} /\ \A d \in Clients \ {c} : pc[d] = "app"
  BY <1>1 DEF StopInv
<1>3. CASE UNCHANGED <<target, fate, running>> /\ \A th \in Threads : wpc'[th] = "run" <=> wpc[th] = "run"
  BY <1>3 DEF HoldInv
<1>4. ASSUME NEW d \in Clients, PoolStep(d)
      PROVE  d = c /\ (AcquireStopAll(c) \/ Release(c) \/ TryJoinOk(c) \/ TryJoinTimeout(c) \/ ReleaseDone(c))
  BY <1>1, <1>4, OnlyStopper
<1>5. CASE AcquireStopAll(c) \/ TryJoinOk(c) \/ TryJoinTimeout(c) \/ ReleaseDone(c)
  BY <1>3, <1>5 DEF AcquireStopAll, AcquireLoop, TryJoinOk, TryJoinTimeout, ReleaseDone, threadVars, historyVars
<1>6. CASE Release(c)
  <2>1. PICK th \in Threads : target' = [target EXCEPT ![th] = None] /\ fate' = Dropped(th) /\ UNCHANGED <<wpc, running>>
    BY <1>6 DEF Release
  <2>2. CASE target[th] # None /\ fate[target[th]] = "pending"
    <3>1. fate' = [fate EXCEPT ![target[th]] = "dropped"]
      BY <2>1, <2>2 DEF Dropped
    <3> QED BY <2>1, <2>2, <3>1 DEF HoldInv
  <2>3. CASE ~(target[th] # None /\ fate[target[th]] = "pending")
    <3>1. UNCHANGED fate
      BY <2>1, <2>3 DEF Dropped
    <3> QED BY <2>1, <3>1 DEF HoldInv
  <2> QED BY <2>2, <2>3
<1>7. ASSUME NEW th \in Threads, WorkerWake(th) \/ WorkerCheck(th) \/ Expire(th) PROVE HoldInv'
  BY <1>3, <1>7 DEF WorkerWake, WorkerCheck, Expire, historyVars
<1>8. ASSUME NEW th \in Threads, WorkerRun(th) PROVE HoldInv'
  <2>1. CASE target[th] # None
    BY <1>8, <2>1 DEF WorkerRun, HoldInv
  <2>2. CASE target[th] = None
    BY <1>8, <2>2 DEF WorkerRun, HoldInv
  <2> QED BY <2>1, <2>2
<1>9. ASSUME NEW th \in Threads, WorkerComplete(th) PROVE HoldInv'
  BY <1>9 DEF WorkerComplete, HoldInv
<1>10. ASSUME NEW d \in Clients, Return(d) PROVE HoldInv'
  BY <1>3, <1>10 DEF Return, threadVars, historyVars
<1>11. CASE UNCHANGED vars
  BY <1>3, <1>11 DEF vars, threadVars, historyVars
<1> QED
  BY <1>4, <1>5, <1>6, <1>7, <1>8, <1>9, <1>10, <1>11 DEF Next, Worker, CallStart, CallOther

\* What activate() has reset stays reset until the target is done.
LEMMA CompletedStep == ASSUME TypeOK, OpenInv, CompletedInv, [Next]_vars PROVE CompletedInv'
<1> USE PoolAssumption DEF TypeOK, Goto, threadVars, callVars
<1>1. CASE UNCHANGED <<target, completed>> /\ \A c \in Clients : pc'[c] = "assign" => pc[c] = "assign" /\ cur'[c] = cur[c]
  BY <1>1 DEF CompletedInv
<1>2. ASSUME NEW c \in Clients, Release(c) PROVE CompletedInv'
  BY <1>2 DEF Release, CompletedInv
<1>3. ASSUME NEW c \in Clients, Create(c) PROVE CompletedInv'
  BY <1>3 DEF Create, CompletedInv
<1>4. ASSUME NEW c \in Clients, Activate(c) PROVE CompletedInv'
  <2>1. cur[c] \in Threads
    BY <1>4 DEF Activate, OpenInv, LoopInv
  <2> QED BY <1>4, <2>1 DEF Activate, CompletedInv
<1>5. ASSUME NEW c \in Clients, Assign(c) PROVE CompletedInv'
  BY <1>5 DEF Assign, CompletedInv
<1>6. ASSUME NEW th \in Threads, WorkerComplete(th) PROVE CompletedInv'
  <2>1. \A c \in Clients : pc[c] = "assign" => cur[c] # th
    BY <1>6 DEF WorkerComplete, OpenInv, HandoffInv, ThreadInv
  <2> QED BY <1>6, <2>1 DEF WorkerComplete, CompletedInv
<1>7. ASSUME NEW c \in Clients, PoolStep(c) PROVE CompletedInv'
  BY <1>1, <1>2, <1>3, <1>4, <1>5, <1>7 DEF PoolStep, AcquireStart, AcquireCollect, AcquireJoinAll,
     AcquireStopAll, AcquireLoop, BeginHousekeep, AcquireAddCapacity, Classify, Rebuild, TryJoinOk, TryJoinTimeout, ReleaseDone,
     ScanBusy, ScanIdle, ScanNone, Throw, CreateFails, JoinBusy, JoinFree, JoinWait, JoinDone
<1>8. ASSUME NEW th \in Threads, Worker(th) \/ Expire(th) PROVE CompletedInv'
  BY <1>1, <1>6, <1>8 DEF Worker, WorkerWake, WorkerCheck, WorkerRun, Expire
<1>9. CASE UNCHANGED vars
  BY <1>1, <1>9 DEF vars
<1>10. ASSUME NEW c \in Clients, \/ \E t \in Targets : CallStart(c, t)
                                 \/ \E o \in Ops : CallOther(c, o)
                                 \/ Return(c)
       PROVE  CompletedInv'
  BY <1>1, <1>10 DEF CallStart, CallOther, Return
<1> QED BY <1>7, <1>8, <1>9, <1>10 DEF Next

\* A target that joinAll() has to wait for, and that is not done, stays
\* accepted and in the thread that holds it.
LEMMA JoinKept ==
  ASSUME TypeOK, OpenInv, [Next]_vars, NEW d \in Clients, NEW t \in joining[d], t \in joining'[d]
  PROVE  /\ fate[t] \in {"pending", "running"} => fate'[t] \in {"pending", "running"}
         /\ \A th \in Threads : target[th] = t => target'[th] = t
<1> DEFINE Kept == /\ fate[t] \in {"pending", "running"} => fate'[t] \in {"pending", "running"}
                   /\ \A th \in Threads : target[th] = t => target'[th] = t
<1> USE PoolAssumption DEF TypeOK, threadVars, historyVars
<1>1. UNCHANGED <<fate, target>> => Kept
  OBVIOUS
<1>2. ASSUME NEW c \in Clients, Throw(c), UNCHANGED target, pc[c] \in {"scan", "create"} PROVE Kept
  <2>1. fate[arg[c]] = "called"
    BY <1>2 DEF OpenInv, MutexInv, InStart
  <2> QED BY <1>2, <2>1 DEF Throw
<1>3. ASSUME NEW c \in Clients, NEW u \in Targets, CallStart(c, u) PROVE Kept
  BY <1>3 DEF CallStart
<1>4. ASSUME NEW c \in Clients, Release(c) PROVE Kept
  <2>1. PICK th \in todo : target' = [target EXCEPT ![th] = None] /\ fate' = Dropped(th)
    BY <1>4 DEF Release
  <2>2. th \in Threads /\ target[th] = None
    BY <1>4 DEF Release, OpenInv, LoopInv, ThreadInv
  <2> QED BY <2>1, <2>2 DEF Dropped
<1>5. ASSUME NEW c \in Clients, Create(c) PROVE Kept
  <2>1. PICK th \in Threads : wpc[th] = "none" /\ target' = [target EXCEPT ![th] = None] /\ UNCHANGED fate
    BY <1>5 DEF Create
  <2>2. target[th] = None
    BY <2>1 DEF OpenInv, ThreadInv
  <2> QED BY <2>1, <2>2
<1>6. ASSUME NEW c \in Clients, Assign(c) PROVE Kept
  BY <1>6 DEF Assign, OpenInv, HandoffInv
<1>7. ASSUME NEW th \in Threads, WorkerRun(th) PROVE Kept
  BY <1>7 DEF WorkerRun
<1>8. ASSUME NEW th \in Threads, WorkerComplete(th) PROVE Kept
  <2>1. running[th] = target[th] /\ t # running[th]
    BY <1>8 DEF WorkerComplete, OpenInv, ThreadInv
  <2> QED BY <1>8, <2>1 DEF WorkerComplete
<1>9. ASSUME NEW c \in Clients, PoolStep(c) PROVE Kept
  <2> HIDE DEF Kept
  <2> QED BY <1>1, <1>2, <1>4, <1>5, <1>6, <1>9 DEF PoolStep, AcquireStart, AcquireCollect, AcquireJoinAll,
     AcquireStopAll, AcquireLoop, AcquireAddCapacity, Classify, Rebuild, TryJoinOk, TryJoinTimeout, ReleaseDone,
     ScanBusy, ScanIdle, ScanNone, CreateFails, Activate, JoinBusy, JoinFree, JoinWait, JoinDone
<1>10. ASSUME NEW th \in Threads, Worker(th) \/ Expire(th) PROVE Kept
  <2> HIDE DEF Kept
  <2> QED BY <1>1, <1>7, <1>8, <1>10 DEF Worker, WorkerWake, WorkerCheck, Expire
<1>11. ASSUME NEW c \in Clients, (\E o \in Ops : CallOther(c, o)) \/ Return(c) PROVE UNCHANGED <<fate, target>>
  BY <1>11 DEF CallOther, Return
<1> HIDE DEF Kept
<1>12. Kept
  BY <1>1, <1>3, <1>9, <1>10, <1>11 DEF Next, vars
<1> QED BY <1>12 DEF Kept

\* joinAll() leaves its loop only when there is nothing left to wait for.
LEMMA JoinStep ==
  ASSUME TypeOK, OpenInv, CallInv, CompletedInv, JoinInv, [Next]_vars PROVE JoinInv'
<1> SUFFICES ASSUME NEW d \in Clients PROVE JoinInv!(d)'
  BY DEF JoinInv
<1> DEFINE I == JoinInv!(d)
<1> SUFFICES I'
  OBVIOUS
<1> USE PoolAssumption DEF TypeOK, Goto, ClientPC, poolVars, threadVars, callVars, historyVars
<1>1. ASSUME op'[d] = op[d], pc'[d] = pc[d], joining'[d] \subseteq joining[d],
             pc[d] \in {"join", "joinWait"} => UNCHANGED todo
      PROVE  I'
  BY <1>1, JoinKept DEF JoinInv
<1>2. ASSUME NEW c \in Clients \ {d}, PoolStep(c)
      PROVE  op'[d] = op[d] /\ pc'[d] = pc[d] /\ joining' = joining /\ (pc[d] \in {"join", "joinWait"} => UNCHANGED todo)
  <2>1. pc[d] \in {"join", "joinWait"} => poolMutex # None /\ pc[c] \notin Locked
    BY <1>2 DEF OpenInv, MutexInv, Locked
  <2> QED BY <1>2, <2>1 DEF PoolStep, AcquireStart, AcquireCollect, AcquireJoinAll,
     AcquireStopAll, AcquireLoop, Acquire, BeginHousekeep, AcquireAddCapacity, Classify, Rebuild, Release, TryJoinOk, TryJoinTimeout,
     ReleaseDone, ScanBusy, ScanIdle, ScanNone, Throw, Create, CreateFails, Activate, Assign, JoinBusy, JoinFree, JoinWait,
     JoinDone, Locked
<1>3. ASSUME NEW th \in Threads, Worker(th) \/ Expire(th)
      PROVE  UNCHANGED <<op, pc, todo>> /\ joining'[d] \subseteq joining[d]
  BY <1>3 DEF Worker, WorkerWake, WorkerCheck, WorkerRun, WorkerComplete, Expire
<1>4. ASSUME joining'[d] = {} PROVE I'
  BY <1>4
<1>5. CASE \E t \in Targets : CallStart(d, t)
  BY <1>4, <1>5 DEF CallStart, JoinInv, CallInv
<1>6. CASE \E o \in Ops : CallOther(d, o)
  <2>1. PICK o \in Ops : CallOther(d, o)
    BY <1>6
  <2>2. CASE o = "joinAll"
    BY <2>1, <2>2 DEF CallOther
  <2>3. CASE o # "joinAll"
    BY <1>4, <2>1, <2>3 DEF CallOther
  <2> QED BY <2>2, <2>3
<1>7. CASE Return(d)
  BY <1>4, <1>7 DEF Return, JoinInv
<1>8. ASSUME NEW c \in Clients \ {d}, \/ \E t \in Targets : CallStart(c, t)
                                      \/ \E o \in Ops : CallOther(c, o)
                                      \/ Return(c)
      PROVE  op'[d] = op[d] /\ pc'[d] = pc[d] /\ joining'[d] = joining[d] /\ UNCHANGED todo
  BY <1>8 DEF CallStart, CallOther, Return
<1>9. CASE AcquireJoinAll(d)
  <2>1. todo' = threads /\ pc' = [pc EXCEPT ![d] = "join"] /\ pc[d] = "lock" /\ op[d] = "joinAll" /\ UNCHANGED <<op, joining, target>>
    BY <1>9 DEF AcquireJoinAll, AcquireLoop, Acquire, LoopThreads
  <2>2. \A t \in joining[d] : \E th \in threads : target[th] = t
    BY <2>1 DEF JoinInv, OpenInv, FateInv
  <2> QED BY <2>1, <2>2
<1>10. CASE JoinBusy(d)
  <2>1. pc[d] = "join" /\ pc' = [pc EXCEPT ![d] = "joinWait"] /\ UNCHANGED <<op, joining, target, todo>>
    BY <1>10 DEF JoinBusy
  <2> QED BY <2>1 DEF JoinInv
<1>11. CASE JoinFree(d)
  <2>1. PICK th \in todo : target[th] = None /\ todo' = todo \ {th}
    BY <1>11 DEF JoinFree, HasTarget
  <2>2. pc[d] = "join" /\ UNCHANGED <<pc, op, joining, target>>
    BY <1>11 DEF JoinFree
  <2> QED BY <2>1, <2>2 DEF JoinInv
<1>12. CASE JoinWait(d)
  <2>1. /\ pc[d] = "joinWait" /\ completed[cur[d]] /\ todo' = todo \ {cur[d]}
        /\ pc' = [pc EXCEPT ![d] = "join"] /\ UNCHANGED <<op, joining, target>>
    BY <1>12 DEF JoinWait
  <2>2. \A th \in Threads : th = cur[d] => target[th] = None
    BY <2>1 DEF CompletedInv
  <2> QED BY <2>1, <2>2 DEF JoinInv
<1>13. CASE JoinDone(d)
  BY <1>4, <1>13 DEF JoinDone, JoinInv
<1>14. CASE PoolStep(d)
  <2>1. ASSUME ~AcquireJoinAll(d), ~JoinBusy(d), ~JoinFree(d), ~JoinWait(d), ~JoinDone(d)
        PROVE  UNCHANGED <<op, joining>> /\ (op[d] # "joinAll" \/ pc[d] \notin {"lock", "join", "joinWait"})
    BY <1>14, <2>1 DEF PoolStep, AcquireStart, AcquireCollect, 
     AcquireStopAll, AcquireLoop, Acquire, AcquireAddCapacity, Classify, Rebuild, Release, TryJoinOk, TryJoinTimeout,
     ReleaseDone, ScanBusy, ScanIdle, ScanNone, Create, CreateFails, Activate, Assign
  <2> QED BY <1>4, <1>9, <1>10, <1>11, <1>12, <1>13, <2>1 DEF JoinInv
<1> HIDE DEF I
<1>15. CASE UNCHANGED vars
  BY <1>1, <1>15 DEF vars
<1>16. CASE Next
  BY <1>1, <1>2, <1>3, <1>5, <1>6, <1>7, <1>8, <1>14, <1>16 DEF Next
<1> QED BY <1>15, <1>16

\* Nothing is joined in a pool that is being stopped.
LEMMA NoJoinStep == ASSUME TypeInv, StopInv, Closing, NoJoin, [Next]_vars PROVE NoJoin'
<1>1. PICK c \in Clients : op[c] = "stopAll"
  BY DEF Closing
<1>2. pc[c] \in {"lock", "release", "tryJoin", "ret"} /\ \A d \in Clients \ {c} : pc[d] = "app"
  BY <1>1 DEF StopInv
<1>3. ASSUME NEW d \in Clients, PoolStep(d) PROVE UNCHANGED <<op, joining>>
  BY <1>1, <1>3, OnlyStopper DEF AcquireStopAll, AcquireLoop, Release, TryJoinOk, TryJoinTimeout, ReleaseDone, historyVars
<1>4. ASSUME NEW th \in Threads, Worker(th) \/ Expire(th)
      PROVE  UNCHANGED op /\ \A d \in Clients : joining'[d] \subseteq joining[d]
  BY <1>4 DEF Worker, WorkerWake, WorkerCheck, WorkerRun, WorkerComplete, Expire, callVars, historyVars
<1>5. ASSUME NEW d \in Clients, Return(d) PROVE FALSE
  BY <1>1, <1>2, <1>5 DEF Return
<1>6. CASE UNCHANGED vars
  BY <1>6 DEF vars, callVars, historyVars, NoJoin
<1>7. CASE UNCHANGED op /\ \A d \in Clients : joining'[d] \subseteq joining[d]
  BY <1>7 DEF NoJoin
<1> QED BY <1>3, <1>4, <1>5, <1>6, <1>7 DEF Next, CallStart, CallOther

\* The invariant of the refinement.
LEMMA ExecStep ==
  ASSUME TypeInv, TypeInv', PoolInv, PoolInv', StopInv, ExecInv, [Next]_vars
  PROVE  ExecInv'
<1>1. CallInv'
  BY CallStep DEF ExecInv, TypeInv
<1>2. CASE Closing
  BY <1>1, <1>2, StaysClosed, HoldStep, NoJoinStep DEF ExecInv, TypeInv
<1>3. CASE ~Closing /\ ~Closing'
  <2>1. OpenInv /\ OpenInv'
    BY <1>3 DEF PoolInv
  <2>2. HoldInv'
    BY <2>1, OpenHolds, PTL DEF TypeInv
  <2>3. JoinInv' /\ CompletedInv'
    BY <1>3, <2>1, JoinStep, CompletedStep DEF ExecInv, TypeInv
  <2> QED BY <1>1, <1>3, <2>2, <2>3 DEF ExecInv
<1>4. CASE ~Closing /\ Closing'
  <2>1. PICK c \in Clients : op'[c] = "stopAll"
    BY <1>4 DEF Closing
  <2>2. CallOther(c, "stopAll")
    BY <1>4, <2>1, StopCalled DEF TypeInv
  <2>3. HoldInv'
    BY <1>4, <2>2 DEF ExecInv, HoldInv, CallOther, threadVars
  <2>4. \A d \in Clients : op[d] = None /\ joining[d] = {}
    <3>1. \A d \in Clients : pc[d] = "app"
      BY <2>2 DEF CallOther
    <3> QED BY <1>4, <3>1 DEF ExecInv, CallInv, JoinInv
  <2>5. NoJoin'
    BY <2>2, <2>4, PoolAssumption DEF NoJoin, CallOther, TypeInv, TypeOK, Ops
  <2> QED BY <1>1, <1>4, <2>3, <2>5 DEF ExecInv
<1> QED BY <1>2, <1>3, <1>4

\* A step that leaves the calls of joinAll() and stopAll() alone.
LEMMA SameCalls ==
  ASSUME \A c \in Clients : op'[c] = "joinAll" <=> op[c] = "joinAll",
         \A c \in Clients : op'[c] = "stopAll" <=> op[c] = "stopAll"
  PROVE  UNCHANGED [c \in Clients |-> op[c] = "joinAll"] /\ UNCHANGED Closing
<1>1. UNCHANGED [c \in Clients |-> op[c] = "joinAll"]
  BY Zenon
<1>2. UNCHANGED Closing
  BY Zenon DEF Closing
<1> QED BY <1>1, <1>2

\* One target goes from one fate to the next.
LEMMA FateStep ==
  ASSUME UNCHANGED op, NEW t \in Targets, NEW from, NEW to,
         fate[t] = from, fate' = [fate EXCEPT ![t] = to]
  PROVE  Promise!Becomes(t, from, to) /\ UNCHANGED [c \in Clients |-> op[c] = "joinAll"]
<1>1. UNCHANGED [c \in Clients |-> op[c] = "joinAll"] /\ UNCHANGED Closing
  BY SameCalls
<1> QED BY <1>1 DEF Promise!Becomes

\* Every step of the pool is a step of the Executor, or changes nothing it sees.
LEMMA ExecutorStep ==
  ASSUME TypeInv, PoolInv, StopInv, ExecInv, [Next]_vars
  PROVE  [Promise!Next]_(Promise!execVars)
<1> DEFINE J == [c \in Clients |-> op[c] = "joinAll"]
           Goal == [Promise!Next]_(Promise!execVars)
<1> SUFFICES Goal
  OBVIOUS
<1> USE PoolAssumption DEF TypeInv, TypeOK, Goto, threadVars, callVars, historyVars
<1>1. ASSUME UNCHANGED <<fate, joining, op>> PROVE Goal
  <2>1. UNCHANGED J /\ UNCHANGED Closing
    BY <1>1, SameCalls
  <2> QED BY <1>1, <2>1 DEF Promise!execVars, Promise!joinVars
<1>2. ASSUME NEW t \in Targets, UNCHANGED <<joining, op>>,
             \/ fate[t] = "called" /\ fate' = [fate EXCEPT ![t] = "rest"]
             \/ fate[t] = "called" /\ fate' = [fate EXCEPT ![t] = "pending"]
             \/ fate[t] = "pending" /\ fate' = [fate EXCEPT ![t] = "running"]
             \/ Closing /\ fate[t] = "pending" /\ fate' = [fate EXCEPT ![t] = "dropped"]
      PROVE  Goal
  <2>1. Promise!Refuse(t) \/ Promise!Accept(t) \/ Promise!Begin(t) \/ Promise!Drop(t)
    BY <1>2, FateStep DEF Promise!Refuse, Promise!Accept, Promise!Begin, Promise!Drop, Promise!joinVars
  <2> QED BY <2>1 DEF Promise!Next
<1>3. ASSUME NEW c \in Clients, NEW t \in Targets, CallStart(c, t) PROVE Goal
  <2>1. UNCHANGED J /\ UNCHANGED Closing
    <3>1. \A d \in Clients : /\ op'[d] = "joinAll" <=> op[d] = "joinAll"
                             /\ op'[d] = "stopAll" <=> op[d] = "stopAll"
      BY <1>3 DEF CallStart, ExecInv, CallInv, Ops
    <3> QED BY <3>1, SameCalls
  <2>2. Promise!Call(t)
    BY <1>3, <2>1 DEF CallStart, Promise!Call, Promise!Becomes, Promise!joinVars
  <2> QED BY <2>2 DEF Promise!Next
<1>4. ASSUME NEW c \in Clients, NEW o \in Ops, CallOther(c, o) PROVE Goal
  <2>0. op[c] = None /\ joining[c] = {} /\ ~Closing /\ UNCHANGED fate /\ op' = [op EXCEPT ![c] = o]
    BY <1>4 DEF CallOther, ExecInv, CallInv, JoinInv
  <2>1. CASE o = "joinAll"
    <3>1. UNCHANGED Closing
      <4>1. \A d \in Clients : op'[d] = "stopAll" <=> op[d] = "stopAll"
        BY <2>0, <2>1 DEF Ops
      <4> QED BY <4>1, Zenon DEF Closing
    <3>2. J' = [J EXCEPT ![c] = TRUE] /\ ~J[c]
      <4>1. \A d \in Clients \ {c} : op'[d] = op[d]
        BY <2>0
      <4>2. op'[c] = "joinAll" /\ op[c] # "joinAll"
        BY <2>0, <2>1 DEF Ops
      <4>3. \A d \in Clients : J'[d] = [J EXCEPT ![c] = TRUE][d]
        BY <4>1, <4>2, Zenon
      <4> QED BY <4>2, <4>3
    <3>3. Promise!BeginJoinAll(c)
      BY <1>4, <2>0, <2>1, <3>1, <3>2 DEF CallOther, Promise!BeginJoinAll
    <3> QED BY <3>3 DEF Promise!Next
  <2>2. CASE o # "joinAll"
    <3>1. UNCHANGED joining
      BY <1>4, <2>0, <2>2 DEF CallOther
    <3>2. UNCHANGED J
      <4>1. \A d \in Clients : op'[d] = "joinAll" <=> op[d] = "joinAll"
        BY <2>0, <2>2 DEF Ops
      <4> QED BY <4>1, Zenon
    <3>3. CASE o = "stopAll"
      <4>1. Closing'
        BY <2>0, <3>3 DEF Closing
      <4>2. Promise!Stop
        BY <2>0, <3>1, <3>2, <4>1, Zenon DEF Promise!Stop, Promise!joinVars
      <4> QED BY <4>2 DEF Promise!Next
    <3>4. CASE o # "stopAll"
      <4>1. UNCHANGED Closing
        <5>1. \A d \in Clients : op'[d] = "stopAll" <=> op[d] = "stopAll"
          BY <2>0, <3>4 DEF Ops
        <5> QED BY <5>1, Zenon DEF Closing
      <4> QED BY <2>0, <3>1, <3>2, <4>1 DEF Promise!execVars, Promise!joinVars
    <3> QED BY <3>3, <3>4
  <2> QED BY <2>1, <2>2
<1>5. ASSUME NEW c \in Clients, Return(c) PROVE Goal
  <2>0. /\ ~Closing /\ op' = [op EXCEPT ![c] = None] /\ UNCHANGED <<fate, joining>>
        /\ pc[c] \in {"ret", "throw"} /\ op[c] # "stopAll"
    BY <1>5 DEF Return, Closing, StopInv
  <2>1. UNCHANGED Closing
    <3>1. \A d \in Clients : op'[d] = "stopAll" <=> op[d] = "stopAll"
      BY <2>0 DEF Ops
    <3> QED BY <3>1, Zenon DEF Closing
  <2>2. CASE op[c] = "joinAll"
    <3>1. J' = [J EXCEPT ![c] = FALSE] /\ J[c]
      <4>1. \A d \in Clients \ {c} : op'[d] = op[d]
        BY <2>0
      <4>2. op'[c] # "joinAll"
        BY <2>0 DEF Ops
      <4>3. \A d \in Clients : J'[d] = [J EXCEPT ![c] = FALSE][d]
        BY <4>1, <4>2, Zenon
      <4> QED BY <2>2, <4>3
    <3>2. joining[c] = {}
      BY <2>0 DEF ExecInv, JoinInv
    <3>3. Promise!EndJoinAll(c)
      BY <2>0, <2>1, <3>1, <3>2 DEF Promise!EndJoinAll
    <3> QED BY <3>3 DEF Promise!Next
  <2>3. CASE op[c] # "joinAll"
    <3>1. UNCHANGED J
      <4>1. \A d \in Clients : op'[d] = "joinAll" <=> op[d] = "joinAll"
        BY <2>0, <2>3 DEF Ops
      <4> QED BY <4>1, Zenon
    <3> QED BY <2>0, <2>1, <3>1 DEF Promise!execVars, Promise!joinVars
  <2> QED BY <2>2, <2>3
<1>6. ASSUME NEW c \in Clients, Throw(c), UNCHANGED <<joining, op>>, pc[c] \in {"scan", "create"}, ~Closing PROVE Goal
  <2>1. arg[c] \in Targets /\ fate[arg[c]] = "called"
    BY <1>6 DEF PoolInv, OpenInv, MutexInv, InStart
  <2> QED BY <1>2, <1>6, <2>1 DEF Throw
<1>7. ASSUME NEW c \in Clients, Assign(c), ~Closing PROVE Goal
  <2>1. arg[c] \in Targets /\ fate[arg[c]] = "called"
    BY <1>7 DEF Assign, PoolInv, OpenInv, MutexInv, InStart
  <2> QED BY <1>2, <1>7, <2>1 DEF Assign
<1>8. ASSUME NEW c \in Clients, Release(c) PROVE Goal
  <2>1. PICK th \in todo : fate' = Dropped(th)
    BY <1>8 DEF Release
  <2>2. th \in Threads /\ (~Closing => target[th] = None) /\ UNCHANGED <<joining, op>>
    BY <1>8 DEF Release, PoolInv, OpenInv, LoopInv, ThreadInv
  <2>3. CASE target[th] # None /\ fate[target[th]] = "pending"
    <3>1. fate' = [fate EXCEPT ![target[th]] = "dropped"]
      BY <2>1, <2>3 DEF Dropped
    <3> QED BY <1>2, <2>2, <2>3, <3>1
  <2>4. CASE ~(target[th] # None /\ fate[target[th]] = "pending")
    <3>1. UNCHANGED fate
      BY <2>1, <2>4 DEF Dropped
    <3> QED BY <1>1, <2>2, <3>1
  <2> QED BY <2>3, <2>4
<1>9. ASSUME NEW th \in Threads, WorkerRun(th) PROVE Goal
  <2>1. CASE target[th] = None
    BY <1>1, <1>9, <2>1 DEF WorkerRun
  <2>2. CASE target[th] # None
    <3>1. target[th] \in Targets /\ fate[target[th]] = "pending"
      BY <1>9, <2>2 DEF WorkerRun, ExecInv, HoldInv
    <3> QED BY <1>2, <1>9, <2>2, <3>1 DEF WorkerRun
  <2> QED BY <2>1, <2>2
<1>10. ASSUME NEW th \in Threads, WorkerComplete(th) PROVE Goal
  <2>1. running[th] \in Targets /\ fate[running[th]] = "running"
    BY <1>10 DEF WorkerComplete, ExecInv, HoldInv
  <2>2. Promise!Finish(running[th])
    BY <1>10, <2>1, FateStep DEF WorkerComplete, Promise!Finish
  <2> QED BY <2>1, <2>2 DEF Promise!Next
<1> HIDE DEF Goal
<1>11. ASSUME NEW c \in Clients, PoolStep(c), Closing PROVE Goal
  <2>1. PICK d \in Clients : op[d] = "stopAll"
    BY <1>11 DEF Closing
  <2> QED BY <1>1, <1>8, <1>11, <2>1, OnlyStopper DEF AcquireStopAll, AcquireLoop, TryJoinOk, TryJoinTimeout, ReleaseDone
<1>12. ASSUME NEW c \in Clients, PoolStep(c), ~Closing PROVE Goal
  BY <1>1, <1>6, <1>7, <1>8, <1>12 DEF PoolStep, AcquireStart, AcquireCollect, AcquireJoinAll,
     AcquireStopAll, AcquireLoop, AcquireAddCapacity, Classify, Rebuild, TryJoinOk, TryJoinTimeout, ReleaseDone,
     ScanBusy, ScanIdle, ScanNone, Create, CreateFails, Activate, JoinBusy, JoinFree, JoinWait, JoinDone
<1>13. ASSUME NEW th \in Threads, Worker(th) \/ Expire(th) PROVE Goal
  BY <1>1, <1>9, <1>10, <1>13 DEF Worker, WorkerWake, WorkerCheck, Expire
<1>14. CASE UNCHANGED vars
  BY <1>1, <1>14 DEF vars
<1> QED BY <1>3, <1>4, <1>5, <1>11, <1>12, <1>13, <1>14 DEF Next

\* The pool implements the Executor: a target start() accepts is run exactly
\* once, joinAll() returns only when everything accepted before it is done, and
\* only stopAll() forgets a target, one that has not begun.
THEOREM PoolIsExecutor == Spec => ImplementsExecutor
<1> DEFINE J == [c \in Clients |-> op[c] = "joinAll"]
<1>1. Init => Promise!Init /\ ExecInv
  <2> SUFFICES ASSUME Init PROVE Promise!Init /\ ExecInv
    OBVIOUS
  <2>1. \A c \in Clients : op[c] = None /\ None # "joinAll" /\ None # "stopAll" /\ None # "start"
    BY PoolAssumption DEF Init, Ops
  <2>2. J = [c \in Clients |-> FALSE]
    BY <2>1, Zenon
  <2>3. ~Closing
    BY <2>1 DEF Closing
  <2>4. Closing = FALSE
    BY <2>3, Zenon DEF Closing
  <2>5. Promise!Init
    BY <2>2, <2>4 DEF Init, Promise!Init
  <2>6. ExecInv
    BY <2>1, <2>3 DEF Init, ExecInv, CallInv, HoldInv, JoinInv, CompletedInv
  <2> QED BY <2>5, <2>6
<1>2. Spec => []TypeInv
  BY TypeInit, TypeStep, PTL DEF Spec
<1>3. TypeInv /\ TypeInv' /\ PoolInv /\ PoolInv' /\ StopInv /\ ExecInv /\ [Next]_vars => ExecInv'
  BY ExecStep
<1>4. Spec => []ExecInv
  BY <1>1, <1>2, <1>3, StopInvariant, PoolInvariant, PTL DEF Spec
<1>5. TypeInv /\ PoolInv /\ StopInv /\ ExecInv /\ [Next]_vars => [Promise!Next]_(Promise!execVars)
  BY ExecutorStep
<1> QED BY <1>1, <1>2, <1>4, <1>5, StopInvariant, PoolInvariant, PTL DEF Spec, ImplementsExecutor, Promise!Spec
=============================================================================
