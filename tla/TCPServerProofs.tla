-------------------------- MODULE TCPServerProofs ---------------------------
(***************************************************************************)
(* Theorems about TCPServer, for any number of connections and connection  *)
(* threads, whatever the pool, the factory and the application do.  The    *)
(* server's steps are steps of its NotificationQueue, so that the queue's  *)
(* invariant holds here too.                                               *)
(***************************************************************************)
EXTENDS TCPServer, NotificationQueueProofs, FiniteSetTheorems

(* The sets the server's counters count.                                   *)

\* The threads whose guard holds a reference to the dispatcher.
Guarding == {w \in Workers : wpc[w] \notin {"off", "starting"}}

\* The threads that serve a connection.
Busy == {w \in Workers : wpc[w] \in {"serving", "end"}}

\* The threads that have fetched a connection they are not done with.
InHand == {w \in Workers : wpc[w] \in {"got", "begin"} /\ conn[w] # None} \cup Busy

\* The connections that have come to this.
With(f) == {n \in Connections : fate[n] = f}

-----------------------------------------------------------------------------
(* The inductive invariant.                                                *)

\* The accept thread holds a connection nobody has seen; it is started by the
\* application and gone before stop() touches the dispatcher; it only starts a
\* thread when there is room for one.
ControlInv ==
    /\ apc \in {"enqueue", "put"} => arg \in Connections /\ fate[arg] = "new"
    /\ spc \in {"new", "stop", "clear", "wake", "stopped", "destroyed"} => apc \in {"none", "done"}
    /\ spc \in {"new", "wake", "stopped", "destroyed"} => nfQueue = <<>>
    /\ apc = "start" => currentThreads < MaxThreads
    /\ \A w \in Workers : wpc[w] \in {"begin", "serving", "end"} => conn[w] # None

\* _currentThreads counts the threads, and the failures of the factory.
CountInv ==
    /\ IsFiniteSet(Used) /\ IsFiniteSet(Failed)
    /\ currentThreads = Cardinality(Used) + Cardinality(Failed)

\* _rc counts the guards, and the server's own reference.
RefInv ==
    /\ IsFiniteSet(Guarding)
    /\ rc = Cardinality(Guarding) + (IF spc = "destroyed" THEN 0 ELSE 1)
    /\ deleted <=> rc = 0

\* A connection taken in is in the queue or in one thread's hands.
PlaceInv ==
    /\ With("in") = accepted \cup {conn[w] : w \in InHand}
    /\ \A w \in InHand : conn[w] \notin accepted
    /\ \A v, w \in InHand : conn[v] = conn[w] => v = w

\* The statistics count what they say.
StatInv ==
    /\ IsFiniteSet(With("refused")) /\ IsFiniteSet(With("served")) /\ IsFiniteSet(Busy)
    /\ refusedConnections = Cardinality(With("refused"))
    /\ currentConnections = Cardinality(Busy)
    /\ totalConnections = Cardinality(With("served")) + currentConnections
    /\ maxConcurrentConnections \in currentConnections .. MaxThreads

ServerInv ==
    /\ ServerTypeOK /\ QueueInv
    /\ ControlInv /\ CountInv /\ RefInv /\ PlaceInv /\ StatInv
-----------------------------------------------------------------------------
(* The steps.                                                              *)

\* A server just constructed satisfies the invariant.
LEMMA ServerInvInit == ServerInit => ServerInv
<1> SUFFICES ASSUME ServerInit PROVE ServerInv
  OBVIOUS
<1> USE QueueAssumption, ServerAssumption DEF ServerInit
<1>1. QueueInv
  BY QueueInit
<1>2. serverStopped \in BOOLEAN /\ stopped \in BOOLEAN /\ deleted \in BOOLEAN
  BY Zenon
<1>3. ServerTypeOK
  BY <1>1, <1>2 DEF QueueInv, NothingLost, ServerTypeOK, AcceptPC, AppPC, RunPC, Workers, Connections
<1>4. Used = {} /\ Failed = {} /\ Guarding = {} /\ Busy = {} /\ InHand = {} /\ \A f : f # "new" => With(f) = {}
  BY DEF Used, Failed, Guarding, Busy, InHand, With
<1>5. IsFiniteSet({}) /\ Cardinality({}) = 0
  BY FS_EmptySet
<1>6. ControlInv
  BY DEF ControlInv, Init
<1>7. CountInv
  BY <1>4, <1>5 DEF CountInv
<1>8. RefInv
  BY <1>4, <1>5 DEF RefInv
<1>9. PlaceInv
  BY <1>4 DEF PlaceInv, Init
<1>10. StatInv
  BY <1>4, <1>5, SMTT(40) DEF StatInv
<1> QED BY <1>1, <1>3, <1>6, <1>7, <1>8, <1>9, <1>10 DEF ServerInv

\* Whatever the server does to its queue is a step of the queue.
LEMMA QueueRefined == ServerInv /\ [ServerNext]_srvVars => [Next]_queueVars
<1> SUFFICES ASSUME ServerInv, ServerNext, ~UNCHANGED queueVars PROVE Next
  BY DEF srvVars
<1>1. CASE EnqueuePut
  BY <1>1 DEF EnqueuePut, ServerInv, ControlInv, Next, Connections
<1>2. ASSUME NEW w \in Workers, Fetch(w) PROVE Next
  BY <1>2 DEF Fetch, Next, Consume, Workers
<1>3. CASE StopClear
  BY <1>3 DEF StopClear, Next
<1>4. CASE StopWake
  BY <1>4 DEF StopWake, Next
<1>5. QED
  BY <1>1, <1>2, <1>3, <1>4 DEF ServerNext, AcceptStep, WorkerStep, StopStep,
     AcceptHead, AcceptNothing, AcceptConnection, EnqueueRefused, EnqueueRoom, EnqueueLook, EnqueueNoThread, EnqueueStart, Start, StartFails, CallStop, JoinAcceptThread, StopFlag, Destroy, EnterRun, CreateConnection, CreateConnectionFails, BeginConnection, Serve, EndConnection, CheckLeave, CheckStay, LeaveRun

\* What a thread has in its hands is a connection the server took in.
LEMMA HeldIsIn ==
  ASSUME ServerInv, NEW w \in Workers,
         wpc[w] \in {"begin", "serving", "end"} \/ (wpc[w] = "got" /\ conn[w] # None)
  PROVE  w \in InHand /\ conn[w] \in Connections /\ fate[conn[w]] = "in"
<1>1. w \in InHand
  BY DEF ServerInv, ControlInv, InHand, Busy
<1> QED BY <1>1 DEF ServerInv, PlaceInv, With

\* The accept thread's and the application's place in their code.
LEMMA ControlStep == ServerInv /\ ServerNext => ControlInv'
<1> SUFFICES ASSUME ServerInv, ServerNext PROVE ControlInv'
  OBVIOUS
<1> USE ServerAssumption DEF ServerInv, ControlInv, ServerTypeOK, queueVars, dispVars, statVars, AcceptPC, AppPC, MutexFree, WGoto
<1>1. CASE AcceptHead
  BY <1>1 DEF AcceptHead
<1>2. CASE AcceptNothing
  BY <1>2 DEF AcceptNothing
<1>3. CASE EnqueueRefused
  BY <1>3 DEF EnqueueRefused
<1>4. CASE EnqueueRoom
  BY <1>4 DEF EnqueueRoom
<1>5. CASE EnqueuePut
  BY <1>5 DEF EnqueuePut, EnqueueNotification
<1>6. CASE EnqueueLook
  BY <1>6 DEF EnqueueLook
<1>7. CASE EnqueueNoThread
  BY <1>7 DEF EnqueueNoThread
<1>8. CASE Start \/ StartFails
  BY <1>8 DEF Start, StartFails
<1>9. CASE CallStop
  BY <1>9 DEF CallStop
<1>10. CASE JoinAcceptThread
  BY <1>10 DEF JoinAcceptThread
<1>11. CASE StopFlag
  BY <1>11 DEF StopFlag
<1>12. CASE StopClear
  BY <1>12 DEF StopClear, Clear, TakeAll
<1>13. CASE StopWake
  BY <1>13 DEF StopWake, WakeUpAll
<1>14. CASE Destroy
  BY <1>14 DEF Destroy, DropReference
<1>15. ASSUME NEW n \in Connections, AcceptConnection(n) PROVE ControlInv'
  BY <1>15 DEF AcceptConnection
<1>16. ASSUME NEW w \in Workers, EnqueueStart(w) PROVE ControlInv'
  BY <1>16 DEF EnqueueStart, OneThreadMore
<1>17. ASSUME NEW w \in Workers, EnterRun(w) PROVE ControlInv'
  BY <1>17 DEF EnterRun
<1>18. ASSUME NEW w \in Workers, Fetch(w) PROVE ControlInv'
  BY <1>18 DEF Fetch, Fetched, TakeFirst, Woken, AfterTimeOut, Leave, BeginWait, TimeOut
<1>19. ASSUME NEW w \in Workers, CreateConnection(w) PROVE ControlInv'
  BY <1>19 DEF CreateConnection, HasConnection
<1>20. ASSUME NEW w \in Workers, CreateConnectionFails(w) PROVE ControlInv'
  BY <1>20, HeldIsIn DEF CreateConnectionFails
<1>21. ASSUME NEW w \in Workers, BeginConnection(w) PROVE ControlInv'
  BY <1>21 DEF BeginConnection
<1>22. ASSUME NEW w \in Workers, Serve(w) PROVE ControlInv'
  BY <1>22 DEF Serve
<1>23. ASSUME NEW w \in Workers, EndConnection(w) PROVE ControlInv'
  BY <1>23, HeldIsIn DEF EndConnection
<1>24. ASSUME NEW w \in Workers, CheckLeave(w) PROVE ControlInv'
  BY <1>24 DEF CheckLeave, Surplus
<1>25. ASSUME NEW w \in Workers, CheckStay(w) PROVE ControlInv'
  BY <1>25 DEF CheckStay
<1>26. ASSUME NEW w \in Workers, LeaveRun(w) PROVE ControlInv'
  BY <1>26 DEF LeaveRun, DropReference
<1> HIDE DEF ControlInv
<1> QED BY <1>1, <1>2, <1>3, <1>4, <1>5, <1>6, <1>7, <1>8, <1>9, <1>10, <1>11, <1>12, <1>13, <1>14, <1>15, <1>16, <1>17, <1>18, <1>19, <1>20, <1>21, <1>22, <1>23, <1>24, <1>25, <1>26 DEF ServerNext, AcceptStep, WorkerStep, StopStep

\* A set with one element more.
LEMMA OneMore ==
  ASSUME NEW S, NEW T, NEW x, IsFiniteSet(S), T = S \cup {x}, x \notin S
  PROVE  IsFiniteSet(T) /\ Cardinality(S) \in Nat /\ Cardinality(T) = Cardinality(S) + 1
  BY FS_AddElement, FS_CardinalityType

\* A set with one element less.
LEMMA OneLess ==
  ASSUME NEW S, NEW T, NEW x, IsFiniteSet(S), T = S \ {x}, x \in S
  PROVE  /\ IsFiniteSet(T) /\ Cardinality(S) \in Nat /\ Cardinality(T) \in Nat
         /\ Cardinality(T) = Cardinality(S) - 1
  BY FS_RemoveElement, FS_CardinalityType

\* _currentThreads follows the threads.
LEMMA CountStep == ServerInv /\ ServerNext => CountInv' /\ currentThreads' \in 0 .. MaxThreads
<1> SUFFICES ASSUME ServerInv, ServerNext PROVE CountInv' /\ currentThreads' \in 0 .. MaxThreads
  OBVIOUS
<1> USE DEF ServerInv, CountInv, ServerTypeOK, dispVars, WGoto
<1>1. Cardinality(Used) \in Nat /\ Cardinality(Failed) \in Nat /\ MaxThreads \in Nat
  BY FS_CardinalityType, ServerAssumption
<1>2. CASE Used' = Used /\ Failed' = Failed /\ UNCHANGED currentThreads
  BY <1>2
<1>3. CASE UNCHANGED <<wpc, currentThreads>> /\ (\A n \in Connections : fate'[n] = "failed" <=> fate[n] = "failed")
  BY <1>2, <1>3 DEF Used, Failed
<1>4. ASSUME NEW w \in Workers, NEW l \in RunPC, WGoto(w, l),
             wpc[w] \notin {"off", "leaving"}, l \notin {"off", "leaving"}, UNCHANGED currentThreads,
             \A n \in Connections : fate'[n] = "failed" <=> fate[n] = "failed"
      PROVE  CountInv' /\ currentThreads' \in 0 .. MaxThreads
  <2>1. Used' = Used /\ Failed' = Failed
    BY <1>4 DEF Used, Failed
  <2> QED BY <1>2, <1>4, <2>1
<1>5. ASSUME NEW w \in Workers, EnqueueStart(w) PROVE CountInv' /\ currentThreads' \in 0 .. MaxThreads
  <2>1. Used' = Used \cup {w} /\ w \notin Used /\ Failed' = Failed
    BY <1>5 DEF EnqueueStart, Used, Failed
  <2>2. currentThreads' = currentThreads + 1 /\ currentThreads < MaxThreads
    BY <1>5 DEF EnqueueStart, OneThreadMore, ControlInv
  <2>3. IsFiniteSet(Used') /\ Cardinality(Used') = Cardinality(Used) + 1
    BY <2>1, OneMore
  <2> QED BY <1>1, <2>1, <2>2, <2>3
<1>6. ASSUME NEW w \in Workers, CreateConnectionFails(w) PROVE CountInv' /\ currentThreads' \in 0 .. MaxThreads
  <2>1. conn[w] \in Connections /\ fate[conn[w]] = "in"
    BY <1>6, HeldIsIn DEF CreateConnectionFails
  <2>2. /\ Used' = Used \ {w} /\ w \in Used
        /\ Failed' = Failed \cup {conn[w]} /\ conn[w] \notin Failed
    BY <1>6, <2>1 DEF CreateConnectionFails, Used, Failed
  <2>3. IsFiniteSet(Used') /\ Cardinality(Used') = Cardinality(Used) - 1
    BY <2>2, OneLess
  <2>4. IsFiniteSet(Failed') /\ Cardinality(Failed') = Cardinality(Failed) + 1
    BY <2>2, OneMore
  <2>5. UNCHANGED currentThreads
    BY <1>6 DEF CreateConnectionFails
  <2> QED BY <1>1, <2>3, <2>4, <2>5
<1>7. ASSUME NEW w \in Workers, CheckLeave(w) PROVE CountInv' /\ currentThreads' \in 0 .. MaxThreads
  <2>1. Used' = Used \ {w} /\ w \in Used /\ Failed' = Failed
    BY <1>7 DEF CheckLeave, Used, Failed
  <2>2. IsFiniteSet(Used') /\ Cardinality(Used') \in Nat /\ Cardinality(Used') = Cardinality(Used) - 1
    BY <2>1, OneLess
  <2>3. currentThreads' = currentThreads - 1
    BY <1>7 DEF CheckLeave
  <2> QED BY <1>1, <2>1, <2>2, <2>3
<1>8. CASE AcceptStep
  BY <1>3, <1>5, <1>8 DEF AcceptStep, AcceptHead, AcceptNothing, EnqueueRefused, EnqueueRoom, EnqueuePut,
     EnqueueLook, EnqueueNoThread, ControlInv
<1>9. ASSUME NEW w \in Workers, WorkerStep(w) PROVE CountInv' /\ currentThreads' \in 0 .. MaxThreads
  <2>1. CASE EnterRun(w)
    BY <1>4, <2>1 DEF EnterRun, RunPC
  <2>2. CASE Fetch(w)
    BY <1>3, <1>4, <2>2 DEF Fetch, Fetched, RunPC
  <2>3. CASE CreateConnection(w)
    BY <1>4, <2>3 DEF CreateConnection, RunPC
  <2>4. CASE BeginConnection(w)
    BY <1>4, <2>4 DEF BeginConnection, RunPC
  <2>5. CASE Serve(w)
    BY <1>4, <2>5 DEF Serve, RunPC
  <2>6. CASE EndConnection(w)
    <3>1. conn[w] \in Connections /\ fate[conn[w]] = "in"
      BY <2>6, HeldIsIn DEF EndConnection
    <3> QED BY <1>4, <2>6, <3>1 DEF EndConnection, RunPC
  <2>7. CASE CheckStay(w)
    BY <1>4, <2>7 DEF CheckStay, RunPC
  <2>8. CASE LeaveRun(w)
    BY <1>2, <2>8 DEF LeaveRun, Used, Failed
  <2> QED BY <1>6, <1>7, <1>9, <2>1, <2>2, <2>3, <2>4, <2>5, <2>6, <2>7, <2>8 DEF WorkerStep
<1>10. CASE StopClear
  <2>1. \A n \in Connections : fate'[n] = "failed" <=> fate[n] = "failed"
    <3>1. \A n \in Range(nfQueue) : fate[n] = "in"
      BY DEF QueueInv, NothingLost, PlaceInv, With
    <3> QED BY <1>10, <3>1 DEF StopClear
  <2> QED BY <1>3, <1>10, <2>1 DEF StopClear
<1>11. CASE Start \/ StartFails \/ CallStop \/ JoinAcceptThread \/ StopFlag \/ StopWake \/ Destroy \/ \E n \in Connections : AcceptConnection(n)
  BY <1>3, <1>11 DEF Start, StartFails, CallStop, JoinAcceptThread, StopFlag, StopWake, Destroy, AcceptConnection
<1> QED BY <1>8, <1>9, <1>10, <1>11 DEF ServerNext, StopStep

\* _rc follows the guards.
LEMMA RefStep == ServerInv /\ ServerNext => RefInv' /\ rc' \in Nat /\ deleted' \in BOOLEAN
<1> SUFFICES ASSUME ServerInv, ServerNext PROVE RefInv' /\ rc' \in Nat /\ deleted' \in BOOLEAN
  OBVIOUS
<1> USE DEF ServerInv, RefInv, ServerTypeOK, dispVars, WGoto, AppPC
<1>1. Cardinality(Guarding) \in Nat
  BY FS_CardinalityType
<1>2. CASE Guarding' = Guarding /\ UNCHANGED <<rc, deleted>> /\ (spc' = "destroyed" <=> spc = "destroyed")
  BY <1>2
<1>3. CASE UNCHANGED <<wpc, rc, deleted>> /\ (spc' = "destroyed" <=> spc = "destroyed")
  BY <1>2, <1>3 DEF Guarding
<1>4. ASSUME NEW w \in Workers, NEW l \in RunPC, WGoto(w, l), UNCHANGED <<rc, deleted, spc>>,
             wpc[w] \in {"off", "starting"} <=> l \in {"off", "starting"}
      PROVE  RefInv' /\ rc' \in Nat /\ deleted' \in BOOLEAN
  <2>1. Guarding' = Guarding
    BY <1>4 DEF Guarding
  <2> QED BY <1>2, <1>4, <2>1
<1>5. ASSUME NEW w \in Workers, EnterRun(w) PROVE RefInv' /\ rc' \in Nat /\ deleted' \in BOOLEAN
  <2>1. Guarding' = Guarding \cup {w} /\ w \notin Guarding
    BY <1>5 DEF EnterRun, Guarding
  <2>2. rc' = rc + 1 /\ UNCHANGED <<deleted, spc>> /\ ~deleted
    BY <1>5 DEF EnterRun, Duplicated
  <2>3. IsFiniteSet(Guarding') /\ Cardinality(Guarding') = Cardinality(Guarding) + 1
    BY <2>1, OneMore
  <2> QED BY <1>1, <2>2, <2>3
<1>6. ASSUME DropReference, rc # 0 PROVE rc' = rc - 1 /\ rc' \in Nat /\ deleted' \in BOOLEAN /\ (deleted' <=> rc' = 0)
  <2>1. rc' = rc - 1 /\ rc' \in Nat
    BY <1>6 DEF DropReference
  <2>2. deleted' \in BOOLEAN /\ (deleted' <=> rc = 1)
    BY <1>6, Zenon DEF DropReference
  <2> QED BY <2>1, <2>2
<1>7. ASSUME NEW w \in Workers, LeaveRun(w) PROVE RefInv' /\ rc' \in Nat /\ deleted' \in BOOLEAN
  <2>1. Guarding' = Guarding \ {w} /\ w \in Guarding /\ UNCHANGED spc /\ DropReference
    BY <1>7 DEF LeaveRun, Guarding
  <2>2. IsFiniteSet(Guarding') /\ Cardinality(Guarding') \in Nat /\ Cardinality(Guarding') = Cardinality(Guarding) - 1
    BY <2>1, OneLess
  <2>3. rc # 0
    BY <1>1, <2>2
  <2>4. rc' = rc - 1 /\ rc' \in Nat /\ deleted' \in BOOLEAN /\ (deleted' <=> rc' = 0)
    BY <1>6, <2>1, <2>3
  <2>5. rc' = Cardinality(Guarding') + (IF spc' = "destroyed" THEN 0 ELSE 1)
    BY <1>1, <2>1, <2>2, <2>4
  <2> QED BY <2>2, <2>4, <2>5
<1>8. CASE Destroy
  <2>1. Guarding' = Guarding /\ spc # "destroyed" /\ spc' = "destroyed" /\ DropReference
    BY <1>8 DEF Destroy, Guarding
  <2>2. rc = Cardinality(Guarding) + 1
    BY <2>1
  <2>3. rc # 0
    BY <1>1, <2>2
  <2>4. rc' = rc - 1 /\ rc' \in Nat /\ deleted' \in BOOLEAN /\ (deleted' <=> rc' = 0)
    BY <1>6, <2>1, <2>3
  <2>5. rc' = Cardinality(Guarding') + (IF spc' = "destroyed" THEN 0 ELSE 1)
    BY <1>1, <2>1, <2>2, <2>4
  <2> QED BY <2>1, <2>4, <2>5
<1>9. CASE AcceptStep
  <2>1. ASSUME NEW w \in Workers, EnqueueStart(w) PROVE RefInv' /\ rc' \in Nat /\ deleted' \in BOOLEAN
    BY <1>4, <2>1 DEF EnqueueStart, RunPC
  <2> QED BY <1>3, <1>9, <2>1 DEF AcceptStep, AcceptHead, AcceptNothing, EnqueueRefused, EnqueueRoom, EnqueuePut,
     EnqueueLook, EnqueueNoThread
<1>10. ASSUME NEW w \in Workers, WorkerStep(w) PROVE RefInv' /\ rc' \in Nat /\ deleted' \in BOOLEAN
  <2>1. CASE Fetch(w)
    BY <1>3, <1>4, <2>1 DEF Fetch, Fetched, RunPC
  <2>2. CASE CreateConnection(w) \/ CreateConnectionFails(w)
    BY <1>4, <2>2 DEF CreateConnection, CreateConnectionFails, RunPC
  <2>3. CASE BeginConnection(w) \/ Serve(w) \/ EndConnection(w)
    BY <1>4, <2>3 DEF BeginConnection, Serve, EndConnection, RunPC
  <2>4. CASE CheckLeave(w) \/ CheckStay(w)
    BY <1>4, <2>4 DEF CheckLeave, CheckStay, RunPC
  <2> QED BY <1>5, <1>7, <1>10, <2>1, <2>2, <2>3, <2>4 DEF WorkerStep
<1>11. CASE Start \/ StartFails \/ CallStop \/ StopStep \/ \E n \in Connections : AcceptConnection(n)
  BY <1>3, <1>11 DEF Start, StartFails, CallStop, StopStep, JoinAcceptThread, StopFlag, StopClear, StopWake, AcceptConnection
<1> QED BY <1>8, <1>9, <1>10, <1>11 DEF ServerNext

\* The statistics follow the connections.
LEMMA StatStep == ServerInv /\ ServerNext => StatInv' /\ maxConcurrentConnections' \in Nat
<1> SUFFICES ASSUME ServerInv, ServerNext PROVE StatInv' /\ maxConcurrentConnections' \in Nat
  OBVIOUS
<1> USE DEF ServerInv, StatInv, ServerTypeOK, dispVars, statVars, WGoto
<1>1. Cardinality(With("refused")) \in Nat /\ Cardinality(With("served")) \in Nat /\ Cardinality(Busy) \in Nat
  BY FS_CardinalityType
<1>2. CASE Busy' = Busy /\ With("refused")' = With("refused") /\ With("served")' = With("served") /\ UNCHANGED statVars
  BY <1>2
<1>3. CASE UNCHANGED <<wpc, statVars>> /\ (\A n \in Connections : fate'[n] \in {"refused", "served"} \/ fate[n] \in {"refused", "served"} => fate'[n] = fate[n])
  BY <1>2, <1>3 DEF Busy, With
<1>4. ASSUME NEW w \in Workers, NEW l \in RunPC, WGoto(w, l), UNCHANGED statVars,
             wpc[w] \in {"serving", "end"} <=> l \in {"serving", "end"},
             \A n \in Connections : fate'[n] \in {"refused", "served"} \/ fate[n] \in {"refused", "served"} => fate'[n] = fate[n]
      PROVE  StatInv' /\ maxConcurrentConnections' \in Nat
  <2>1. Busy' = Busy
    BY <1>4 DEF Busy
  <2>2. With("refused")' = With("refused") /\ With("served")' = With("served")
    BY <1>4 DEF With
  <2> QED BY <1>2, <1>4, <2>1, <2>2
<1>5. CASE EnqueueRefused
  <2>1. With("refused")' = With("refused") \cup {arg} /\ arg \notin With("refused")
    BY <1>5 DEF EnqueueRefused, With, ControlInv
  <2>2. With("served")' = With("served") /\ Busy' = Busy
    BY <1>5 DEF EnqueueRefused, With, ControlInv, Busy
  <2>3. IsFiniteSet(With("refused")') /\ Cardinality(With("refused")') = Cardinality(With("refused")) + 1
    BY <2>1, OneMore
  <2> QED BY <1>5, <2>2, <2>3 DEF EnqueueRefused
<1>6. ASSUME NEW w \in Workers, BeginConnection(w) PROVE StatInv' /\ maxConcurrentConnections' \in Nat
  <2>1. Busy' = Busy \cup {w} /\ w \notin Busy
    BY <1>6 DEF BeginConnection, Busy
  <2>2. With("refused")' = With("refused") /\ With("served")' = With("served")
    BY <1>6 DEF BeginConnection, With
  <2>3. IsFiniteSet(Busy') /\ Cardinality(Busy') = Cardinality(Busy) + 1
    BY <2>1, OneMore
  <2>4. \A a, b \in Nat : Max({a, b}) \in {a, b} /\ Max({a, b}) >= a /\ Max({a, b}) >= b
    <3> TAKE a, b \in Nat
    <3>1. \E x \in {a, b} : \A y \in {a, b} : x >= y
      OBVIOUS
    <3> QED BY <3>1 DEF Max
  <2>5. Busy' \subseteq Used
    BY <1>6 DEF BeginConnection, Busy, Used
  <2>6. Cardinality(Busy') <= Cardinality(Used) /\ Cardinality(Used) \in Nat /\ Cardinality(Failed) \in Nat
    BY <2>5, FS_Subset, FS_CardinalityType DEF CountInv
  <2>7. currentConnections + 1 <= MaxThreads
    BY <1>1, <2>3, <2>6, ServerAssumption DEF CountInv
  <2>8. maxConcurrentConnections' \in (currentConnections + 1) .. MaxThreads
    <3>1. maxConcurrentConnections' = Max({maxConcurrentConnections, currentConnections + 1})
      BY <1>6 DEF BeginConnection
    <3>2. currentConnections \in Nat /\ maxConcurrentConnections \in Nat /\ maxConcurrentConnections <= MaxThreads /\ MaxThreads \in Nat
      BY <1>1, ServerAssumption
    <3> QED BY ONLY <2>4, <2>7, <3>1, <3>2
  <2>9. currentConnections' = currentConnections + 1 /\ totalConnections' = totalConnections + 1 /\ refusedConnections' = refusedConnections
    BY <1>6 DEF BeginConnection
  <2>10. maxConcurrentConnections' \in Nat
    BY <1>1, <2>8, ServerAssumption
  <2> QED BY <1>1, <2>2, <2>3, <2>8, <2>9, <2>10
<1>7. ASSUME NEW w \in Workers, EndConnection(w) PROVE StatInv' /\ maxConcurrentConnections' \in Nat
  <2>1. conn[w] \in Connections /\ fate[conn[w]] = "in"
    BY <1>7, HeldIsIn DEF EndConnection
  <2>2. Busy' = Busy \ {w} /\ w \in Busy
    BY <1>7 DEF EndConnection, Busy
  <2>3. With("served")' = With("served") \cup {conn[w]} /\ conn[w] \notin With("served")
    BY <1>7, <2>1 DEF EndConnection, With
  <2>4. With("refused")' = With("refused")
    BY <1>7, <2>1 DEF EndConnection, With
  <2>5. IsFiniteSet(Busy') /\ Cardinality(Busy') \in Nat /\ Cardinality(Busy') = Cardinality(Busy) - 1
    BY <2>2, OneLess
  <2>6. IsFiniteSet(With("served")') /\ Cardinality(With("served")') = Cardinality(With("served")) + 1
    BY <2>3, OneMore
  <2>7. UNCHANGED <<totalConnections, maxConcurrentConnections, refusedConnections>> /\ currentConnections' = currentConnections - 1
    BY <1>7 DEF EndConnection
  <2> QED BY <1>1, <2>4, <2>5, <2>6, <2>7
<1>8. CASE AcceptStep
  <2>1. ASSUME NEW w \in Workers, EnqueueStart(w) PROVE StatInv' /\ maxConcurrentConnections' \in Nat
    BY <1>4, <2>1 DEF EnqueueStart, RunPC
  <2>2. CASE EnqueuePut
    BY <1>3, <2>2 DEF EnqueuePut, ControlInv
  <2> QED BY <1>3, <1>5, <1>8, <2>1, <2>2 DEF AcceptStep, AcceptHead, AcceptNothing, EnqueueRoom, EnqueueLook, EnqueueNoThread
<1>9. ASSUME NEW w \in Workers, WorkerStep(w) PROVE StatInv' /\ maxConcurrentConnections' \in Nat
  <2>1. CASE Fetch(w)
    BY <1>3, <1>4, <2>1 DEF Fetch, Fetched, RunPC
  <2>2. CASE CreateConnectionFails(w)
    <3>1. conn[w] \in Connections /\ fate[conn[w]] = "in"
      BY <2>2, HeldIsIn DEF CreateConnectionFails
    <3> QED BY <1>4, <2>2, <3>1 DEF CreateConnectionFails, RunPC
  <2>3. CASE CreateConnection(w) \/ Serve(w) \/ CheckLeave(w) \/ CheckStay(w)
    BY <1>4, <2>3 DEF CreateConnection, Serve, CheckLeave, CheckStay, RunPC
  <2>4. CASE EnterRun(w) \/ LeaveRun(w)
    BY <1>4, <2>4 DEF EnterRun, LeaveRun, RunPC
  <2> QED BY <1>6, <1>7, <1>9, <2>1, <2>2, <2>3, <2>4 DEF WorkerStep
<1>10. CASE StopClear
  <2>1. \A n \in Range(nfQueue) : fate[n] = "in"
    BY DEF QueueInv, NothingLost, PlaceInv, With
  <2> QED BY <1>3, <1>10, <2>1 DEF StopClear
<1>11. CASE Start \/ StartFails \/ CallStop \/ JoinAcceptThread \/ StopFlag \/ StopWake \/ Destroy \/ \E n \in Connections : AcceptConnection(n)
  BY <1>3, <1>11 DEF Start, StartFails, CallStop, JoinAcceptThread, StopFlag, StopWake, Destroy, AcceptConnection
<1> QED BY <1>8, <1>9, <1>10, <1>11 DEF ServerNext, StopStep

\* A connection stays in one place, and moves from one to the next.
LEMMA PlaceStep == ServerInv /\ ServerNext => PlaceInv'
<1> SUFFICES ASSUME ServerInv, ServerNext PROVE PlaceInv'
  OBVIOUS
<1> USE DEF ServerInv, PlaceInv, ServerTypeOK, WGoto, Connections
<1>1. CASE UNCHANGED <<accepted, conn>> /\ InHand' = InHand /\ With("in")' = With("in")
  BY <1>1
<1>2. CASE UNCHANGED <<wpc, conn, accepted>> /\ (\A n \in Connections : fate'[n] = "in" <=> fate[n] = "in")
  <2>1. InHand' = InHand /\ With("in")' = With("in")
    BY <1>2 DEF InHand, Busy, With
  <2> QED BY <1>1, <1>2, <2>1
<1>3. ASSUME NEW w \in Workers, NEW l \in RunPC, WGoto(w, l), UNCHANGED <<conn, accepted, fate>>,
             w \in InHand <=> (l \in {"serving", "end"} \/ (l \in {"got", "begin"} /\ conn[w] # None))
      PROVE  PlaceInv'
  <2>1. InHand' = InHand
    BY <1>3 DEF InHand, Busy
  <2>2. With("in")' = With("in")
    BY <1>3 DEF With
  <2> QED BY <1>1, <1>3, <2>1, <2>2
<1>4. CASE EnqueuePut
  <2>1. InHand' = InHand /\ UNCHANGED conn
    BY <1>4 DEF EnqueuePut, InHand, Busy
  <2>2. accepted' = accepted \cup {arg} /\ arg \in Connections /\ fate[arg] = "new"
    BY <1>4 DEF EnqueuePut, EnqueueNotification, ControlInv
  <2>3. With("in")' = With("in") \cup {arg}
    BY <1>4, <2>2 DEF EnqueuePut, With
  <2>4. \A w \in InHand : conn[w] # arg
    BY <2>2 DEF With
  <2> QED BY <2>1, <2>2, <2>3, <2>4
<1>5. ASSUME NEW w \in Workers, NEW n \in accepted \cup {None}, Fetched(w, n),
             wpc[w] = "loop", accepted' = accepted \ {n}, UNCHANGED fate
      PROVE  PlaceInv'
  <2>1. w \notin InHand
    BY <1>5 DEF InHand, Busy
  <2>2. With("in")' = With("in")
    BY <1>5 DEF With
  <2>3. conn'[w] = n /\ \A v \in Workers \ {w} : conn'[v] = conn[v] /\ wpc'[v] = wpc[v]
    BY <1>5 DEF Fetched
  <2>4. InHand' = IF n = None THEN InHand ELSE InHand \cup {w}
    BY <1>5, <2>1 DEF Fetched, InHand, Busy
  <2>5. InHand \subseteq Workers \ {w}
    BY <2>1 DEF InHand, Busy
  <2>6. CASE n = None
    <3>1. None \notin accepted
      BY QueueAssumption DEF QueueTypeOK
    <3> QED BY <1>5, <2>2, <2>3, <2>4, <2>5, <2>6, <3>1
  <2>7. CASE n # None
    BY <1>5, <2>2, <2>3, <2>4, <2>5, <2>7
  <2> QED BY <2>6, <2>7
<1>6. ASSUME NEW w \in Workers, Fetch(w) PROVE PlaceInv'
  <2> USE DEF Workers
  <2>1. CASE TakeFirst(w) /\ Fetched(w, Head(nfQueue))
    <3>1. Head(nfQueue) \in accepted
      <4>1. Head(nfQueue) \in Range(nfQueue)
        BY <2>1, TailDistinct DEF TakeFirst, QueueInv, NothingLost, QueueTypeOK, IsInjective
      <4> QED BY <4>1 DEF QueueInv, NothingLost
    <3> QED BY <1>5, <1>6, <2>1, <3>1 DEF Fetch, TakeFirst
  <2>2. ASSUME Leave(w), cpc[w] \in Waiting PROVE pNf[w] \in accepted \cup {None} /\ accepted' = accepted \ {pNf[w]}
    BY <2>2 DEF Leave, Handed, QueueInv, NothingLost
  <2>3. CASE (Woken(w) \/ AfterTimeOut(w)) /\ Fetched(w, pNf[w])
    BY <1>5, <1>6, <2>2, <2>3 DEF Fetch, Woken, AfterTimeOut, Waiting
  <2>4. CASE (BeginWait(w) \/ TimeOut(w)) /\ UNCHANGED <<conn, wpc>>
    BY <1>2, <1>6, <2>4 DEF Fetch, BeginWait, TimeOut
  <2> QED BY <1>6, <2>1, <2>3, <2>4 DEF Fetch
<1>7. ASSUME NEW w \in Workers, w \in InHand, conn' = [conn EXCEPT ![w] = None], UNCHANGED accepted,
             NEW l \in {"leaving", "check"}, WGoto(w, l),
             NEW f \in {"failed", "served"}, fate' = [fate EXCEPT ![conn[w]] = f]
      PROVE  PlaceInv'
  <2>1. InHand' = InHand \ {w}
    BY <1>7 DEF InHand, Busy
  <2>2. With("in")' = With("in") \ {conn[w]}
    BY <1>7 DEF With
  <2>3. \A v \in InHand' : v \in InHand /\ v # w /\ conn'[v] = conn[v]
    BY <1>7, <2>1 DEF InHand, Busy
  <2> QED BY <1>7, <2>1, <2>2, <2>3
<1>8. ASSUME NEW w \in Workers, WorkerStep(w) PROVE PlaceInv'
  <2> USE DEF queueVars
  <2>1. CASE EnterRun(w) \/ LeaveRun(w) \/ CheckLeave(w) \/ CheckStay(w)
    BY <1>3, <2>1 DEF EnterRun, LeaveRun, CheckLeave, CheckStay, RunPC, InHand, Busy
  <2>2. CASE CreateConnection(w)
    BY <1>3, <2>2 DEF CreateConnection, HasConnection, RunPC, InHand, Busy
  <2>3. CASE BeginConnection(w) \/ Serve(w)
    BY <1>3, <2>3 DEF BeginConnection, Serve, RunPC, InHand, Busy, ControlInv
  <2>4. CASE CreateConnectionFails(w) \/ EndConnection(w)
    BY <1>7, <2>4, HeldIsIn DEF CreateConnectionFails, EndConnection
  <2> QED BY <1>6, <1>8, <2>1, <2>2, <2>3, <2>4 DEF WorkerStep
<1>9. CASE AcceptStep
  <2> USE DEF queueVars
  <2>1. ASSUME NEW w \in Workers, EnqueueStart(w) PROVE PlaceInv'
    BY <1>3, <2>1 DEF EnqueueStart, RunPC, InHand, Busy
  <2>2. CASE EnqueueRefused
    BY <1>2, <2>2 DEF EnqueueRefused, ControlInv
  <2> QED BY <1>2, <1>4, <1>9, <2>1, <2>2 DEF AcceptStep, AcceptHead, AcceptNothing, EnqueueRoom, EnqueueLook, EnqueueNoThread
<1>10. CASE StopClear
  <2>1. InHand' = InHand /\ UNCHANGED conn
    BY <1>10 DEF StopClear, InHand, Busy
  <2>2. accepted' = accepted \ Range(nfQueue)
    <3>1. CASE nfQueue = <<>> /\ UNCHANGED queueVars
      <4>1. Range(nfQueue) = {}
        BY <3>1 DEF Range
      <4> QED BY <3>1, <4>1 DEF queueVars
    <3> QED BY <1>10, <3>1 DEF StopClear, Clear, TakeAll
  <2>3. Range(nfQueue) \subseteq accepted
    BY DEF QueueInv, NothingLost
  <2>4. With("in")' = With("in") \ Range(nfQueue)
    BY <1>10 DEF StopClear, With
  <2> QED BY <2>1, <2>2, <2>3, <2>4
<1>11. CASE Start \/ StartFails \/ CallStop \/ JoinAcceptThread \/ StopFlag \/ StopWake \/ Destroy \/ \E n \in Connections : AcceptConnection(n)
  BY <1>2, <1>11 DEF Start, StartFails, CallStop, JoinAcceptThread, StopFlag, StopWake, WakeUpAll, Destroy, AcceptConnection, queueVars
<1> QED BY <1>8, <1>9, <1>10, <1>11 DEF ServerNext, StopStep

\* Every variable keeps its type.
LEMMA TypeStep == ServerInv /\ ServerNext => ServerTypeOK'
<1> SUFFICES ASSUME ServerInv, ServerNext PROVE ServerTypeOK'
  OBVIOUS
<1>1. QueueTypeOK'
  BY QueueRefined, QueueStep DEF ServerInv, QueueInv, NothingLost
<1>2. currentThreads' \in 0 .. MaxThreads /\ rc' \in Nat /\ deleted' \in BOOLEAN
  BY CountStep, RefStep
<1>3. /\ totalConnections' \in Nat /\ refusedConnections' \in Nat
      /\ currentConnections' \in Nat /\ maxConcurrentConnections' \in Nat
  <2>1. StatInv' /\ maxConcurrentConnections' \in Nat
    BY StatStep
  <2>2. /\ Cardinality(With("refused")') \in Nat /\ Cardinality(With("served")') \in Nat
        /\ Cardinality(Busy') \in Nat
    BY <2>1, FS_CardinalityType DEF StatInv
  <2> QED BY <2>1, <2>2 DEF StatInv
<1> USE DEF ServerInv, ServerTypeOK, dispVars, statVars, queueVars, WGoto
<1>4. serverStopped' \in BOOLEAN /\ stopped' \in BOOLEAN
  <2>1. CASE Start \/ StartFails \/ CallStop \/ StopFlag
    BY <2>1, Zenon DEF Start, StartFails, CallStop, StopFlag
  <2>2. CASE UNCHANGED <<serverStopped, stopped>>
    BY <2>2
  <2> QED
    BY <2>1, <2>2 DEF ServerNext, AcceptStep, WorkerStep, StopStep, AcceptHead, AcceptNothing, AcceptConnection,
       EnqueueRefused, EnqueueRoom, EnqueuePut, EnqueueLook, EnqueueNoThread, EnqueueStart, JoinAcceptThread,
       StopClear, StopWake, Destroy, EnterRun, Fetch, CreateConnection, CreateConnectionFails,
       BeginConnection, Serve, EndConnection, CheckLeave, CheckStay, LeaveRun
<1>5. /\ apc' \in AcceptPC /\ spc' \in AppPC /\ wpc' \in [Workers -> RunPC]
      /\ arg' \in Connections \cup {None} /\ conn' \in [Workers -> Connections \cup {None}]
      /\ fate' \in [Connections -> {"new", "refused", "in", "served", "failed", "dropped"}]
  <2> USE DEF AcceptPC, AppPC, RunPC
  <2>1. CASE AcceptStep \/ \E n \in Connections : AcceptConnection(n)
    BY <2>1 DEF AcceptStep, AcceptHead, AcceptNothing, AcceptConnection,
       EnqueueRefused, EnqueueRoom, EnqueuePut, EnqueueLook, EnqueueNoThread, EnqueueStart
  <2>2. ASSUME NEW w \in Workers, Fetch(w)
        PROVE  wpc' \in [Workers -> RunPC] /\ conn' \in [Workers -> Connections \cup {None}]
    <3>1. nfQueue # <<>> => Head(nfQueue) \in Connections
      BY EmptySeq, HeadTailProperties DEF QueueTypeOK, Connections
    <3>2. pNf[w] \in Connections \cup {None}
      BY DEF QueueTypeOK, Connections, Workers
    <3> QED BY <2>2, <3>1, <3>2 DEF Fetch, Fetched, TakeFirst
  <2>3. ASSUME NEW w \in Workers, WorkerStep(w), ~Fetch(w)
        PROVE  /\ UNCHANGED <<apc, arg, spc>>
               /\ wpc' \in [Workers -> RunPC] /\ conn' \in [Workers -> Connections \cup {None}]
               /\ fate' \in [Connections -> {"new", "refused", "in", "served", "failed", "dropped"}]
    BY <2>3 DEF WorkerStep, EnterRun, CreateConnection, CreateConnectionFails,
       BeginConnection, Serve, EndConnection, CheckLeave, CheckStay, LeaveRun
  <2>4. CASE \E w \in Workers : WorkerStep(w)
    BY <2>2, <2>3, <2>4 DEF Fetch
  <2>5. CASE Start \/ StartFails \/ CallStop \/ StopStep \/ Destroy
    BY <2>5 DEF Start, StartFails, CallStop, StopStep, JoinAcceptThread, StopFlag, StopClear, StopWake, Destroy
  <2> QED BY <2>1, <2>4, <2>5 DEF ServerNext
<1> QED BY <1>1, <1>2, <1>3, <1>4, <1>5

\* Every step preserves the invariant.
LEMMA ServerInvStep == ServerInv /\ [ServerNext]_srvVars => ServerInv'
<1> SUFFICES ASSUME ServerInv, [ServerNext]_srvVars PROVE ServerInv'
  OBVIOUS
<1>1. QueueInv'
  BY QueueRefined, QueueStep DEF ServerInv
<1>2. CASE ServerNext
  BY <1>1, <1>2, TypeStep, ControlStep, CountStep, RefStep, PlaceStep, StatStep DEF ServerInv
<1>3. CASE UNCHANGED srvVars
  <2>1. /\ UNCHANGED <<queueVars, serverStopped, stopped, currentThreads, totalConnections, currentConnections,
                       maxConcurrentConnections, refusedConnections, rc, deleted, apc, arg, spc, wpc, conn, fate>>
        /\ UNCHANGED <<nfQueue, accepted>>
    BY <1>3 DEF srvVars, dispVars, statVars, pcVars, queueVars
  <2>2. /\ Used' = Used /\ Failed' = Failed /\ Guarding' = Guarding /\ Busy' = Busy /\ InHand' = InHand
        /\ \A f : With(f)' = With(f)
    BY <2>1 DEF Used, Failed, Guarding, Busy, InHand, With
  <2>3. ServerTypeOK'
    BY <1>1, <2>1 DEF ServerInv, ServerTypeOK, QueueInv, NothingLost
  <2>4. ControlInv'
    BY <2>1 DEF ServerInv, ControlInv
  <2>5. CountInv' /\ RefInv'
    BY <2>1, <2>2 DEF ServerInv, CountInv, RefInv
  <2>6. PlaceInv' /\ StatInv'
    BY <2>1, <2>2 DEF ServerInv, PlaceInv, StatInv
  <2> QED BY <1>1, <2>3, <2>4, <2>5, <2>6 DEF ServerInv
<1> QED BY <1>2, <1>3

-----------------------------------------------------------------------------
(* What follows.                                                           *)

\* The invariant holds of every reachable state.
THEOREM ServerSound == ServerSpec => []ServerInv
  BY ServerInvInit, ServerInvStep, PTL DEF ServerSpec

\* The server uses its queue as the queue's specification says.
THEOREM UsesQueue == ServerSpec => Spec
<1>1. ServerInit => Init
  BY DEF ServerInit
<1> QED BY <1>1, QueueRefined, ServerSound, PTL DEF ServerSpec, Spec

\* _currentThreads bounds the connection threads in use, is exact until the
\* factory fails, and never exceeds MaxThreads.
THEOREM ThreadsBounded == ServerSpec => []ThreadLimitKept
<1>1. ServerInv => ThreadLimitKept
  <2> SUFFICES ASSUME ServerInv PROVE ThreadLimitKept
    OBVIOUS
  <2>1. Cardinality(Used) \in Nat /\ Cardinality(Failed) \in Nat
    BY FS_CardinalityType DEF ServerInv, CountInv
  <2>2. Failed = {} => Cardinality(Failed) = 0
    BY FS_EmptySet
  <2> QED BY <2>1, <2>2, ServerAssumption DEF ServerInv, ServerTypeOK, CountInv, ThreadLimitKept
<1> QED BY <1>1, ServerSound, PTL

\* No connection is lost or served twice, and the statistics are exact.
THEOREM ConnectionsExact == ServerSpec => []ConnectionsAccounted
<1>1. ServerInv => ConnectionsAccounted
  <2> SUFFICES ASSUME ServerInv PROVE ConnectionsAccounted
    OBVIOUS
  <2>1. \A f : {n \in Connections : fate[n] \in {f}} = With(f)
    BY DEF With
  <2>2. spc \in {"wake", "stopped", "destroyed"} => nfQueue = <<>>
    BY DEF ServerInv, ControlInv
  <2> QED BY <2>1, <2>2, Zenon DEF ConnectionsAccounted, ServerInv, PlaceInv, StatInv, InHand, Busy
<1> QED BY <1>1, ServerSound, PTL

\* The dispatcher is never deleted under a thread inside its run().
THEOREM GuardProtects == ServerSpec => []GuardHolds
<1>1. ServerInv => GuardHolds
  <2> SUFFICES ASSUME ServerInv, deleted, NEW w \in Workers, wpc[w] \notin {"off", "starting"} PROVE FALSE
    BY DEF GuardHolds
  <2>1. w \in Guarding
    BY DEF Guarding
  <2>2. Cardinality(Guarding) \in Nat /\ Cardinality(Guarding) = 0
    BY FS_CardinalityType DEF ServerInv, RefInv
  <2> QED BY <2>1, <2>2, FS_EmptySet DEF ServerInv, RefInv
<1> QED BY <1>1, ServerSound, PTL

\* Once there is a connection thread, there is one until the server is
\* stopped, unless the factory fails: two threads that find the queue empty
\* at the same time do not both leave.  (The safety part of FetchedByAThread.)
THEOREM LastThreadStays ==
  ServerSpec => [][(Used # {} /\ ~stopped) => (Used' # {} \/ Failed' # {})]_srvVars
<1>1. ServerInv /\ ServerInv' /\ [ServerNext]_srvVars
        => [(Used # {} /\ ~stopped) => (Used' # {} \/ Failed' # {})]_srvVars
  <2> SUFFICES ASSUME ServerInv, ServerInv', ServerNext, Used # {}, ~stopped, Used' = {}, Failed' = {} PROVE FALSE
    OBVIOUS
  <2>1. currentThreads' = 0
    BY FS_EmptySet DEF ServerInv, CountInv
  <2>2. Cardinality(Used) \in Nat /\ Cardinality(Failed) \in Nat /\ Cardinality(Used) # 0
    BY FS_CardinalityType, FS_EmptySet DEF ServerInv, CountInv
  <2>3. currentThreads \in Nat /\ currentThreads # 0
    BY <2>2 DEF ServerInv, CountInv
  <2>4. PICK w \in Workers : CheckLeave(w) \/ EnqueueStart(w)
    BY <2>1, <2>3 DEF ServerNext, AcceptStep, WorkerStep, StopStep, AcceptHead, AcceptNothing, AcceptConnection,
       EnqueueRefused, EnqueueRoom, EnqueuePut, EnqueueLook, EnqueueNoThread, JoinAcceptThread, Start, StartFails, CallStop, StopFlag,
       StopClear, StopWake, Destroy, EnterRun, Fetch, CreateConnection, CreateConnectionFails,
       BeginConnection, Serve, EndConnection, CheckStay, LeaveRun, dispVars
  <2> QED BY <2>1, <2>3, <2>4 DEF CheckLeave, Surplus, EnqueueStart, OneThreadMore
<1> QED BY <1>1, ServerSound, PTL DEF ServerSpec
=============================================================================
