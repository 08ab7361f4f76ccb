---------------------------- MODULE TimerProofs -----------------------------
(***************************************************************************)
(* Proofs that a stopped Timer is quiet and that a running one stays on    *)
(* its grid, for any number of threads that start, stop and restart it,    *)
(* any intervals, with or without a thread pool that refuses.              *)
(***************************************************************************)
EXTENDS Timer, TLAPS

\* Threads whose stop() has consumed _done and not deleted the callback yet.
Deleting == {a \in Apps : apc[a] = "delete"}

\* The inductive invariant.  _done carries one token per life of the timer:
\* it is made when the thread leaves run(), taken by one stop(), and gone
\* when that stop() has deleted the callback; only then can start() begin
\* another life.
DoneToken ==
    /\ apc \in [Apps -> {"app", "signal", "waiting", "delete"}]
    /\ tpc # "off" => callback /\ ~done /\ Deleting = {}
    /\ done => callback /\ tpc = "off" /\ Deleting = {}
    /\ Deleting # {} => callback
    /\ \A a, b \in Deleting : a = b

\* Every step of the Timer preserves DoneToken.
LEMMA DoneTokenStep == DoneToken /\ [TimerNext]_timerVars => DoneToken'
<1> SUFFICES ASSUME DoneToken, [TimerNext]_timerVars PROVE DoneToken'
  OBVIOUS
<1> USE DEF DoneToken, Deleting
<1>1. ASSUME NEW a \in Apps, Start(a) PROVE DoneToken'
  BY <1>1 DEF Start, Calls, Prepare
<1>2. ASSUME NEW a \in Apps, StartRefused(a) PROVE DoneToken'
  BY <1>2 DEF StartRefused, Calls, Prepare
<1>3. ASSUME NEW a \in Apps, Stop(a) PROVE DoneToken'
  BY <1>3 DEF Stop, Calls
<1>4. ASSUME NEW a \in Apps, StopSignal(a) PROVE DoneToken'
  BY <1>4 DEF StopSignal, WaitsForDone
<1>5. ASSUME NEW a \in Apps, StopWaited(a) PROVE DoneToken'
  BY <1>5 DEF StopWaited
<1>6. ASSUME NEW a \in Apps, StopDelete(a) PROVE DoneToken'
  BY <1>6 DEF StopDelete
<1>7. ASSUME NEW a \in Apps, Restart(a) PROVE DoneToken'
  BY <1>7 DEF Restart
<1>8. ASSUME NEW ms, RestartMs(ms) \/ SetPeriodicMs(ms) PROVE DoneToken'
  BY <1>8 DEF RestartMs, SetPeriodicMs
<1>9. ASSUME NEW a \in Apps, NEW ms, SetStartInterval(a, ms) PROVE DoneToken'
  BY <1>9 DEF SetStartInterval
<1>10. CASE CatchUp \/ EnterWait \/ WakeUp \/ TimeOut \/ CallbackReturns
  BY <1>10 DEF CatchUp, EnterWait, WakeUp, TimeOut, CallbackReturns
<1>11. CASE Woken \/ AfterCallback
  BY <1>11 DEF Woken, AfterCallback, NextRound
<1>12. CASE SignalDone
  BY <1>12 DEF SignalDone
<1>13. CASE InCallback
  BY <1>8, <1>13 DEF InCallback
<1>14. CASE Tick
  BY <1>14 DEF Tick
<1>15. CASE UNCHANGED timerVars
  BY <1>15 DEF timerVars
<1> QED
  BY <1>1, <1>2, <1>3, <1>4, <1>5, <1>6, <1>7, <1>8, <1>9, <1>10, <1>11, <1>12, <1>13,
     <1>14, <1>15
  DEF TimerNext, RunStep, StopStep, RestartWith, SetPeriodicInterval

\* run() is over, and _done is spent, whenever the callback is gone: for any
\* number of concurrent stop() calls, restarts and refused starts, the timer
\* thread never calls through a deleted callback (Timer.cpp, lines 95-108 and
\* 197).
THEOREM StoppedIsQuiet == TimerSpec => []QuietWhenStopped
<1>1. TimerInit => DoneToken
  BY DEF TimerInit, DoneToken, Deleting
<1>2. DoneToken => QuietWhenStopped
  BY DEF DoneToken, QuietWhenStopped
<1> QED
  BY <1>1, <1>2, DoneTokenStep, PTL DEF TimerSpec

-----------------------------------------------------------------------------
(* The grid.                                                               *)

\* Division with remainder.
LEMMA Quotient ==
  ASSUME NEW a \in Nat, NEW b \in Nat \ {0}
  PROVE  \E q \in Nat : q <= a /\ q * b <= a /\ a < (q + 1) * b
<1>1. a \div b \in Nat /\ a \div b <= a /\ (a \div b) * b <= a /\ a < (a \div b + 1) * b
  BY Z3
<1> QED BY <1>1

\* The inner loop of run() ends: a number of whole intervals makes up for the
\* lag, and no more of them than the lag has milliseconds.
LEMMA MissedExists ==
  ASSUME NEW M \in Nat, NEW d \in Int, d >= -M, d < 0, NEW i \in Nat \ {0}
  PROVE  \E k \in 1..M : d + k * i >= 0 /\ d + (k - 1) * i < 0
<1>1. -d - 1 \in Nat
  OBVIOUS
<1>2. PICK q \in Nat : q <= -d - 1 /\ q * i <= -d - 1 /\ -d - 1 < (q + 1) * i
  BY <1>1, Quotient
<1>3. q + 1 \in 1..M /\ (q + 1) - 1 = q
  BY <1>2
<1>4. q * i \in Int /\ (q + 1) * i \in Int
  OBVIOUS
<1>5. d + (q + 1) * i >= 0 /\ d + q * i < 0
  BY <1>2, <1>4
<1> QED BY <1>3, <1>5

\* Missed is that number.
LEMMA MissedFacts ==
  ASSUME TimerTypeOK
  PROVE  /\ Missed \in 0..MaxLag
         /\ due + Missed * interval \in Int /\ due + Missed * interval >= -MaxLag
         /\ interval = 0 => Missed = 0
<1>0. due \in Int /\ due >= -MaxLag /\ MaxLag \in Nat /\ interval \in Nat
  BY TimerAssumption DEF TimerTypeOK, AllIntervals
<1>1. CASE due < 0 /\ interval > 0
  <2>1. \E k \in 1..MaxLag : due + k * interval >= 0 /\ due + (k - 1) * interval < 0
    <3>1. interval \in Nat \ {0}
      BY ONLY <1>0, <1>1
    <3> HIDE DEF Missed
    <3> QED BY ONLY <1>0, <1>1, <3>1, MissedExists
  <2>2. Missed \in 1..MaxLag /\ due + Missed * interval >= 0
    BY <1>1, <2>1 DEF Missed
  <2>3. Missed * interval \in Int
    BY ONLY <1>0, <2>2
  <2> QED BY ONLY <1>0, <1>1, <2>2, <2>3
<1>2. CASE ~(due < 0 /\ interval > 0)
  <2>1. Missed = 0
    BY <1>2 DEF Missed
  <2>2. Missed * interval = 0
    BY ONLY <1>0, <2>1
  <2> QED BY ONLY <1>0, <2>1, <2>2
<1> QED BY <1>1, <1>2

\* The inductive invariant: OnGrid, and where a round begins.
RoundInv == tpc = "top" /\ interval > 0 => skipped = 0 /\ due = base + interval
GridInv  == OnGrid /\ RoundInv

\* Control and flags keep their types.
FlagsOK == wakeUp \in BOOLEAN /\ done \in BOOLEAN /\ callback \in BOOLEAN
LEMMA FlagsStep == ASSUME FlagsOK, [TimerNext]_timerVars PROVE FlagsOK'
<1> USE DEF FlagsOK
<1>1. ASSUME NEW a \in Apps, Start(a) \/ StartRefused(a) PROVE FlagsOK'
  BY <1>1, Zenon DEF Start, StartRefused, Prepare, SignalReset
<1>2. ASSUME NEW a \in Apps, Stop(a) \/ Restart(a) PROVE FlagsOK'
  BY <1>2, Zenon DEF Stop, Restart
<1>3. ASSUME NEW a \in Apps, StopStep(a) PROVE FlagsOK'
  BY <1>3, Zenon DEF StopStep, StopSignal, StopWaited, StopDelete
<1>4. ASSUME NEW ms, RestartMs(ms) \/ SetPeriodicMs(ms) PROVE FlagsOK'
  BY <1>4, Zenon DEF RestartMs, SetPeriodicMs
<1>5. ASSUME NEW a \in Apps, NEW ms, SetStartInterval(a, ms) PROVE FlagsOK'
  BY <1>5, Zenon DEF SetStartInterval
<1>6. CASE RunStep
  BY <1>6, Zenon DEF RunStep, CatchUp, EnterWait, WakeUp, TimeOut, CallbackReturns, Woken, AfterCallback, SignalDone
<1>7. CASE InCallback
  BY <1>4, <1>7, Zenon DEF InCallback
<1>8. CASE Tick \/ UNCHANGED timerVars
  BY <1>8, Zenon DEF Tick, timerVars
<1> QED
  BY <1>1, <1>2, <1>3, <1>4, <1>5, <1>6, <1>7, <1>8 DEF TimerNext, RestartWith, SetPeriodicInterval

\* Every step keeps the invocations on the grid.  A refused start() lays out a
\* new grid without a thread: none may be running on the old one.
LEMMA GridStep == ASSUME QuietWhenStopped, GridInv, [TimerNext]_timerVars PROVE GridInv'
<1> DEFINE Grid == tpc \in {"enter", "sleep", "callback"} /\ interval > 0 => due = base + (skipped + 1) * interval
           Typed == /\ startInterval \in AllIntervals /\ periodicInterval \in AllIntervals
                    /\ interval \in AllIntervals
                    /\ skipped \in 0..MaxLag
                    /\ due \in Int /\ due >= -MaxLag
                    /\ base \in Int
                    /\ apc \in [Apps -> {"app", "signal", "waiting", "delete"}]
                    /\ tpc \in {"off", "top", "enter", "sleep", "woken", "callback", "after", "end"}
                    /\ asked \in {"nothing", "restart", "stop", "revived", "refused"}
           Inv == Typed /\ Grid /\ RoundInv
<1>0. Inv /\ TimerTypeOK
  BY DEF GridInv, OnGrid, TimerTypeOK
<1>a. AllIntervals \subseteq Nat /\ 0 \in AllIntervals /\ Intervals \subseteq AllIntervals
  BY TimerAssumption DEF AllIntervals
<1>b. MaxLag \in Nat
  BY TimerAssumption
<1>c. FlagsOK'
  BY <1>0, FlagsStep DEF FlagsOK, TimerTypeOK
<1> SUFFICES Inv'
  BY <1>c DEF GridInv, OnGrid, TimerTypeOK, FlagsOK
<1> HIDE DEF GridInv
<1>1. ASSUME NEW a \in Apps, Start(a) PROVE Inv'
  BY <1>0, <1>1, <1>a, <1>b DEF Start, Prepare, RoundInv
<1>2. ASSUME NEW a \in Apps, StartRefused(a) PROVE Inv'
  <2>1. due' = startInterval /\ due' \in Nat /\ UNCHANGED <<startInterval, periodicInterval, skipped, apc, tpc, interval, base>>
    BY <1>0, <1>2, <1>a DEF StartRefused, Prepare
  <2>2. tpc = "off" /\ asked' = "refused"
    BY <1>2 DEF StartRefused, QuietWhenStopped
  <2> QED BY <1>0, <2>1, <2>2, <1>b DEF RoundInv
<1>3. ASSUME NEW a \in Apps, Stop(a) \/ Restart(a) PROVE Inv'
  BY <1>0, <1>3, <1>a DEF Stop, Restart, Ask, PeriodStopped, RoundInv
<1>4. ASSUME NEW a \in Apps, StopStep(a) PROVE Inv'
  BY <1>0, <1>4 DEF StopStep, StopSignal, StopWaited, StopDelete, WaitsForDone, RoundInv
<1>5. ASSUME NEW ms \in AllIntervals, RestartMs(ms) \/ SetPeriodicMs(ms) PROVE Inv'
  BY <1>0, <1>5 DEF RestartMs, SetPeriodicMs, Ask, RoundInv
<1>6. ASSUME NEW a \in Apps, NEW ms \in AllIntervals, SetStartInterval(a, ms) PROVE Inv'
  BY <1>0, <1>6 DEF SetStartInterval, RoundInv
<1>7. CASE CatchUp
  <2>1. Typed'
    <3>1. CASE interval > 0
      BY <1>0, <1>7, <1>b, <3>1, MissedFacts DEF CatchUp, RoundInv
    <3>2. CASE interval = 0
      BY <1>0, <1>7, <1>b, <3>2, MissedFacts DEF CatchUp
    <3> QED BY <1>0, <1>a, <3>1, <3>2
  <2>2. Grid'
    <3> SUFFICES ASSUME interval > 0 PROVE due' = base' + (skipped' + 1) * interval'
      BY <1>7 DEF CatchUp
    <3>1. due = base + interval /\ skipped' = Missed
      BY <1>0, <1>7, MissedFacts DEF CatchUp, RoundInv
    <3>2. due' = (base + interval) + Missed * interval /\ base' = base /\ interval' = interval
      BY <1>7, <3>1 DEF CatchUp
    <3>3. Missed \in Int /\ interval \in Int /\ base \in Int
      BY <1>0, <1>a, MissedFacts
    <3> QED BY ONLY <3>1, <3>2, <3>3
  <2> QED BY <1>7, <2>1, <2>2 DEF CatchUp, RoundInv
<1>8. CASE EnterWait \/ WakeUp \/ TimeOut \/ CallbackReturns
  BY <1>0, <1>8 DEF EnterWait, WakeUp, TimeOut, CallbackReturns, RoundInv
<1>9. CASE Woken
  BY <1>0, <1>9, <1>a, <1>b DEF Woken, NextRound, DueFrom, RoundInv
<1>10. CASE AfterCallback
  BY <1>0, <1>10, <1>a, <1>b DEF AfterCallback, NextRound, DueFrom, RoundInv
<1>11. CASE SignalDone
  BY <1>0, <1>11 DEF SignalDone, RoundInv
<1>12. CASE InCallback
  BY <1>5, <1>12, <1>a DEF InCallback
<1>13. CASE Tick
  <2>1. Typed' /\ RoundInv'
    BY <1>0, <1>13, <1>a, <1>b DEF Tick, RoundInv
  <2>2. Grid'
    <3> SUFFICES ASSUME due = base + (skipped + 1) * interval PROVE due' = base' + (skipped' + 1) * interval'
      BY <1>0, <1>13 DEF Tick
    <3>1. due' = due - 1 /\ base' = base - 1 /\ (skipped' + 1) * interval' = (skipped + 1) * interval
      BY <1>13 DEF Tick
    <3>2. base \in Int /\ (skipped + 1) * interval \in Int
      BY <1>0, <1>a
    <3> QED BY ONLY <3>1, <3>2, due = base + (skipped + 1) * interval
  <2> QED BY <2>1, <2>2
<1>14. CASE UNCHANGED timerVars
  BY <1>0, <1>14 DEF timerVars, RoundInv
<1> HIDE DEF Inv
<1> QED
  BY <1>1, <1>2, <1>3, <1>4, <1>5, <1>6, <1>7, <1>8, <1>9, <1>10, <1>11, <1>12, <1>13, <1>14, <1>a
  DEF TimerNext, RunStep, RestartWith, SetPeriodicInterval

\* Invocations stay on the grid the intervals lay out, however late they are,
\* and skipped() is the number of grid points left out (Timer.cpp, run()).
THEOREM StaysOnGrid == TimerSpec => []OnGrid
<1>1. TimerInit => GridInv
  <2> SUFFICES ASSUME TimerInit PROVE GridInv
    OBVIOUS
  <2>1. wakeUp \in BOOLEAN /\ done \in BOOLEAN /\ callback \in BOOLEAN
    BY Zenon DEF TimerInit
  <2> QED BY <2>1, TimerAssumption DEF TimerInit, GridInv, OnGrid, TimerTypeOK, AllIntervals, RoundInv
<1>2. GridInv => OnGrid
  BY DEF GridInv
<1>3. QuietWhenStopped /\ GridInv /\ [TimerNext]_timerVars => GridInv'
  BY GridStep
<1> QED BY <1>1, <1>2, <1>3, StoppedIsQuiet, PTL DEF TimerSpec
=============================================================================
