------------------------------- MODULE Timer --------------------------------
(***************************************************************************)
(* Poco::Timer (src/Foundation/src/Timer.cpp).                             *)
(*                                                                         *)
(* Application threads start, stop and restart the timer; a thread of the  *)
(* pool executes run().  Sections under _mutex block nowhere and are one   *)
(* step each; stop() unlocks the mutex while it waits for _done.  Time is  *)
(* relative: due is _nextInvocation minus now, in milliseconds.            *)
(***************************************************************************)
EXTENDS Integers

CONSTANTS
    Apps,           \* application threads
    AppOps,         \* which operations each of them calls
    CallbackOps,    \* which operations the callback calls
    Intervals,      \* intervals the application passes
    StartInterval,  \* constructor arguments
    PeriodicInterval,
    PoolMayRefuse,  \* the thread pool may have no thread for the timer
    MaxLag          \* bound: lateness beyond it is not told apart

Operations == {"start", "stop", "restart", "restartWith", "setPeriodic", "setStart"}

ASSUME TimerAssumption ==
    /\ AppOps \in [Apps -> SUBSET Operations]
    /\ CallbackOps \subseteq {"restartZero", "setZero", "setPeriodic"}
    /\ Intervals \subseteq Nat
    /\ StartInterval \in Nat /\ PeriodicInterval \in Nat
    /\ PoolMayRefuse \in BOOLEAN
    /\ MaxLag \in Nat

VARIABLES
    \* --- members of the Timer object
    startInterval,     \* _startInterval
    periodicInterval,  \* _periodicInterval
    wakeUp, done,      \* states of the auto-reset events _wakeUp and _done
    skipped,           \* _skipped
    callback,          \* _pCallback is not null
    due,               \* _nextInvocation - now
    \* --- control
    apc,               \* where the application thread is
    tpc,               \* where the timer thread is in run()
    interval,          \* its local variable
    \* --- history
    base,              \* when the last invocation was due (or the last wake-up), minus now
    asked              \* what the timer has been asked since start()

timerVars == <<startInterval, periodicInterval, wakeUp, done, skipped, callback, due,
               apc, tpc, interval, base, asked>>

AllIntervals == Intervals \cup {0, StartInterval, PeriodicInterval}

\* Type invariant.
TimerTypeOK ==
    /\ startInterval \in AllIntervals /\ periodicInterval \in AllIntervals
    /\ interval \in AllIntervals
    /\ wakeUp \in BOOLEAN /\ done \in BOOLEAN /\ callback \in BOOLEAN
    /\ skipped \in 0..MaxLag
    /\ due \in Int /\ due >= -MaxLag
    /\ base \in Int
    /\ apc \in [Apps -> {"app", "signal", "waiting", "delete"}]
    /\ tpc \in {"off", "top", "enter", "sleep", "woken", "callback", "after", "end"}
    /\ asked \in {"nothing", "restart", "stop", "revived", "refused"}

TimerInit ==
    /\ startInterval = StartInterval /\ periodicInterval = PeriodicInterval
    /\ wakeUp = FALSE /\ done = FALSE
    /\ skipped = 0
    /\ callback = FALSE
    /\ due = 0
    /\ apc = [a \in Apps |-> "app"]
    /\ tpc = "off"
    /\ interval = 0
    /\ base = 0
    /\ asked = "nothing"

-----------------------------------------------------------------------------
(* Application threads.                                                    *)

\* History: a request with the interval it sets.  An interval that is set after
\* the timer was asked to stop revives it.
Ask(what, ms) ==
    asked' = CASE asked = "refused" -> asked
               [] what = "stop" -> "stop"
               [] asked = "stop" /\ ms > 0 -> "revived"
               [] asked \in {"stop", "revived"} -> asked
               [] OTHER -> what

Calls(a, op) == apc[a] = "app" /\ op \in AppOps[a]

\* Mutant: the event keeps the signal of an earlier life of the timer.
SignalKept == wakeUp
SignalReset == FALSE

\* The members start() sets before it asks the pool for a thread.
Prepare ==
    /\ due' = startInterval
    /\ callback' = TRUE
    /\ wakeUp' = SignalReset

\* The assertion !_pCallback is the caller's obligation.  The code looks at it
\* before it locks _mutex; it is one step here, which excludes two start() at
\* the same time.
Start(a) ==
    /\ Calls(a, "start") /\ ~callback
    /\ Prepare
    /\ tpc' = "top" /\ interval' = 0
    /\ base' = 0 /\ asked' = "nothing"
    /\ UNCHANGED <<startInterval, periodicInterval, done, skipped, apc>>

\* startWithPriority() throws; the callback stays.
StartRefused(a) ==
    /\ Calls(a, "start") /\ ~callback
    /\ PoolMayRefuse
    /\ Prepare
    /\ asked' = "refused"
    /\ UNCHANGED <<startInterval, periodicInterval, done, skipped, apc, tpc, interval,
                   base>>

\* Mutant: the interval is not set to zero.
PeriodKept == periodicInterval
PeriodStopped == 0

\* stop() of a timer that is not started returns at once.
Stop(a) ==
    /\ Calls(a, "stop") /\ callback
    /\ periodicInterval' = PeriodStopped
    /\ Ask("stop", 0)
    /\ apc' = [apc EXCEPT ![a] = "signal"]
    /\ UNCHANGED <<startInterval, wakeUp, done, skipped, callback, due, tpc, interval,
                   base>>

\* Mutant: the timer thread is not waited for.
GoesOn == "delete"
WaitsForDone == "waiting"

StopSignal(a) ==
    /\ apc[a] = "signal"
    /\ wakeUp' = TRUE
    /\ apc' = [apc EXCEPT ![a] = WaitsForDone]
    /\ UNCHANGED <<startInterval, periodicInterval, done, skipped, callback, due, tpc,
                   interval, base, asked>>

StopWaited(a) ==
    /\ apc[a] = "waiting" /\ done
    /\ done' = FALSE
    /\ apc' = [apc EXCEPT ![a] = "delete"]
    /\ UNCHANGED <<startInterval, periodicInterval, wakeUp, skipped, callback, due, tpc,
                   interval, base, asked>>

StopDelete(a) ==
    /\ apc[a] = "delete"
    /\ callback' = FALSE
    /\ apc' = [apc EXCEPT ![a] = "app"]
    /\ UNCHANGED <<startInterval, periodicInterval, wakeUp, done, skipped, due, tpc,
                   interval, base, asked>>

Restart(a) ==
    /\ Calls(a, "restart") /\ callback
    /\ wakeUp' = TRUE
    /\ Ask("restart", 0)
    /\ UNCHANGED <<startInterval, periodicInterval, done, skipped, callback, due, apc, tpc,
                   interval, base>>

\* restart(milliseconds), by an application thread or by the callback.
RestartMs(ms) ==
    /\ callback
    /\ periodicInterval' = ms
    /\ wakeUp' = TRUE
    /\ Ask(IF ms = 0 THEN "stop" ELSE "restart", ms)
    /\ UNCHANGED <<startInterval, done, skipped, callback, due, apc, tpc, interval, base>>

RestartWith(a, ms) == Calls(a, "restartWith") /\ RestartMs(ms)

SetPeriodicMs(ms) ==
    /\ periodicInterval' = ms
    /\ asked' = IF asked = "stop" /\ ms > 0 THEN "revived" ELSE asked
    /\ UNCHANGED <<startInterval, wakeUp, done, skipped, callback, due, apc, tpc, interval,
                   base>>

SetPeriodicInterval(a, ms) == Calls(a, "setPeriodic") /\ SetPeriodicMs(ms)

SetStartInterval(a, ms) ==
    /\ Calls(a, "setStart")
    /\ startInterval' = ms
    /\ UNCHANGED <<periodicInterval, wakeUp, done, skipped, callback, due, apc, tpc,
                   interval, base, asked>>

-----------------------------------------------------------------------------
(* The timer thread: run().                                                *)

\* How many whole intervals the next invocation is late (the inner loop).
Missed ==
    IF due < 0 /\ interval > 0
    THEN CHOOSE k \in 1..MaxLag : due + k * interval >= 0 /\ due + (k - 1) * interval < 0
    ELSE 0

\* The inner loop skips what was missed.
CatchUp ==
    /\ tpc = "top"
    /\ due' = due + Missed * interval
    /\ skipped' = skipped + Missed
    /\ tpc' = "enter"
    /\ UNCHANGED <<startInterval, periodicInterval, wakeUp, done, callback, apc, interval,
                   base, asked>>

\* tryWait(): an event that is already signalled is consumed at once.
EnterWait ==
    /\ tpc = "enter"
    /\ tpc' = IF wakeUp THEN "woken" ELSE "sleep"
    /\ wakeUp' = FALSE
    /\ UNCHANGED <<startInterval, periodicInterval, done, skipped, callback, due, apc,
                   interval, base, asked>>

WakeUp ==
    /\ tpc = "sleep" /\ wakeUp
    /\ wakeUp' = FALSE
    /\ tpc' = "woken"
    /\ UNCHANGED <<startInterval, periodicInterval, done, skipped, callback, due, apc,
                   interval, base, asked>>

\* The time is up, possibly while somebody signals the event.
TimeOut ==
    /\ tpc = "sleep" /\ due <= 0
    /\ tpc' = "callback"
    /\ UNCHANGED <<startInterval, periodicInterval, wakeUp, done, skipped, callback, due,
                   apc, interval, base, asked>>

\* What the callback may call: restart(0), or a new periodic interval.
InCallback ==
    /\ tpc = "callback"
    /\ \/ "restartZero" \in CallbackOps /\ RestartMs(0)
       \/ "setZero" \in CallbackOps /\ SetPeriodicMs(0)
       \/ "setPeriodic" \in CallbackOps /\ \E ms \in Intervals : SetPeriodicMs(ms)

CallbackReturns ==
    /\ tpc = "callback"
    /\ tpc' = "after"
    /\ UNCHANGED <<startInterval, periodicInterval, wakeUp, done, skipped, callback, due,
                   apc, interval, base, asked>>

\* Mutant: the interval begins when the callback has returned.
DueFromNow(from) == periodicInterval
DueFrom(from) == from + periodicInterval

\* The end of the outer loop: the next invocation is one interval after from.
NextRound(from) ==
    /\ interval' = periodicInterval
    /\ base' = from
    /\ due' = DueFrom(from)
    /\ skipped' = 0
    /\ tpc' = IF periodicInterval > 0 THEN "top" ELSE "end"

\* After a wake-up the interval begins now, after a callback when it was due.
Woken ==
    /\ tpc = "woken"
    /\ NextRound(0)
    /\ UNCHANGED <<startInterval, periodicInterval, wakeUp, done, callback, apc, asked>>

AfterCallback ==
    /\ tpc = "after"
    /\ NextRound(due)
    /\ UNCHANGED <<startInterval, periodicInterval, wakeUp, done, callback, apc, asked>>

SignalDone ==
    /\ tpc = "end"
    /\ done' = TRUE
    /\ tpc' = "off"
    /\ UNCHANGED <<startInterval, periodicInterval, wakeUp, skipped, callback, due, apc,
                   interval, base, asked>>

\* A millisecond passes.
Tick ==
    /\ tpc # "off"
    /\ due > -MaxLag
    /\ due' = due - 1
    /\ base' = base - 1
    /\ UNCHANGED <<startInterval, periodicInterval, wakeUp, done, skipped, callback, apc,
                   tpc, interval, asked>>

-----------------------------------------------------------------------------
RunStep ==
    \/ CatchUp \/ EnterWait \/ WakeUp \/ TimeOut \/ CallbackReturns
    \/ Woken \/ AfterCallback \/ SignalDone

StopStep(a) == StopSignal(a) \/ StopWaited(a) \/ StopDelete(a)

TimerNext ==
    \/ \E a \in Apps :
        \/ Start(a) \/ StartRefused(a) \/ Stop(a) \/ StopStep(a) \/ Restart(a)
        \/ \E ms \in Intervals :
            RestartWith(a, ms) \/ SetPeriodicInterval(a, ms) \/ SetStartInterval(a, ms)
    \/ RunStep \/ InCallback \/ Tick

TimerSpec == TimerInit /\ [][TimerNext]_timerVars

\* Threads go on running, callbacks return and time passes.  Nobody has to
\* call the timer.
TimerFairSpec ==
    /\ TimerSpec
    /\ WF_timerVars(RunStep)
    /\ WF_timerVars(Tick)
    /\ \A a \in Apps : WF_timerVars(StopStep(a))

-----------------------------------------------------------------------------
(* Properties.                                                             *)

\* Once stop() has deleted the callback the timer thread is out of its loop:
\* run() never calls through a null or deleted _pCallback, and _done is never
\* left signalled for a later stop().
QuietWhenStopped ==
    /\ ~callback => tpc = "off" /\ ~done
    /\ done => tpc = "off"

\* Invocations stay on the grid the intervals lay out, however late the
\* callback was, and skipped() is the number of grid points left out.
OnGrid ==
    /\ TimerTypeOK
    /\ tpc \in {"enter", "sleep", "callback"} /\ interval > 0
        => due = base + (skipped + 1) * interval

\* stop() returns, unless start() found no thread for the timer or somebody
\* sets a new interval after stop() has set it to zero.
StopReturns ==
    \A a \in Apps : apc[a] # "app" ~> (apc[a] = "app" \/ asked \in {"revived", "refused"})

\* A timer nobody has asked to stop or to restart calls its callback in every
\* round of its loop.
KeepsFiring ==
    (tpc = "top" /\ asked = "nothing") ~> (tpc = "callback" \/ asked # "nothing")
=============================================================================
