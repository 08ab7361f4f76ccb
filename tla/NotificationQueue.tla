------------------------- MODULE NotificationQueue --------------------------
(***************************************************************************)
(* Poco::NotificationQueue (src/Foundation/src/NotificationQueue.cpp).     *)
(*                                                                         *)
(* A producer hands its notification straight to the first thread waiting  *)
(* in _waitQueue, if there is one; only otherwise does it go into          *)
(* _nfQueue.  A waiting thread owns a WaitInfo object, which it deletes    *)
(* when it stops waiting; a thread has at most one, so a WaitInfo is named *)
(* by its thread.  Sections under the queue's _mutex block nowhere and are *)
(* one step each; the waits on the WaitInfo's event are outside the mutex. *)
(***************************************************************************)
EXTENDS SequencesExt

CONSTANTS
    Consumers,      \* threads that dequeue
    Notifications,  \* notification objects, enqueued again when they are back
    ConsumerOps,    \* which dequeue operations each consumer calls
    Controls,       \* which of dispatch(), clear(), wakeUpAll() are called
    Urgent,         \* notifications enqueued with enqueueUrgentNotification()
    None            \* null pointer

ASSUME QueueAssumption ==
    /\ ConsumerOps \in [Consumers -> SUBSET {"dequeue", "wait", "timedWait"}]
    /\ Controls \subseteq {"dispatch", "clear", "wakeUpAll"}
    /\ Urgent \subseteq Notifications
    /\ None \notin Notifications

VARIABLES
    nfQueue,      \* _nfQueue
    waitQueue,    \* _waitQueue
    pNf,          \* WaitInfo::pNf
    nfAvailable,  \* WaitInfo::nfAvailable, an auto-reset event
    cpc,          \* where the consumer is in the queue's code
    accepted      \* history: enqueued, and neither returned nor cleared yet

queueVars == <<nfQueue, waitQueue, pNf, nfAvailable, cpc, accepted>>

Waiting == {"wait", "timedWait", "timedOut"}

\* Type invariant.
QueueTypeOK ==
    /\ nfQueue \in Seq(Notifications)
    /\ waitQueue \in Seq(Consumers)
    /\ pNf \in [Consumers -> Notifications \cup {None}]
    /\ nfAvailable \in [Consumers -> BOOLEAN]
    /\ cpc \in [Consumers -> {"app"} \cup Waiting]
    /\ accepted \subseteq Notifications

Init ==
    /\ nfQueue = <<>>
    /\ waitQueue = <<>>
    /\ pNf = [c \in Consumers |-> None]
    /\ nfAvailable = [c \in Consumers |-> FALSE]
    /\ cpc = [c \in Consumers |-> "app"]
    /\ accepted = {}

-----------------------------------------------------------------------------
(* Producers.                                                              *)

\* The events of the threads in s are signalled.  Mutant: they are not.
SignalledNot(s) == nfAvailable
Signalled(s) == [c \in Consumers |-> nfAvailable[c] \/ c \in s]

\* The first waiting thread is taken off the queue and gets the notification.
HandOver(n) ==
    /\ waitQueue # <<>>
    /\ waitQueue' = Tail(waitQueue)
    /\ pNf' = [pNf EXCEPT ![Head(waitQueue)] = n]
    /\ nfAvailable' = Signalled({Head(waitQueue)})
    /\ UNCHANGED nfQueue

EnqueueNotification(n) ==
    /\ n \notin accepted \cup Urgent
    /\ accepted' = accepted \cup {n}
    /\ \/ HandOver(n)
       \/ /\ waitQueue = <<>>
          /\ nfQueue' = Append(nfQueue, n)
          /\ UNCHANGED <<waitQueue, pNf, nfAvailable>>
    /\ UNCHANGED cpc

\* An urgent notification is handed over or goes to the front of the queue.
\* Mutant: nobody looks for a waiting thread.
UrgentQueues(n) == nfQueue' = <<n>> \o nfQueue /\ UNCHANGED <<waitQueue, pNf, nfAvailable>>
UrgentGoes(n) == HandOver(n) \/ (waitQueue = <<>> /\ UrgentQueues(n))

EnqueueUrgentNotification(n) ==
    /\ n \in Urgent \ accepted
    /\ accepted' = accepted \cup {n}
    /\ UrgentGoes(n)
    /\ UNCHANGED cpc

-----------------------------------------------------------------------------
(* Consumers.                                                              *)

\* dequeueOne() found a notification: any of the three operations returns it.
TakeFirst(c) ==
    /\ cpc[c] = "app" /\ ConsumerOps[c] # {}
    /\ nfQueue # <<>>
    /\ nfQueue' = Tail(nfQueue)
    /\ accepted' = accepted \ {Head(nfQueue)}
    /\ UNCHANGED <<waitQueue, pNf, nfAvailable, cpc>>

\* It found none: waitDequeueNotification() queues up with a new WaitInfo
\* (dequeueNotification() returns null).
BeginWait(c) ==
    /\ cpc[c] = "app"
    /\ nfQueue = <<>>
    /\ \E w \in ConsumerOps[c] \ {"dequeue"} : cpc' = [cpc EXCEPT ![c] = w]
    /\ waitQueue' = Append(waitQueue, c)
    /\ pNf' = [pNf EXCEPT ![c] = None]
    /\ nfAvailable' = [nfAvailable EXCEPT ![c] = FALSE]
    /\ UNCHANGED <<nfQueue, accepted>>

\* What the thread returns.  Mutant: what was handed over is not looked at.
HandedIgnored(c) == None
Handed(c) == pNf[c]

\* The thread leaves with what its WaitInfo holds, and deletes it.
Leave(c) ==
    /\ cpc' = [cpc EXCEPT ![c] = "app"]
    /\ pNf' = [pNf EXCEPT ![c] = None]
    /\ nfAvailable' = [nfAvailable EXCEPT ![c] = FALSE]
    /\ accepted' = accepted \ {Handed(c)}

\* The event is signalled: pNf is read without the mutex.
Woken(c) ==
    /\ cpc[c] \in {"wait", "timedWait"} /\ nfAvailable[c]
    /\ Leave(c)
    /\ UNCHANGED <<nfQueue, waitQueue>>

\* tryWait() gives up.  The event may be signalled all the same: the time ran
\* out while the producer was setting it.
TimeOut(c) ==
    /\ cpc[c] = "timedWait"
    /\ cpc' = [cpc EXCEPT ![c] = "timedOut"]
    /\ UNCHANGED <<nfQueue, waitQueue, pNf, nfAvailable, accepted>>

\* Mutant: the WaitInfo is not taken off the queue.
NotWithdrawn(c) == waitQueue
Withdrawn(c) == RemoveFirst(waitQueue, c)

\* Under the mutex, the WaitInfo is read again and taken off the queue.
AfterTimeOut(c) ==
    /\ cpc[c] = "timedOut"
    /\ waitQueue' = Withdrawn(c)
    /\ Leave(c)
    /\ UNCHANGED nfQueue

-----------------------------------------------------------------------------
(* Control.                                                                *)

TakeAll ==
    /\ nfQueue # <<>>
    /\ nfQueue' = <<>>
    /\ accepted' = accepted \ Range(nfQueue)
    /\ UNCHANGED <<waitQueue, pNf, nfAvailable, cpc>>

\* dispatch() posts every queued notification with the mutex held.
Dispatch == "dispatch" \in Controls /\ TakeAll

\* clear() drops them.
Clear == "clear" \in Controls /\ TakeAll

WakeUpAll ==
    /\ "wakeUpAll" \in Controls
    /\ waitQueue # <<>>
    /\ nfAvailable' = Signalled(Range(waitQueue))
    /\ waitQueue' = <<>>
    /\ UNCHANGED <<nfQueue, pNf, cpc, accepted>>

-----------------------------------------------------------------------------
Consume(c) == TakeFirst(c) \/ BeginWait(c) \/ Woken(c) \/ AfterTimeOut(c)

Next ==
    \/ \E n \in Notifications : EnqueueNotification(n) \/ EnqueueUrgentNotification(n)
    \/ \E c \in Consumers : Consume(c) \/ TimeOut(c)
    \/ Dispatch \/ Clear \/ WakeUpAll

Spec == Init /\ [][Next]_queueVars

\* The consumers keep dequeuing.  Nobody is obliged to produce, and no wait
\* has to time out.
FairSpec == Spec /\ \A c \in Consumers : WF_queueVars(Consume(c))

-----------------------------------------------------------------------------
(* Properties.                                                             *)

\* Every accepted notification is in exactly one place: once in _nfQueue, or
\* in the WaitInfo of one waiting thread.  Nothing is lost or delivered twice,
\* whatever time-outs and wake-ups do meanwhile.
NothingLost ==
    LET handed == {c \in Consumers : cpc[c] \in Waiting /\ pNf[c] # None} IN
    /\ QueueTypeOK
    /\ accepted = Range(nfQueue) \cup {pNf[c] : c \in handed}
    /\ \A c \in handed : pNf[c] \notin Range(nfQueue)
    /\ \A c, d \in handed : pNf[c] = pNf[d] => c = d
    /\ \A i, j \in DOMAIN nfQueue : nfQueue[i] = nfQueue[j] => i = j

\* No thread waits while a notification is queued.
NoIdleBacklog == waitQueue # <<>> => nfQueue = <<>>

\* Every WaitInfo in _waitQueue exists, is there once, and has been given
\* nothing yet: its thread is waiting, or is about to take it off the queue.
\* A waiting thread that is no longer in _waitQueue has been signalled: none
\* is left to sleep where nobody can find it.
WaitersAccounted ==
    /\ \A i \in DOMAIN waitQueue :
        /\ cpc[waitQueue[i]] \in Waiting
        /\ pNf[waitQueue[i]] = None /\ ~nfAvailable[waitQueue[i]]
    /\ \A i, j \in DOMAIN waitQueue : waitQueue[i] = waitQueue[j] => i = j
    /\ \A c \in Consumers : cpc[c] \in Waiting /\ ~nfAvailable[c] => c \in Range(waitQueue)

\* Every accepted notification is returned to a consumer or cleared, unless
\* urgent ones keep overtaking it.
Delivered ==
    \A n \in Notifications :
        n \in accepted ~> (n \notin accepted \/ []<>(accepted \cap Urgent # {}))
=============================================================================
