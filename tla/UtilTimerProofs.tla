--------------------------- MODULE UtilTimerProofs --------------------------
(***************************************************************************)
(* Theorems about UtilTimer, for any number of users and tasks, any delays *)
(* and any bounds on the clock and the queue.                              *)
(***************************************************************************)
EXTENDS UtilTimer, FiniteSetTheorems, SequenceTheorems, TLAPS

(* The sequence operators the queue is built from.                         *)

\* InsertAt() keeps every entry, the ones from p on one place further back.
LEMMA InsertAtProperties ==
  ASSUME NEW S, NEW q \in Seq(S), NEW e \in S, NEW p \in 1 .. Len(q) + 1
  PROVE  /\ InsertAt(q, p, e) \in Seq(S)
         /\ Len(InsertAt(q, p, e)) = Len(q) + 1
         /\ InsertAt(q, p, e)[p] = e
         /\ \A i \in 1 .. p - 1 : InsertAt(q, p, e)[i] = q[i]
         /\ \A i \in p .. Len(q) : InsertAt(q, p, e)[i + 1] = q[i]
<1> DEFINE a == SubSeq(q, 1, p - 1)
           b == SubSeq(q, p, Len(q))
           n == Len(q)
<1>1. n \in Nat /\ p \in Nat /\ \A i \in 1 .. n : q[i] \in S
  BY LenProperties, ElementOfSeq
<1>2. /\ a \in Seq(S) /\ Len(a) = p - 1
      /\ \A i \in 1 .. p - 1 : a[i] = q[i]
  <2>1. \A i \in 1 .. p - 1 : q[i] \in S
    BY <1>1
  <2> QED BY <1>1, <2>1, SubSeqProperties
<1>3. /\ b \in Seq(S) /\ Len(b) = n - p + 1
      /\ \A i \in 1 .. n - p + 1 : b[i] = q[p + i - 1]
  <2>1. \A i \in p .. n : q[i] \in S
    BY <1>1
  <2> QED BY <1>1, <2>1, SubSeqProperties
<1>4. <<e>> \in Seq(S) /\ Len(<<e>>) = 1 /\ <<e>>[1] = e
  OBVIOUS
<1> HIDE DEF a, b
<1>5. /\ a \o <<e>> \in Seq(S) /\ Len(a \o <<e>>) = p
      /\ \A i \in 1 .. p : (a \o <<e>>)[i] = IF i <= p - 1 THEN a[i] ELSE <<e>>[i - (p - 1)]
  BY <1>1, <1>2, <1>4, ConcatProperties
<1> DEFINE c == a \o <<e>>
<1>6. /\ \A i \in 1 .. p - 1 : c[i] = q[i]
      /\ c[p] = e
  BY <1>1, <1>2, <1>4, <1>5
<1> HIDE DEF c
<1>7. /\ c \o b \in Seq(S) /\ Len(c \o b) = p + (n - p + 1)
      /\ \A i \in 1 .. p + (n - p + 1) : (c \o b)[i] = IF i <= p THEN c[i] ELSE b[i - p]
  <2>1. c \in Seq(S) /\ Len(c) = p
    BY <1>5 DEF c
  <2> QED BY <1>1, <1>3, <2>1, ConcatProperties
<1>8. InsertAt(q, p, e) = c \o b
  BY DEF InsertAt, a, b, c
<1>9. \A i \in p .. n : (c \o b)[i + 1] = q[i]
  BY <1>1, <1>3, <1>7
<1> QED BY <1>1, <1>6, <1>7, <1>8, <1>9

\* RemoveAt() keeps all entries but one.
LEMMA RemoveAtProperties ==
  ASSUME NEW S, NEW q \in Seq(S), NEW p \in 1 .. Len(q)
  PROVE  /\ RemoveAt(q, p) \in Seq(S)
         /\ Len(RemoveAt(q, p)) = Len(q) - 1
         /\ \A i \in 1 .. p - 1 : RemoveAt(q, p)[i] = q[i]
         /\ \A i \in p .. Len(q) - 1 : RemoveAt(q, p)[i] = q[i + 1]
<1> DEFINE a == SubSeq(q, 1, p - 1)
           b == SubSeq(q, p + 1, Len(q))
           n == Len(q)
<1>1. n \in Nat /\ p \in Nat /\ \A i \in 1 .. n : q[i] \in S
  BY LenProperties, ElementOfSeq
<1>2. /\ a \in Seq(S) /\ Len(a) = p - 1
      /\ \A i \in 1 .. p - 1 : a[i] = q[i]
  <2>1. \A i \in 1 .. p - 1 : q[i] \in S
    BY <1>1
  <2> QED BY <1>1, <2>1, SubSeqProperties
<1>3. /\ b \in Seq(S) /\ Len(b) = n - p
      /\ \A i \in 1 .. n - p : b[i] = q[p + i]
  <2>1. \A i \in p + 1 .. n : q[i] \in S
    BY <1>1
  <2> QED BY <1>1, <2>1, SubSeqProperties
<1> HIDE DEF a, b
<1>4. /\ a \o b \in Seq(S) /\ Len(a \o b) = (p - 1) + (n - p)
      /\ \A i \in 1 .. (p - 1) + (n - p) : (a \o b)[i] = IF i <= p - 1 THEN a[i] ELSE b[i - (p - 1)]
  <2>1. /\ a \o b \in Seq(S) /\ Len(a \o b) = Len(a) + Len(b)
        /\ \A i \in 1 .. Len(a) + Len(b) : (a \o b)[i] = IF i <= Len(a) THEN a[i] ELSE b[i - Len(a)]
    BY <1>2, <1>3, ConcatProperties
  <2> QED BY <1>2, <1>3, <2>1
<1>5. RemoveAt(q, p) = a \o b
  BY DEF RemoveAt, a, b
<1>6. \A i \in p .. n - 1 : (a \o b)[i] = q[i + 1]
  BY <1>1, <1>3, <1>4
<1> QED BY <1>1, <1>2, <1>4, <1>5, <1>6

\* enqueueNotification() keeps every entry, and the iterator on its entry.
LEMMA EnqueueEffect ==
  ASSUME NEW q \in Seq(Entries), NEW e \in Entries, it \in Nat, Enqueue(q, e)
  PROVE  /\ queue' \in Seq(Entries) /\ Len(queue') = Len(q) + 1 /\ queue' # <<>>
         /\ \A j \in DOMAIN queue' : queue'[j] = e \/ \E i \in DOMAIN q : queue'[j] = q[i]
         /\ it' \in Nat
         /\ it \in DOMAIN q => it' \in DOMAIN queue' /\ queue'[it'] = q[it]
         /\ available' = TRUE
<1> DEFINE p == Cardinality({i \in DOMAIN q : q[i].at <= e.at}) + 1
<1>1. Len(q) \in Nat /\ DOMAIN q = 1 .. Len(q)
  BY LenProperties
<1>2. p \in 1 .. Len(q) + 1
  <2>1. IsFiniteSet(DOMAIN q) /\ Cardinality(DOMAIN q) = Len(q)
    BY <1>1, FS_Interval
  <2>2. {i \in DOMAIN q : q[i].at <= e.at} \in SUBSET DOMAIN q
    OBVIOUS
  <2> DEFINE k == Cardinality({i \in DOMAIN q : q[i].at <= e.at})
  <2>3. k \in Nat /\ k <= Len(q) /\ p = k + 1
    BY <2>1, <2>2, FS_Subset, FS_CardinalityType
  <2> HIDE DEF k, p
  <2> QED BY <1>1, <2>3
<1>3. queue' = InsertAt(q, p, e) /\ it' = (IF it >= p THEN it + 1 ELSE it) /\ available' = TRUE
  BY Zenon DEF Enqueue, Signalled
<1> HIDE DEF p
<1>4. /\ queue' \in Seq(Entries) /\ Len(queue') = Len(q) + 1
      /\ queue'[p] = e
      /\ \A i \in 1 .. p - 1 : queue'[i] = q[i]
      /\ \A i \in p .. Len(q) : queue'[i + 1] = q[i]
  BY <1>2, <1>3, InsertAtProperties
<1>5. DOMAIN queue' = 1 .. Len(q) + 1
  BY <1>4, LenProperties
<1>6. ASSUME NEW j \in DOMAIN queue' PROVE queue'[j] = e \/ \E i \in DOMAIN q : queue'[j] = q[i]
  <2>1. CASE j < p
    BY <1>1, <1>2, <1>4, <1>5, <1>6, <2>1
  <2>2. CASE j > p
    <3>1. j - 1 \in p .. Len(q)
      BY <1>1, <1>2, <1>5, <1>6, <2>2
    <3>2. queue'[(j - 1) + 1] = q[j - 1] /\ (j - 1) + 1 = j
      BY <1>1, <1>4, <1>5, <1>6, <3>1
    <3>3. j - 1 \in DOMAIN q
      BY <1>1, <1>2, <3>1
    <3> QED BY <3>2, <3>3
  <2>3. CASE j = p
    BY <1>4, <2>3
  <2> QED BY <1>1, <1>2, <1>5, <1>6, <2>1, <2>2, <2>3
<1>7. it \in DOMAIN q => it' \in DOMAIN queue' /\ queue'[it'] = q[it]
  BY <1>1, <1>2, <1>3, <1>4, <1>5
<1> QED BY <1>1, <1>2, <1>3, <1>4, <1>6, <1>7

\* Positions 1 .. k are a set that has every position before each of its own.
LEMMA PrefixCount ==
  ASSUME NEW n \in Nat, NEW L \in SUBSET (1 .. n), \A i \in L : \A j \in 1 .. i : j \in L
  PROVE  L = 1 .. Cardinality(L)
<1>1. IsFiniteSet(1 .. n) /\ IsFiniteSet(L)
  <2>1. IsFiniteSet(1 .. n)
    BY FS_Interval
  <2> QED BY <2>1, FS_Subset
<1>2. Cardinality(L) \in Nat
  BY <1>1, FS_CardinalityType
<1> DEFINE k == Cardinality(L)
<1>3. ASSUME NEW x \in L PROVE x <= k
  <2>1. x \in Nat /\ 1 .. x \in SUBSET L
    BY <1>3
  <2>2. Cardinality(1 .. x) = x
    <3>1. 1 <= x
      BY <1>3
    <3> QED BY <2>1, <3>1, FS_Interval
  <2> QED BY <1>1, <2>1, <2>2, FS_Subset
<1>4. L \in SUBSET (1 .. k)
  BY <1>2, <1>3
<1>5. IsFiniteSet(1 .. k) /\ Cardinality(1 .. k) = k
  BY <1>2, FS_Interval
<1> QED BY <1>4, <1>5, FS_Subset

Sorted(q) == \A i, j \in DOMAIN q : i <= j => q[i].at <= q[j].at

\* enqueueNotification() keeps the multimap's order.
LEMMA EnqueueSorted ==
  ASSUME NEW q \in Seq(Entries), NEW e \in Entries, Enqueue(q, e), Sorted(q)
  PROVE  Sorted(queue')
<1> DEFINE L == {i \in DOMAIN q : q[i].at <= e.at}
           p == Cardinality(L) + 1
<1>1. /\ Len(q) \in Nat /\ DOMAIN q = 1 .. Len(q)
      /\ \A i \in DOMAIN q : q[i] \in Entries /\ q[i].at \in Nat
      /\ e.at \in Nat
  <2>1. \A x \in Entries : x.at \in Nat
    BY DEF Entries
  <2> QED BY <2>1, LenProperties, ElementOfSeq
<1>2. L = 1 .. Cardinality(L) /\ IsFiniteSet(L)
  <2>1. L \in SUBSET (1 .. Len(q))
    BY <1>1
  <2>2. \A i \in L : \A j \in 1 .. i : j \in L
    BY <1>1 DEF Sorted
  <2>3. IsFiniteSet(L)
    <3>1. IsFiniteSet(1 .. Len(q))
      BY <1>1, FS_Interval
    <3> QED BY <2>1, <3>1, FS_Subset
  <2> QED BY <1>1, <2>1, <2>2, <2>3, PrefixCount
<1>3. Cardinality(L) \in Nat
  BY <1>2, FS_CardinalityType
<1>4. queue' = InsertAt(q, p, e)
  BY Zenon DEF Enqueue
<1>5. p \in 1 .. Len(q) + 1 /\ \A i \in DOMAIN q : i < p <=> q[i].at <= e.at
  <2>1. L \in SUBSET DOMAIN q
    BY <1>1
  <2>2. Cardinality(L) <= Len(q)
    <3>1. IsFiniteSet(DOMAIN q) /\ Cardinality(DOMAIN q) = Len(q)
      <4>1. Len(q) \in Nat /\ DOMAIN q = 1 .. Len(q)
        BY LenProperties
      <4>2. IsFiniteSet(1 .. Len(q)) /\ Cardinality(1 .. Len(q)) = (Len(q) - 1) + 1
        <5>1. 1 \in Int /\ Len(q) \in Int
          BY ONLY <4>1
        <5>2. IsFiniteSet(1 .. Len(q)) /\ Cardinality(1 .. Len(q)) = IF 1 > Len(q) THEN 0 ELSE Len(q) - 1 + 1
          BY ONLY <5>1, FS_Interval
        <5> QED BY ONLY <4>1, <5>2
      <4> QED BY ONLY <4>1, <4>2
    <3> QED BY <2>1, <3>1, FS_Subset
  <2>3. \A i \in DOMAIN q : i \in L <=> q[i].at <= e.at
    OBVIOUS
  <2> HIDE DEF L
  <2> QED BY <1>1, <1>2, <1>3, <2>2, <2>3
<1> HIDE DEF L, p
<1>6. /\ queue' \in Seq(Entries) /\ Len(queue') = Len(q) + 1
      /\ queue'[p] = e
      /\ \A i \in 1 .. p - 1 : queue'[i] = q[i]
      /\ \A i \in p .. Len(q) : queue'[i + 1] = q[i]
  <2>1. p \in 1 .. Len(q) + 1
    BY <1>5
  <2> QED BY <1>4, <2>1, InsertAtProperties
<1>7. DOMAIN queue' = 1 .. Len(q) + 1
  BY <1>6, LenProperties
<1>8. \A j \in p + 1 .. Len(q) + 1 : queue'[j] = q[j - 1] /\ j - 1 \in DOMAIN q
  <2> TAKE j \in p + 1 .. Len(q) + 1
  <2>1. j - 1 \in p .. Len(q) /\ (j - 1) + 1 = j
    BY <1>1, <1>5
  <2>2. queue'[(j - 1) + 1] = q[j - 1]
    BY <1>6, <2>1
  <2> QED BY <1>1, <1>5, <2>1, <2>2
<1> SUFFICES ASSUME NEW i \in DOMAIN queue', NEW j \in DOMAIN queue', i <= j
             PROVE  queue'[i].at <= queue'[j].at
  BY DEF Sorted
<1>9. CASE j < p
  <2>1. queue'[i] = q[i] /\ queue'[j] = q[j] /\ i \in DOMAIN q /\ j \in DOMAIN q
    BY <1>1, <1>5, <1>6, <1>7, <1>9
  <2> QED BY <2>1 DEF Sorted
<1>10. CASE i > p
  <2>1. /\ queue'[i] = q[i - 1] /\ queue'[j] = q[j - 1] /\ i - 1 \in DOMAIN q /\ j - 1 \in DOMAIN q
        /\ i - 1 <= j - 1
    BY <1>1, <1>5, <1>7, <1>8, <1>10
  <2> QED BY <2>1 DEF Sorted
<1>11. CASE i <= p /\ p <= j
  <2>1. queue'[i].at <= e.at
    <3>1. CASE i = p
      BY <1>1, <1>6, <3>1
    <3>2. CASE i < p
      BY <1>1, <1>5, <1>6, <1>7, <3>2
    <3> QED BY <1>5, <1>7, <1>11, <3>1, <3>2
  <2>2. e.at <= queue'[j].at
    <3>1. CASE j = p
      BY <1>1, <1>6, <3>1
    <3>2. CASE j > p
      <4>1. queue'[j] = q[j - 1] /\ j - 1 \in DOMAIN q /\ ~(j - 1 < p)
        BY <1>1, <1>5, <1>7, <1>8, <3>2
      <4> QED BY <1>1, <1>5, <4>1
    <3> QED BY <1>5, <1>7, <1>11, <3>1, <3>2
  <2>3. queue'[i].at \in Nat /\ queue'[j].at \in Nat
    <3>1. \A x \in Entries : x.at \in Nat
      BY DEF Entries
    <3>2. Len(queue') = Len(q) + 1 /\ queue' \in Seq(Entries)
      BY <1>6
    <3> QED BY <1>7, <3>1, <3>2, ElementOfSeq
  <2> QED BY <1>1, <2>1, <2>2, <2>3
<1> QED BY <1>1, <1>5, <1>7, <1>9, <1>10, <1>11

-----------------------------------------------------------------------------
(* The inductive invariant.                                                *)

\* The bound of the queue: only a repeated task and the stop command are put
\* in without the application having looked at the length.
LengthInv ==
    /\ Len(queue) <= QueueBound + 2
    /\ ~Destroyed => Len(queue) <= QueueBound + 1
    /\ tpc \in {"execute", "run", "after"} => Len(queue) <= QueueBound + 1
    /\ tpc \in {"execute", "run", "after"} /\ ~Destroyed => Len(queue) <= QueueBound

\* The iterator is valid where the thread uses it, on an entry whose time has
\* come where it erases it, and the notification is there while it executes.
ThreadInv ==
    /\ tpc \in {"sleep", "dequeue"} => it \in DOMAIN queue
    /\ tpc = "dequeue" => queue[it].at <= now
    /\ tpc \in {"execute", "run", "after", "finish"} <=> nf # None
    /\ nf # None => nf.at <= now
    /\ tpc \in {"run", "after"} => nf.kind \in Kinds
    /\ tpc = "finish" => nf.kind = "cancel"

\* The entry e is the command of u's cancel(true).
CommandOf(u, e) == e.kind = "cancel" /\ e.owner = u

\* A user is told once per call, by the command of that call: while it is on
\* its way the user waits and is not told yet; when it has purged the queue
\* nothing that the call came after is left.
CancelInv ==
    /\ \A u \in finished : upc[u] = "cancelWait"
    /\ \A u \in Users, i \in DOMAIN queue :
         CommandOf(u, queue[i]) => upc[u] = "cancelWait" /\ u \notin finished
    /\ \A u \in Users :
         nf # None /\ CommandOf(u, nf) => upc[u] = "cancelWait" /\ u \notin finished
    /\ \A u \in finished, i \in DOMAIN queue : u \notin queue[i].before
    /\ \A u \in finished : nf # None /\ tpc # "finish" => u \notin nf.before
    /\ tpc = "finish" /\ nf.owner \in Users => \A i \in DOMAIN queue :
         nf.owner \notin queue[i].before /\ ~CommandOf(nf.owner, queue[i])

TimerInv == UTTypeOK /\ LengthInv /\ ThreadInv /\ NoMissedWakeup /\ CancelInv

UTInv == TimerInv /\ Sorted(queue)

\* The constructor establishes the invariant.
LEMMA UTInvInit == UTInit => UTInv
<1> SUFFICES ASSUME UTInit PROVE UTInv
  OBVIOUS
<1> USE UtilTimerAssumption DEF UTInit
<1>1. available \in BOOLEAN /\ cancelled \in [Tasks -> BOOLEAN]
  BY Zenon
<1>2. queue \in Seq(Entries) /\ Len(queue) = 0 /\ DOMAIN queue = {}
  BY EmptySeq
<1>3. UTTypeOK
  <2>1. now \in 1 .. MaxTime
    OBVIOUS
  <2> QED BY <1>1, <1>2, <2>1 DEF UTTypeOK
<1>4. LengthInv /\ ThreadInv
  BY <1>2 DEF LengthInv, ThreadInv
<1>5. NoMissedWakeup /\ CancelInv
  BY <1>2 DEF NoMissedWakeup, CancelInv
<1>6. Sorted(queue)
  BY <1>2 DEF Sorted
<1> QED BY <1>3, <1>4, <1>5, <1>6 DEF UTInv, TimerInv

\* The history variable of one notification.
LEMMA MarkProperties ==
  ASSUME NEW u \in Users, NEW e \in Entries
  PROVE  /\ Mark(u, e) \in Entries /\ Unmark(u, e) \in Entries
         /\ Mark(u, e).at = e.at /\ Unmark(u, e).at = e.at
         /\ Mark(u, e).kind = e.kind /\ Unmark(u, e).kind = e.kind
         /\ Mark(u, e).owner = e.owner /\ Unmark(u, e).owner = e.owner
         /\ Mark(u, e).before = e.before \cup {u} /\ Unmark(u, e).before = e.before \ {u}
  BY DEF Mark, Unmark, Entries

\* The same of the whole queue.
LEMMA MarkAllProperties ==
  ASSUME NEW u \in Users, queue \in Seq(Entries), NEW q,
         \/ q = MarkAll(u)
         \/ q = [i \in DOMAIN queue |-> Unmark(u, queue[i])]
  PROVE  q \in Seq(Entries) /\ Len(q) = Len(queue) /\ DOMAIN q = DOMAIN queue
<1>1. Len(queue) \in Nat /\ DOMAIN queue = 1 .. Len(queue) /\ \A i \in DOMAIN queue : queue[i] \in Entries
  BY LenProperties, ElementOfSeq
<1>2. q \in [1 .. Len(queue) -> Entries]
  BY <1>1, MarkProperties DEF MarkAll, CancelQueue
<1>3. q \in Seq(Entries)
  BY <1>1, <1>2, SeqDef
<1> QED BY <1>1, <1>2, <1>3, LenProperties

\* Once the timer is being destroyed it stays so.
LEMMA DestroyedStays ==
  ASSUME UTTypeOK, [UTNext]_utVars, Destroyed
  PROVE  Destroyed'
<1>1. PICK u \in Users : upc[u] \in {"join", "gone"}
  BY DEF Destroyed
<1> SUFFICES upc'[u] \in {"join", "gone"}
  BY DEF Destroyed
<1>2. CASE UNCHANGED upc
  BY <1>1, <1>2
<1>3. ASSUME NEW v \in Users, CancelAndWait(v) \/ CancelReturns(v) \/ Destroy(v) \/ Join(v)
      PROVE  upc'[u] \in {"join", "gone"}
  BY <1>1, <1>3 DEF CancelAndWait, CancelReturns, Destroy, Join, UTTypeOK
<1> QED BY <1>2, <1>3 DEF UTNext, TimerThread, Begin, Woken, SleepEnds, DequeueOne, ExecuteStop, ExecuteCancel,
           FinishCancel, ExecuteTask, TaskReturns, AfterTask, Schedule, CancelTimerTask, Cancel, Tick, utVars

\* A call that enqueues a new notification preserves what concerns the thread.
LEMMA EnqueueStep ==
  ASSUME UTInv, [UTNext]_utVars, NEW q \in Seq(Entries), NEW e \in Entries, Enqueue(q, e),
         Len(q) = Len(queue), DOMAIN q = DOMAIN queue,
         \A i \in DOMAIN q : q[i].at = queue[i].at,
         \/ Open
         \/ ~Destroyed /\ Destroyed',
         UNCHANGED <<now, tpc>>,
         nf = None <=> nf' = None,
         nf # None => nf'.at = nf.at /\ nf'.kind = nf.kind
  PROVE  /\ LengthInv' /\ ThreadInv' /\ NoMissedWakeup'
         /\ queue' \in Seq(Entries) /\ Len(queue') <= QueueBound + 2
         /\ it' \in Nat /\ available' \in BOOLEAN
<1> USE DEF UTInv, TimerInv, UTTypeOK
<1>1. /\ queue' \in Seq(Entries) /\ Len(queue') = Len(queue) + 1 /\ queue' # <<>>
      /\ it' \in Nat /\ available' = TRUE
      /\ it \in DOMAIN q => it' \in DOMAIN queue' /\ queue'[it'] = q[it]
  BY EnqueueEffect
<1>2. available' \in BOOLEAN /\ available'
  BY <1>1, Zenon
<1>3. Len(queue) \in Nat /\ (Destroyed => Destroyed')
  BY LenProperties, DestroyedStays
<1>4. LengthInv'
  BY <1>1, <1>3, UtilTimerAssumption DEF LengthInv, Open
<1>5. ThreadInv'
  BY <1>1 DEF ThreadInv
<1>6. NoMissedWakeup'
  BY <1>2 DEF NoMissedWakeup
<1> QED BY <1>1, <1>2, <1>4, <1>5, <1>6 DEF LengthInv

\* The queue stays in the order of its times.
LEMMA SortedStep == ASSUME UTInv, [UTNext]_utVars PROVE Sorted(queue)'
<1> USE DEF UTInv, TimerInv, UTTypeOK
<1>1. CASE queue' = queue \/ queue' = <<>>
  BY <1>1 DEF Sorted
<1>2. ASSUME NEW q \in Seq(Entries), NEW e \in Entries, Enqueue(q, e), DOMAIN q = DOMAIN queue,
             \A i \in DOMAIN queue : q[i].at = queue[i].at
      PROVE  Sorted(queue)'
  <2>1. Sorted(q)
    BY <1>2 DEF Sorted
  <2> QED BY <1>2, <2>1, EnqueueSorted
<1>3. ASSUME NEW u \in Users, NEW i \in DOMAIN queue
      PROVE  Mark(u, queue[i]).at = queue[i].at /\ Unmark(u, queue[i]).at = queue[i].at
  BY LenProperties, ElementOfSeq, MarkProperties
<1>4. CASE DequeueOne
  <2>1. it \in 1 .. Len(queue) /\ queue' = RemoveAt(queue, it) /\ Len(queue) \in Nat
    BY <1>4, LenProperties DEF DequeueOne, ThreadInv
  <2>2. /\ queue' \in Seq(Entries) /\ Len(queue') = Len(queue) - 1
        /\ \A i \in 1 .. it - 1 : queue'[i] = queue[i]
        /\ \A i \in it .. Len(queue) - 1 : queue'[i] = queue[i + 1]
    BY <2>1, RemoveAtProperties
  <2>3. DOMAIN queue' = 1 .. Len(queue) - 1 /\ DOMAIN queue = 1 .. Len(queue)
    BY <2>2, LenProperties
  <2>4. \A i \in DOMAIN queue' :
          \/ i < it /\ queue'[i] = queue[i] /\ i \in DOMAIN queue
          \/ i >= it /\ queue'[i] = queue[i + 1] /\ i + 1 \in DOMAIN queue
    BY <2>1, <2>2, <2>3
  <2> SUFFICES ASSUME NEW i \in DOMAIN queue', NEW j \in DOMAIN queue', i <= j
               PROVE  queue'[i].at <= queue'[j].at
    BY DEF Sorted
  <2>5. i \in Int /\ j \in Int /\ it \in Int
    BY <2>1, <2>3
  <2> QED BY <2>4, <2>5, SMTT(40) DEF Sorted
<1>5. CASE AfterTask
  <2>1. CASE UNCHANGED <<queue, it, available>>
    BY <1>1, <2>1
  <2>2. CASE Enqueue(queue, [nf EXCEPT !.at = NextExecution])
    <3>1. nf \in Entries
      BY <1>5 DEF AfterTask, ThreadInv
    <3>2. NextExecution \in Nat
      BY <3>1, UtilTimerAssumption DEF NextExecution, Entries
    <3>3. [nf EXCEPT !.at = NextExecution] \in Entries
      BY <3>1, <3>2 DEF Entries
    <3> QED BY <1>2, <2>2, <3>3
  <2> QED BY <1>5, <2>1, <2>2 DEF AfterTask
<1>6. ASSUME NEW t \in Tasks, NEW k \in Kinds, NEW d \in Delays, Schedule(t, k, d) PROVE Sorted(queue)'
  <2>1. [at |-> now + d, kind |-> k, owner |-> t, before |-> {}] \in Entries
    BY UtilTimerAssumption DEF Entries
  <2> QED BY <1>2, <1>6, <2>1 DEF Schedule
<1>7. CASE Cancel
  <2>1. Command("cancel", None) \in Entries
    BY DEF Command, Entries
  <2> QED BY <1>2, <1>7, <2>1 DEF Cancel, CancelQueue
<1>8. ASSUME NEW u \in Users, CancelAndWait(u) PROVE Sorted(queue)'
  <2>1. Command("cancel", u) \in Entries
    BY DEF Command, Entries
  <2>2. MarkAll(u) \in Seq(Entries) /\ DOMAIN MarkAll(u) = DOMAIN queue
    BY MarkAllProperties
  <2>3. \A i \in DOMAIN queue : MarkAll(u)[i].at = queue[i].at
    BY <1>3 DEF MarkAll, CancelQueue
  <2> QED BY <1>2, <1>8, <2>1, <2>2, <2>3 DEF CancelAndWait
<1>9. ASSUME NEW u \in Users, CancelReturns(u) PROVE Sorted(queue)'
  BY <1>3, <1>9 DEF CancelReturns, Sorted
<1>10. ASSUME NEW u \in Users, Destroy(u) PROVE Sorted(queue)'
  <2>1. Command("stop", u) \in Entries
    BY DEF Command, Entries
  <2> QED BY <1>2, <1>10, <2>1 DEF Destroy
<1> HIDE DEF UTInv
<1> QED
  BY <1>1, <1>4, <1>5, <1>6, <1>7, <1>8, <1>9, <1>10
  DEF UTNext, TimerThread, Begin, Woken, SleepEnds, ExecuteStop, ExecuteCancel, Purged,
      FinishCancel, ExecuteTask, TaskReturns, CancelTimerTask, Join, Tick, utVars

\* Every step preserves the invariant.
LEMMA UTInvStep == UTInv /\ [UTNext]_utVars => UTInv'
<1> SUFFICES ASSUME UTInv, [UTNext]_utVars PROVE TimerInv'
  BY SortedStep DEF UTInv
<1>0. /\ Len(queue) \in Nat /\ DOMAIN queue = 1 .. Len(queue)
      /\ \A i \in DOMAIN queue : queue[i] \in Entries
      /\ Destroyed => Destroyed'
      /\ <<>> \in Seq(Entries) /\ Len(<<>>) = 0 /\ DOMAIN <<>> = {}
      /\ None \notin Entries
  BY LenProperties, ElementOfSeq, EmptySeq, DestroyedStays, UtilTimerAssumption DEF UTInv, TimerInv, UTTypeOK
<1> USE DEF UTInv, TimerInv
<1>1. CASE Begin
  <2>1. UTTypeOK'
    BY <1>0, <1>1 DEF Begin, UTTypeOK
  <2>2. LengthInv' /\ ThreadInv'
    BY <1>0, <1>1 DEF Begin, LengthInv, ThreadInv, Destroyed, UTTypeOK
  <2>3. NoMissedWakeup'
    BY <1>0, <1>1 DEF Begin, NoMissedWakeup, UTTypeOK, Entries, Sorted
  <2>4. CancelInv'
    BY <1>0, <1>1 DEF Begin, CancelInv, CommandOf, UTTypeOK
  <2> QED BY <2>1, <2>2, <2>3, <2>4
<1>2. CASE Woken
  <2>1. available' \in BOOLEAN
    BY <1>2, Zenon DEF Woken
  <2>2. UTTypeOK' /\ LengthInv' /\ ThreadInv' /\ NoMissedWakeup'
    BY <1>0, <1>2, <2>1 DEF Woken, UTTypeOK, LengthInv, ThreadInv, NoMissedWakeup, Destroyed
  <2>3. CancelInv'
    BY <1>2 DEF Woken, CancelInv, CommandOf
  <2> QED BY <2>2, <2>3
<1>3. CASE SleepEnds
  BY <1>0, <1>3 DEF SleepEnds, SleptEnough, UTTypeOK, LengthInv, ThreadInv, NoMissedWakeup, CancelInv, CommandOf, Destroyed
<1>4. CASE DequeueOne
  <2>1. /\ it \in 1 .. Len(queue) /\ queue' = RemoveAt(queue, it)
        /\ nf' = queue[it] /\ nf' \in Entries /\ nf' # None /\ nf'.at <= now
    BY <1>0, <1>4 DEF DequeueOne, ThreadInv
  <2>2. /\ queue' \in Seq(Entries) /\ Len(queue') = Len(queue) - 1
        /\ \A j \in DOMAIN queue' : \E i \in DOMAIN queue : queue'[j] = queue[i]
    <3>1. /\ queue' \in Seq(Entries) /\ Len(queue') = Len(queue) - 1
          /\ \A i \in 1 .. it - 1 : queue'[i] = queue[i]
          /\ \A i \in it .. Len(queue) - 1 : queue'[i] = queue[i + 1]
      BY <2>1, RemoveAtProperties DEF UTTypeOK
    <3>2. DOMAIN queue' = 1 .. Len(queue) - 1
      BY <3>1, LenProperties
    <3>3. ASSUME NEW j \in DOMAIN queue' PROVE \E i \in DOMAIN queue : queue'[j] = queue[i]
      <4>1. CASE j < it
        BY <1>0, <2>1, <3>1, <3>2, <3>3, <4>1
      <4>2. CASE j >= it
        <5>1. j \in it .. Len(queue) - 1 /\ j + 1 \in DOMAIN queue
          BY <1>0, <2>1, <3>2, <3>3, <4>2
        <5> QED BY <3>1, <5>1
      <4> QED BY <2>1, <3>2, <3>3, <4>1, <4>2
    <3> QED BY <3>1, <3>3
  <2>3. UTTypeOK'
    BY <1>0, <1>4, <2>1, <2>2, UtilTimerAssumption DEF DequeueOne, UTTypeOK
  <2>4. LengthInv' /\ ThreadInv' /\ NoMissedWakeup'
    BY <1>0, <1>4, <2>1, <2>2, UtilTimerAssumption DEF DequeueOne, LengthInv, ThreadInv, NoMissedWakeup, Destroyed, UTTypeOK
  <2>5. CancelInv'
    BY <1>0, <1>4, <2>1, <2>2 DEF DequeueOne, CancelInv, ThreadInv, UTTypeOK
  <2> QED BY <2>3, <2>4, <2>5
<1>5. CASE ExecuteStop
  BY <1>0, <1>5, UtilTimerAssumption
  DEF ExecuteStop, UTTypeOK, LengthInv, ThreadInv, NoMissedWakeup, CancelInv, CommandOf, Destroyed
<1>6. CASE ExecuteCancel
  BY <1>0, <1>6, UtilTimerAssumption
  DEF ExecuteCancel, Purged, UTTypeOK, LengthInv, ThreadInv, NoMissedWakeup, CancelInv, CommandOf, Destroyed
<1>7. CASE FinishCancel
  <2>1. UTTypeOK' /\ LengthInv' /\ ThreadInv' /\ NoMissedWakeup'
    BY <1>0, <1>7 DEF FinishCancel, FinishedAfter, UTTypeOK, LengthInv, ThreadInv, NoMissedWakeup, Destroyed
  <2>2. CancelInv'
    BY <1>0, <1>7 DEF FinishCancel, FinishedAfter, CancelInv, CommandOf, ThreadInv, UTTypeOK
  <2> QED BY <2>1, <2>2
<1>8. CASE ExecuteTask
  BY <1>0, <1>8 DEF ExecuteTask, UTTypeOK, LengthInv, ThreadInv, NoMissedWakeup, CancelInv, CommandOf, Destroyed
<1>9. CASE TaskReturns
  BY <1>0, <1>9 DEF TaskReturns, UTTypeOK, LengthInv, ThreadInv, NoMissedWakeup, CancelInv, CommandOf, Destroyed
<1>10. CASE AfterTask
  <2>1. nf \in Entries /\ nf.kind \in Kinds /\ nf # None
    BY <1>0, <1>10 DEF AfterTask, ThreadInv, UTTypeOK
  <2>2. CASE UNCHANGED <<queue, it, available>>
    BY <1>0, <1>10, <2>2 DEF AfterTask, UTTypeOK, LengthInv, ThreadInv, NoMissedWakeup, CancelInv, CommandOf, Destroyed
  <2>3. CASE Enqueue(queue, [nf EXCEPT !.at = NextExecution])
    <3> DEFINE e == [nf EXCEPT !.at = NextExecution]
    <3>1. NextExecution \in Nat
      BY <2>1, UtilTimerAssumption DEF NextExecution, Entries, UTTypeOK
    <3>2. e \in Entries /\ e.kind = nf.kind /\ e.before = nf.before
      BY <2>1, <3>1 DEF Entries
    <3> HIDE DEF e
    <3>3. /\ queue' \in Seq(Entries) /\ Len(queue') = Len(queue) + 1 /\ it' \in Nat /\ available' = TRUE
          /\ \A j \in DOMAIN queue' : queue'[j] = e \/ \E i \in DOMAIN queue : queue'[j] = queue[i]
      BY <2>3, <3>2, EnqueueEffect DEF UTTypeOK, e
    <3>4. available' \in BOOLEAN
      BY <3>3, Zenon
    <3>5. UTTypeOK'
      BY <1>0, <1>10, <3>3, <3>4, UtilTimerAssumption DEF AfterTask, UTTypeOK, LengthInv
    <3>6. LengthInv' /\ ThreadInv' /\ NoMissedWakeup'
      BY <1>0, <1>10, <3>3, UtilTimerAssumption DEF AfterTask, LengthInv, ThreadInv, NoMissedWakeup, Destroyed, UTTypeOK
    <3>7. CancelInv'
      BY <1>10, <2>1, <3>2, <3>3, UtilTimerAssumption DEF AfterTask, CancelInv, CommandOf
    <3> QED BY <3>5, <3>6, <3>7
  <2> QED BY <1>10, <2>2, <2>3 DEF AfterTask
<1>11. ASSUME NEW t \in Tasks, NEW k \in Kinds, NEW d \in Delays, Schedule(t, k, d) PROVE TimerInv'
  <2> DEFINE e == [at |-> now + d, kind |-> k, owner |-> t, before |-> {}]
  <2>1. e \in Entries /\ e.kind \in Kinds /\ e.before = {}
    BY UtilTimerAssumption DEF Entries, UTTypeOK
  <2>2. Open /\ Enqueue(queue, e) /\ UNCHANGED <<now, tpc, nf, cancelled, finished, upc, crowded>>
    BY <1>11, Zenon DEF Schedule
  <2> HIDE DEF e
  <2>3. /\ LengthInv' /\ ThreadInv' /\ NoMissedWakeup'
        /\ queue' \in Seq(Entries) /\ Len(queue') <= QueueBound + 2
        /\ it' \in Nat /\ available' \in BOOLEAN
    BY <2>1, <2>2, EnqueueStep DEF UTTypeOK
  <2>4. \A j \in DOMAIN queue' : queue'[j] = e \/ \E i \in DOMAIN queue : queue'[j] = queue[i]
    BY <2>1, <2>2, EnqueueEffect DEF UTTypeOK
  <2>5. UTTypeOK'
    BY <2>2, <2>3 DEF UTTypeOK
  <2>6. CancelInv'
    BY <2>1, <2>2, <2>4, UtilTimerAssumption DEF CancelInv, CommandOf
  <2> QED BY <2>3, <2>5, <2>6
<1>12. ASSUME NEW t \in Tasks, CancelTimerTask(t) PROVE TimerInv'
  <2>1. cancelled' \in [Tasks -> BOOLEAN]
    BY <1>12 DEF CancelTimerTask, UTTypeOK
  <2>2. UTTypeOK' /\ LengthInv' /\ ThreadInv' /\ NoMissedWakeup'
    BY <1>12, <2>1 DEF CancelTimerTask, UTTypeOK, LengthInv, ThreadInv, NoMissedWakeup, Destroyed
  <2>3. CancelInv'
    BY <1>12 DEF CancelTimerTask, CancelInv, CommandOf
  <2> QED BY <2>2, <2>3
<1>13. CASE Cancel
  <2> DEFINE e == Command("cancel", None)
  <2>1. e \in Entries /\ e.owner = None /\ e.before = {}
    BY UtilTimerAssumption DEF Entries, Command
  <2>2. Open /\ Enqueue(queue, e) /\ UNCHANGED <<now, tpc, nf, cancelled, finished, upc, crowded>>
    BY <1>13, Zenon DEF Cancel, CancelQueue
  <2> HIDE DEF e
  <2>3. /\ LengthInv' /\ ThreadInv' /\ NoMissedWakeup'
        /\ queue' \in Seq(Entries) /\ Len(queue') <= QueueBound + 2
        /\ it' \in Nat /\ available' \in BOOLEAN
    BY <2>1, <2>2, EnqueueStep DEF UTTypeOK
  <2>4. \A j \in DOMAIN queue' : queue'[j] = e \/ \E i \in DOMAIN queue : queue'[j] = queue[i]
    BY <2>1, <2>2, EnqueueEffect DEF UTTypeOK
  <2>5. UTTypeOK'
    BY <2>2, <2>3 DEF UTTypeOK
  <2>6. CancelInv'
    BY <2>1, <2>2, <2>4, UtilTimerAssumption DEF CancelInv, CommandOf
  <2> QED BY <2>3, <2>5, <2>6
<1>14. ASSUME NEW u \in Users, CancelAndWait(u) PROVE TimerInv'
  <2> DEFINE e == Command("cancel", u)
             q == MarkAll(u)
  <2>1. e \in Entries /\ e.owner = u /\ e.before = {}
    BY UtilTimerAssumption DEF Entries, Command
  <2>2. q \in Seq(Entries) /\ Len(q) = Len(queue) /\ DOMAIN q = DOMAIN queue
    BY MarkAllProperties DEF UTTypeOK
  <2>3. \A i \in DOMAIN queue : q[i] = Mark(u, queue[i])
    BY DEF MarkAll, CancelQueue
  <2>4. \A i \in DOMAIN queue :
          /\ q[i].at = queue[i].at /\ q[i].kind = queue[i].kind /\ q[i].owner = queue[i].owner
          /\ q[i].before = queue[i].before \cup {u}
    BY <1>0, <2>3, MarkProperties
  <2>5. /\ nf = None <=> nf' = None
        /\ nf # None => /\ nf' \in Entries /\ nf'.at = nf.at /\ nf'.kind = nf.kind
                        /\ nf'.owner = nf.owner /\ nf'.before = nf.before \cup {u}
    BY <1>0, <1>14, MarkProperties DEF CancelAndWait, UTTypeOK
  <2>6. /\ Open /\ Enqueue(q, e) /\ upc[u] = "app"
        /\ upc' = [upc EXCEPT ![u] = "cancelWait"] /\ crowded' \subseteq crowded \cup {u}
        /\ UNCHANGED <<now, tpc, cancelled, finished>>
    BY <1>14 DEF CancelAndWait
  <2> HIDE DEF e, q
  <2>7. /\ LengthInv' /\ ThreadInv' /\ NoMissedWakeup'
        /\ queue' \in Seq(Entries) /\ Len(queue') <= QueueBound + 2
        /\ it' \in Nat /\ available' \in BOOLEAN
    BY <2>1, <2>2, <2>4, <2>5, <2>6, EnqueueStep DEF UTTypeOK
  <2>8. \A j \in DOMAIN queue' : queue'[j] = e \/ \E i \in DOMAIN queue : queue'[j] = q[i]
    BY <2>1, <2>2, <2>6, EnqueueEffect DEF UTTypeOK
  <2>9. UTTypeOK'
    BY <2>5, <2>6, <2>7 DEF UTTypeOK
  <2>10. CancelInv'
    <3>1. u \notin finished
      BY <2>6 DEF CancelInv
    <3>2. \A j \in DOMAIN queue' :
            \/ queue'[j] = e
            \/ \E i \in DOMAIN queue : /\ queue'[j].kind = queue[i].kind
                                        /\ queue'[j].owner = queue[i].owner
                                        /\ queue'[j].before = queue[i].before \cup {u}
      BY <2>4, <2>8
    <3>3. tpc = "finish" => nf.owner # u
      BY <2>6 DEF CancelInv, CommandOf, ThreadInv
    <3> QED BY <2>1, <2>5, <2>6, <3>1, <3>2, <3>3 DEF CancelInv, CommandOf, UTTypeOK
  <2> QED BY <2>7, <2>9, <2>10
<1>15. ASSUME NEW u \in Users, CancelReturns(u) PROVE TimerInv'
  <2>1. queue' \in Seq(Entries) /\ Len(queue') = Len(queue) /\ DOMAIN queue' = DOMAIN queue
    BY <1>15, MarkAllProperties DEF CancelReturns, UTTypeOK
  <2>2. \A i \in DOMAIN queue :
          /\ queue'[i].at = queue[i].at /\ queue'[i].kind = queue[i].kind
          /\ queue'[i].owner = queue[i].owner /\ queue'[i].before = queue[i].before \ {u}
    BY <1>0, <1>15, MarkProperties DEF CancelReturns
  <2>3. /\ nf = None <=> nf' = None
        /\ nf # None => /\ nf' \in Entries /\ nf'.at = nf.at /\ nf'.kind = nf.kind
                        /\ nf'.owner = nf.owner /\ nf'.before = nf.before \ {u}
    BY <1>0, <1>15, MarkProperties DEF CancelReturns, UTTypeOK
  <2>4. UTTypeOK'
    BY <1>15, <2>1, <2>3 DEF CancelReturns, UTTypeOK
  <2>5. LengthInv' /\ ThreadInv'
    BY <1>0, <1>15, <2>1, <2>2, <2>3 DEF CancelReturns, LengthInv, ThreadInv
  <2>6. NoMissedWakeup'
    BY <1>0, <1>15, <2>1, <2>2 DEF CancelReturns, NoMissedWakeup, ThreadInv
  <2>7. CancelInv'
    <3>1. /\ u \in finished /\ finished' = finished \ {u} /\ tpc' = tpc
          /\ \A v \in Users \ {u} : upc'[v] = upc[v]
      BY <1>15 DEF CancelReturns, UTTypeOK
    <3>2. /\ \A i \in DOMAIN queue : ~CommandOf(u, queue[i])
          /\ nf # None => ~CommandOf(u, nf)
      BY <3>1 DEF CancelInv, UTTypeOK
    <3>3. /\ \A v \in Users, i \in DOMAIN queue : CommandOf(v, queue'[i]) <=> CommandOf(v, queue[i])
          /\ nf # None => \A v \in Users : CommandOf(v, nf') <=> CommandOf(v, nf)
      BY <2>2, <2>3 DEF CommandOf
    <3>4. /\ \A v \in Users, i \in DOMAIN queue : v \in queue'[i].before => v \in queue[i].before
          /\ nf # None => \A v \in Users : v \in nf'.before => v \in nf.before
      BY <2>2, <2>3
    <3>5. tpc = "finish" => nf # None /\ nf'.owner = nf.owner
      BY <2>3 DEF ThreadInv
    <3>6. finished \subseteq Users /\ CancelInv
      BY DEF UTTypeOK
    <3>7. \A v \in finished' : upc'[v] = "cancelWait"
      BY <3>1, <3>6 DEF CancelInv
    <3>8. \A v \in Users, i \in DOMAIN queue' :
            CommandOf(v, queue'[i]) => upc'[v] = "cancelWait" /\ v \notin finished'
      BY <2>1, <3>1, <3>2, <3>3, <3>6 DEF CancelInv
    <3>9. \A v \in Users : nf' # None /\ CommandOf(v, nf') => upc'[v] = "cancelWait" /\ v \notin finished'
      BY <2>3, <3>1, <3>2, <3>3, <3>6 DEF CancelInv
    <3>10. \A v \in finished', i \in DOMAIN queue' : v \notin queue'[i].before
      BY <2>1, <3>1, <3>4, <3>6 DEF CancelInv
    <3>11. \A v \in finished' : nf' # None /\ tpc' # "finish" => v \notin nf'.before
      BY <2>3, <3>1, <3>4, <3>6 DEF CancelInv
    <3>12. tpc' = "finish" /\ nf'.owner \in Users => \A i \in DOMAIN queue' :
             nf'.owner \notin queue'[i].before /\ ~CommandOf(nf'.owner, queue'[i])
      BY <2>1, <3>1, <3>3, <3>4, <3>5, <3>6 DEF CancelInv
    <3> QED BY <3>7, <3>8, <3>9, <3>10, <3>11, <3>12 DEF CancelInv, CommandOf
  <2> QED BY <2>4, <2>5, <2>6, <2>7
<1>16. ASSUME NEW u \in Users, Destroy(u) PROVE TimerInv'
  <2> DEFINE e == Command("stop", u)
  <2>1. e \in Entries /\ e.kind = "stop" /\ e.before = {}
    BY UtilTimerAssumption DEF Entries, Command
  <2>2. /\ Enqueue(queue, e) /\ \A v \in Users : upc[v] = "app"
        /\ upc' = [upc EXCEPT ![u] = "join"] /\ crowded' \subseteq crowded \cup {u}
        /\ UNCHANGED <<now, tpc, nf, cancelled, finished>>
    BY <1>16 DEF Destroy
  <2>3. ~Destroyed /\ Destroyed'
    BY <2>2 DEF Destroyed, UTTypeOK
  <2> HIDE DEF e
  <2>4. /\ LengthInv' /\ ThreadInv' /\ NoMissedWakeup'
        /\ queue' \in Seq(Entries) /\ Len(queue') <= QueueBound + 2
        /\ it' \in Nat /\ available' \in BOOLEAN
    BY <2>1, <2>2, <2>3, EnqueueStep DEF UTTypeOK
  <2>5. \A j \in DOMAIN queue' : queue'[j] = e \/ \E i \in DOMAIN queue : queue'[j] = queue[i]
    BY <2>1, <2>2, EnqueueEffect DEF UTTypeOK
  <2>6. UTTypeOK'
    BY <2>2, <2>4 DEF UTTypeOK
  <2>7. CancelInv'
    BY <2>1, <2>2, <2>5 DEF CancelInv, CommandOf, UTTypeOK
  <2> QED BY <2>4, <2>6, <2>7
<1>17. ASSUME NEW u \in Users, Join(u) PROVE TimerInv'
  <2>1. UTTypeOK' /\ LengthInv' /\ ThreadInv' /\ NoMissedWakeup'
    BY <1>0, <1>17 DEF Join, UTTypeOK, LengthInv, ThreadInv, NoMissedWakeup
  <2>2. CancelInv'
    BY <1>17 DEF Join, CancelInv, CommandOf, UTTypeOK
  <2> QED BY <2>1, <2>2
<1>18. CASE Tick
  <2>1. now' \in 1 .. MaxTime /\ now < now'
    BY <1>18, UtilTimerAssumption DEF Tick, UTTypeOK
  <2>2. UTTypeOK' /\ LengthInv' /\ NoMissedWakeup'
    BY <1>18, <2>1 DEF Tick, UTTypeOK, LengthInv, NoMissedWakeup, Destroyed
  <2>3. ThreadInv'
    BY <1>0, <1>18, <2>1 DEF Tick, UTTypeOK, ThreadInv, Entries
  <2>4. CancelInv'
    BY <1>18 DEF Tick, CancelInv, CommandOf
  <2> QED BY <2>2, <2>3, <2>4
<1>19. CASE UNCHANGED utVars
  BY <1>19 DEF utVars, UTTypeOK, LengthInv, ThreadInv, NoMissedWakeup, CancelInv, CommandOf, Destroyed
<1> HIDE DEF UTInv, TimerInv
<1> QED
  BY <1>1, <1>2, <1>3, <1>4, <1>5, <1>6, <1>7, <1>8, <1>9, <1>10, <1>11, <1>12, <1>13, <1>14, <1>15, <1>16, <1>17, <1>18, <1>19
  DEF UTNext, TimerThread

\* The invariant holds of every reachable state.
THEOREM TimerSound == UTSpec => []UTInv
  BY UTInvInit, UTInvStep, PTL DEF UTSpec

\* waitDequeueNotification() may keep its iterator across the unlock and the
\* wait: whatever is scheduled, cancelled or destroyed meanwhile, the iterator
\* is valid when dequeueOne() erases it.
THEOREM IteratorValid == UTSpec => []NoDanglingIterator
<1>1. UTInv => NoDanglingIterator
  BY DEF UTInv, TimerInv, ThreadInv, NoDanglingIterator
<1> QED BY <1>1, TimerSound, PTL

\* The queue is always in the order of its times: the entry that
\* waitDequeueNotification() looks at is the earliest one.
THEOREM QueueOrdered == UTSpec => [](\A i \in DOMAIN queue : queue[1].at <= queue[i].at)
<1>1. UTInv => \A i \in DOMAIN queue : queue[1].at <= queue[i].at
  <2> SUFFICES ASSUME UTInv, NEW i \in DOMAIN queue PROVE queue[1].at <= queue[i].at
    OBVIOUS
  <2>1. DOMAIN queue = 1 .. Len(queue) /\ Len(queue) \in Nat
    BY LenProperties DEF UTInv, TimerInv, UTTypeOK
  <2>2. 1 \in DOMAIN queue /\ 1 <= i
    BY <2>1
  <2> QED BY <2>2 DEF UTInv, Sorted
<1> QED BY <1>1, TimerSound, PTL

\* The thread does not sleep through the arrival of an earlier notification.
THEOREM WakesUp == UTSpec => []NoMissedWakeup
<1>1. UTInv => NoMissedWakeup
  BY DEF UTInv, TimerInv
<1> QED BY <1>1, TimerSound, PTL

\* No notification is executed before its time.
THEOREM ExecutesOnTime == UTSpec => []NeverEarly
<1>1. UTInv => NeverEarly
  BY DEF UTInv, TimerInv, ThreadInv, NeverEarly
<1> QED BY <1>1, TimerSound, PTL

\* When cancel(true) returns nothing scheduled before the call is left.
THEOREM CancelIsComplete == UTSpec => []CancelPurges
<1>1. UTInv => CancelPurges
  BY DEF UTInv, TimerInv, CancelInv, CancelPurges, Range
<1> QED BY <1>1, TimerSound, PTL
=============================================================================
