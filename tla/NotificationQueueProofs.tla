---------------------- MODULE NotificationQueueProofs -----------------------
(***************************************************************************)
(* Theorems about NotificationQueue, for any number of consumers and       *)
(* notifications, whatever operations they use.                            *)
(***************************************************************************)
EXTENDS NotificationQueue, SequenceTheorems, TLAPS

(* The sequence operators, on queues that hold nothing twice.              *)

\* What is in the range of a sequence.
LEMMA RangeIndex == ASSUME NEW q, NEW x PROVE x \in Range(q) <=> \E i \in DOMAIN q : q[i] = x
  BY DEF Range

\* The front is taken off.
LEMMA TailDistinct ==
  ASSUME NEW S, NEW q \in Seq(S), q # <<>>, IsInjective(q)
  PROVE  /\ Head(q) \in S /\ Tail(q) \in Seq(S)
         /\ Head(q) \in Range(q) /\ Range(Tail(q)) = Range(q) \ {Head(q)}
         /\ IsInjective(Tail(q))
<1>1. /\ Head(q) \in S /\ Tail(q) \in Seq(S) /\ Len(Tail(q)) = Len(q) - 1
      /\ \A i \in 1 .. Len(Tail(q)) : Tail(q)[i] = q[i + 1]
  BY HeadTailProperties
<1>2. Len(q) \in Nat \ {0} /\ DOMAIN q = 1 .. Len(q) /\ DOMAIN Tail(q) = 1 .. Len(q) - 1
  BY <1>1, EmptySeq, LenProperties
<1>3. Head(q) = q[1] /\ 1 \in DOMAIN q
  BY <1>2
<1>4. \A i \in DOMAIN Tail(q) : i + 1 \in DOMAIN q /\ i + 1 # 1 /\ Tail(q)[i] = q[i + 1]
  BY <1>1, <1>2
<1>5. \A i \in DOMAIN q : i # 1 => i - 1 \in DOMAIN Tail(q) /\ Tail(q)[i - 1] = q[i]
  <2> TAKE i \in DOMAIN q
  <2>1. i \in 1 .. Len(q)
    BY <1>2
  <2>2. CASE i # 1
    <3>1. i - 1 \in DOMAIN Tail(q) /\ (i - 1) + 1 = i
      BY <1>2, <2>1, <2>2
    <3>2. Tail(q)[i - 1] = q[(i - 1) + 1]
      BY <1>4, <3>1
    <3> QED BY <3>1, <3>2
  <2> QED BY <2>2
<1>6. IsInjective(Tail(q))
  <2> SUFFICES ASSUME NEW i \in DOMAIN Tail(q), NEW j \in DOMAIN Tail(q), Tail(q)[i] = Tail(q)[j]
               PROVE  i = j
    BY DEF IsInjective
  <2>1. i + 1 = j + 1
    BY <1>4 DEF IsInjective
  <2> QED BY <1>2, <2>1
<1>7. Range(Tail(q)) = Range(q) \ {Head(q)}
  <2>1. \A i \in DOMAIN Tail(q) : Tail(q)[i] # q[1]
    BY <1>3, <1>4 DEF IsInjective
  <2>2. ASSUME NEW x PROVE x \in Range(Tail(q)) <=> x \in Range(q) /\ x # Head(q)
    <3>1. x \in Range(Tail(q)) <=> \E i \in DOMAIN Tail(q) : Tail(q)[i] = x
      BY RangeIndex
    <3>2. x \in Range(q) <=> \E i \in DOMAIN q : q[i] = x
      BY RangeIndex
    <3> QED BY <1>3, <1>4, <1>5, <2>1, <3>1, <3>2
  <2> QED BY <2>2
<1> QED BY <1>1, <1>3, <1>6, <1>7 DEF Range

\* Something new is put at the end.
LEMMA AppendDistinct ==
  ASSUME NEW S, NEW q \in Seq(S), NEW x \in S, x \notin Range(q), IsInjective(q)
  PROVE  /\ Append(q, x) \in Seq(S) /\ Append(q, x) # <<>>
         /\ Range(Append(q, x)) = Range(q) \cup {x}
         /\ IsInjective(Append(q, x))
<1>1. /\ Append(q, x) \in Seq(S) /\ Append(q, x) # <<>> /\ Len(Append(q, x)) = Len(q) + 1
      /\ \A i \in 1 .. Len(q) : Append(q, x)[i] = q[i]
      /\ Append(q, x)[Len(q) + 1] = x
  BY AppendProperties
<1>2. Len(q) \in Nat /\ DOMAIN q = 1 .. Len(q) /\ DOMAIN Append(q, x) = 1 .. Len(q) + 1
  BY <1>1, LenProperties
<1>3. \A i \in DOMAIN Append(q, x) :
        \/ i \in DOMAIN q /\ Append(q, x)[i] = q[i]
        \/ i = Len(q) + 1 /\ Append(q, x)[i] = x
  BY <1>1, <1>2
<1>4. \A i \in DOMAIN q : i \in DOMAIN Append(q, x) /\ Append(q, x)[i] = q[i]
  BY <1>1, <1>2
<1>5. Len(q) + 1 \in DOMAIN Append(q, x)
  BY <1>2
<1> QED BY <1>1, <1>3, <1>4, <1>5 DEF Range, IsInjective

\* Something new is put at the front.
LEMMA PrependDistinct ==
  ASSUME NEW S, NEW q \in Seq(S), NEW x \in S, x \notin Range(q), IsInjective(q)
  PROVE  /\ <<x>> \o q \in Seq(S)
         /\ Range(<<x>> \o q) = Range(q) \cup {x}
         /\ IsInjective(<<x>> \o q)
<1> DEFINE r == <<x>> \o q
<1>1. /\ r \in Seq(S) /\ Len(r) = 1 + Len(q)
      /\ \A i \in 1 .. 1 + Len(q) : r[i] = IF i <= 1 THEN <<x>>[i] ELSE q[i - 1]
  <2>1. <<x>> \in Seq(S) /\ Len(<<x>>) = 1
    OBVIOUS
  <2> QED BY <2>1, ConcatProperties
<1>2. Len(q) \in Nat /\ DOMAIN q = 1 .. Len(q) /\ DOMAIN r = 1 .. 1 + Len(q)
  BY <1>1, LenProperties
<1> HIDE DEF r
<1>3. r[1] = x /\ 1 \in DOMAIN r
  BY <1>1, <1>2
<1>4. \A i \in DOMAIN r : i # 1 => i - 1 \in DOMAIN q /\ r[i] = q[i - 1]
  BY <1>1, <1>2
<1>5. \A i \in DOMAIN q : i + 1 \in DOMAIN r /\ r[i + 1] = q[i]
  <2> TAKE i \in DOMAIN q
  <2>1. i + 1 \in DOMAIN r /\ i + 1 # 1 /\ (i + 1) - 1 = i
    BY <1>2
  <2> QED BY <1>4, <2>1
<1>6. Range(r) = Range(q) \cup {x}
  BY <1>3, <1>4, <1>5 DEF Range
<1>7. IsInjective(r)
  <2> SUFFICES ASSUME NEW i \in DOMAIN r, NEW j \in DOMAIN r, r[i] = r[j], i # j PROVE FALSE
    BY DEF IsInjective
  <2>1. i # 1 /\ j # 1
    BY <1>3, <1>4 DEF Range
  <2>2. i - 1 = j - 1
    BY <1>4, <2>1 DEF IsInjective
  <2> QED BY <1>2, <2>2
<1> QED BY <1>1, <1>6, <1>7 DEF r

\* One entry is erased, wherever it is.
LEMMA RemoveFirstDistinct ==
  ASSUME NEW S, NEW q \in Seq(S), NEW x, IsInjective(q)
  PROVE  /\ RemoveFirst(q, x) \in Seq(S)
         /\ Range(RemoveFirst(q, x)) = Range(q) \ {x}
         /\ IsInjective(RemoveFirst(q, x))
<1>1. Len(q) \in Nat /\ DOMAIN q = 1 .. Len(q) /\ \A i \in DOMAIN q : q[i] \in S
  BY LenProperties, ElementOfSeq
<1>2. CASE x \notin Range(q)
  <2>1. RemoveFirst(q, x) = q
    BY <1>1, <1>2 DEF RemoveFirst, Range
  <2> QED BY <1>2, <2>1
<1>3. CASE x \in Range(q)
  <2>1. PICK p \in 1 .. Len(q) : q[p] = x
    BY <1>1, <1>3 DEF Range
  <2>2. RemoveFirst(q, x) = RemoveAt(q, p)
    <3>1. {i \in 1 .. Len(q) : q[i] = x} = {p}
      BY <1>1, <2>1 DEF IsInjective
    <3>2. Min({p}) = p
      BY <1>1, <2>1 DEF Min
    <3>3. SelectInSeq(q, LAMBDA v : v = x) = p
      BY <3>1, <3>2, Zenon DEF SelectInSeq
    <3> QED BY <2>1, <3>3, Zenon DEF RemoveFirst
  <2> DEFINE a == SubSeq(q, 1, p - 1)
             b == SubSeq(q, p + 1, Len(q))
             r == a \o b
  <2>3. /\ a \in Seq(S) /\ Len(a) = p - 1
        /\ \A i \in 1 .. p - 1 : a[i] = q[i]
    <3>1. \A i \in 1 .. p - 1 : q[i] \in S
      BY <1>1
    <3> QED BY <1>1, <3>1, SubSeqProperties
  <2>4. /\ b \in Seq(S) /\ Len(b) = Len(q) - p
        /\ \A i \in 1 .. Len(q) - p : b[i] = q[p + i]
    <3>1. \A i \in p + 1 .. Len(q) : q[i] \in S
      BY <1>1
    <3>2. /\ b \in Seq(S) /\ Len(b) = IF p + 1 <= Len(q) THEN Len(q) - (p + 1) + 1 ELSE 0
          /\ \A i \in 1 .. Len(q) - (p + 1) + 1 : b[i] = q[(p + 1) + i - 1]
      BY <1>1, <3>1, SubSeqProperties
    <3> HIDE DEF b
    <3>3. Len(b) = Len(q) - p
      <4>1. Len(q) \in Nat /\ p \in Nat /\ p <= Len(q)
        BY <1>1
      <4>2. Len(b) = IF p + 1 <= Len(q) THEN Len(q) - (p + 1) + 1 ELSE 0
        BY <3>2
      <4>3. CASE p + 1 <= Len(q)
        BY ONLY <4>1, <4>2, <4>3
      <4>4. CASE p = Len(q)
        BY ONLY <4>1, <4>2, <4>4
      <4> QED BY ONLY <4>1, <4>3, <4>4
    <3>4. \A i \in 1 .. Len(q) - p : i \in 1 .. Len(q) - (p + 1) + 1 /\ (p + 1) + i - 1 = p + i
      BY <1>1, <2>1
    <3> QED BY <3>2, <3>3, <3>4
  <2> HIDE DEF a, b
  <2>5. /\ r \in Seq(S) /\ Len(r) = Len(a) + Len(b)
        /\ \A i \in 1 .. Len(a) + Len(b) : r[i] = IF i <= Len(a) THEN a[i] ELSE b[i - Len(a)]
    BY <2>3, <2>4, ConcatProperties
  <2> HIDE DEF r
  <2>6. DOMAIN r = 1 .. Len(q) - 1
    BY <1>1, <2>3, <2>4, <2>5, LenProperties
  <2>7. \A i \in DOMAIN r :
          \/ i < p /\ i \in DOMAIN q /\ r[i] = q[i]
          \/ i >= p /\ i + 1 \in DOMAIN q /\ r[i] = q[i + 1]
    <3> TAKE i \in DOMAIN r
    <3>1. CASE i < p
      <4>1. i \in 1 .. p - 1 /\ i \in DOMAIN q /\ i \in 1 .. Len(a) + Len(b) /\ i <= Len(a)
        BY <1>1, <2>1, <2>3, <2>4, <2>6, <3>1
      <4> QED BY <2>3, <2>5, <3>1, <4>1
    <3>2. CASE i >= p
      <4>1. i + 1 \in DOMAIN q /\ i - (p - 1) \in 1 .. Len(q) - p /\ p + (i - (p - 1)) = i + 1
        BY <1>1, <2>6, <3>2
      <4>2. r[i] = b[i - (p - 1)]
        <5>1. Len(a) = p - 1 /\ Len(b) = Len(q) - p
          BY <2>3, <2>4
        <5>2. i \in 1 .. Len(q) - 1 /\ Len(q) \in Nat
          BY <1>1, <2>6
        <5>3. i \in 1 .. Len(a) + Len(b) /\ ~(i <= Len(a))
          BY ONLY <3>2, <5>1, <5>2, p \in 1 .. Len(q)
        <5>4. r[i] = IF i <= Len(a) THEN a[i] ELSE b[i - Len(a)]
          BY ONLY <2>5, <5>3
        <5> QED BY ONLY <5>1, <5>3, <5>4
      <4>3. b[i - (p - 1)] = q[p + (i - (p - 1))]
        BY <2>4, <4>1
      <4> QED BY <3>2, <4>1, <4>2, <4>3
    <3> QED BY <1>1, <2>6, <3>1, <3>2
  <2>8. \A i \in DOMAIN q : i # p => \E j \in DOMAIN r : r[j] = q[i]
    <3> SUFFICES ASSUME NEW i \in DOMAIN q, i # p PROVE \E j \in DOMAIN r : r[j] = q[i]
      OBVIOUS
    <3>1. CASE i < p
      BY <1>1, <2>6, <2>7, <3>1
    <3>2. CASE i > p
      <4>1. i - 1 \in DOMAIN r /\ i - 1 >= p /\ (i - 1) + 1 = i
        BY <1>1, <2>6, <3>2
      <4>2. r[i - 1] = q[(i - 1) + 1]
        BY <2>7, <4>1
      <4> QED BY <4>1, <4>2
    <3> QED BY <1>1, <3>1, <3>2
  <2>9. Range(r) = Range(q) \ {x}
    BY <1>1, <2>1, <2>6, <2>7, <2>8, SMTT(40) DEF Range, IsInjective
  <2>10. IsInjective(r)
    BY <1>1, <2>6, <2>7 DEF IsInjective
  <2>11. RemoveFirst(q, x) = r
    BY <2>2 DEF RemoveAt, r, a, b
  <2> QED BY <2>5, <2>9, <2>10, <2>11
<1> QED BY <1>2, <1>3

-----------------------------------------------------------------------------
(* The three safety properties are inductive together.                     *)

QueueInv == NothingLost /\ NoIdleBacklog /\ WaitersAccounted

\* The constructor's queue is empty.
LEMMA QueueInit == Init => QueueInv
<1> SUFFICES ASSUME Init PROVE QueueInv
  OBVIOUS
<1> USE QueueAssumption DEF Init
<1>1. <<>> \in Seq(Notifications) /\ <<>> \in Seq(Consumers) /\ Range(<<>>) = {}
  BY EmptySeq DEF Range
<1>2. nfAvailable \in [Consumers -> BOOLEAN]
  BY Zenon
<1>3. QueueTypeOK
  BY <1>1, <1>2 DEF QueueTypeOK
<1>4. NothingLost
  BY <1>1, <1>3 DEF NothingLost, Waiting
<1>5. NoIdleBacklog /\ WaitersAccounted
  BY DEF NoIdleBacklog, WaitersAccounted, Waiting
<1> QED BY <1>4, <1>5 DEF QueueInv

\* Every step preserves the invariant.
LEMMA QueueStep == QueueInv /\ [Next]_queueVars => QueueInv'
<1> SUFFICES ASSUME QueueInv, [Next]_queueVars PROVE QueueInv'
  OBVIOUS
<1> USE QueueAssumption DEF QueueInv, NothingLost, NoIdleBacklog, WaitersAccounted, QueueTypeOK, Waiting
<1>0. IsInjective(nfQueue) /\ IsInjective(waitQueue)
  BY DEF IsInjective
<1>1. ASSUME NEW n \in Notifications, n \notin accepted, accepted' = accepted \cup {n}, HandOver(n), UNCHANGED cpc
      PROVE  QueueInv'
  <2> DEFINE h == Head(waitQueue)
  <2>1. /\ h \in Consumers /\ waitQueue' \in Seq(Consumers) /\ h \in Range(waitQueue)
        /\ Range(waitQueue') = Range(waitQueue) \ {h} /\ IsInjective(waitQueue')
    BY <1>0, <1>1, TailDistinct DEF HandOver
  <2>2. cpc[h] \in Waiting /\ pNf[h] = None /\ ~nfAvailable[h]
    BY <2>1 DEF Range
  <2>3. /\ nfAvailable' \in [Consumers -> BOOLEAN]
        /\ \A c \in Consumers : nfAvailable'[c] <=> nfAvailable[c] \/ c = h
    BY <1>1 DEF HandOver, Signalled
  <2>4. UNCHANGED nfQueue /\ pNf' = [pNf EXCEPT ![h] = n]
    BY <1>1 DEF HandOver
  <2>5. nfQueue = <<>>
    BY <1>1 DEF HandOver
  <2> HIDE DEF h
  <2>6. QueueTypeOK'
    BY <1>1, <2>1, <2>3, <2>4
  <2>7. NothingLost'
    BY <1>1, <2>1, <2>2, <2>4, <2>6
  <2>8. NoIdleBacklog'
    BY <2>4, <2>5
  <2>9. WaitersAccounted'
    <3>1. \A i \in DOMAIN waitQueue' : \E j \in DOMAIN waitQueue : waitQueue[j] = waitQueue'[i] /\ waitQueue'[i] # h
      BY <2>1, RangeIndex
    <3>2. \A c \in Consumers \ {h} : c \in Range(waitQueue) => c \in Range(waitQueue')
      BY <2>1
    <3> QED BY <1>1, <2>1, <2>2, <2>3, <2>4, <3>1, <3>2 DEF IsInjective
  <2> QED BY <2>7, <2>8, <2>9
<1>2. ASSUME NEW n \in Notifications, n \notin accepted, accepted' = accepted \cup {n},
             waitQueue = <<>>, nfQueue' \in {Append(nfQueue, n), <<n>> \o nfQueue},
             UNCHANGED <<waitQueue, pNf, nfAvailable, cpc>>
      PROVE  QueueInv'
  <2>1. n \notin Range(nfQueue)
    BY <1>2
  <2>2. /\ nfQueue' \in Seq(Notifications) /\ Range(nfQueue') = Range(nfQueue) \cup {n}
        /\ IsInjective(nfQueue')
    <3>1. CASE nfQueue' = Append(nfQueue, n)
      BY <1>0, <1>2, <2>1, <3>1, AppendDistinct
    <3>2. CASE nfQueue' = <<n>> \o nfQueue
      BY <1>0, <1>2, <2>1, <3>2, PrependDistinct
    <3> QED BY <1>2, <3>1, <3>2
  <2>3. NothingLost'
    BY <1>2, <2>2 DEF IsInjective
  <2>4. NoIdleBacklog' /\ WaitersAccounted'
    BY <1>2
  <2> QED BY <2>3, <2>4
<1>3. ASSUME NEW n \in Notifications, EnqueueNotification(n) PROVE QueueInv'
  BY <1>1, <1>2, <1>3 DEF EnqueueNotification
<1>4. ASSUME NEW n \in Notifications, EnqueueUrgentNotification(n) PROVE QueueInv'
  BY <1>1, <1>2, <1>4 DEF EnqueueUrgentNotification, UrgentGoes, UrgentQueues
<1>5. ASSUME NEW c \in Consumers, TakeFirst(c) PROVE QueueInv'
  <2>1. /\ nfQueue' \in Seq(Notifications) /\ Head(nfQueue) \in Range(nfQueue)
        /\ Range(nfQueue') = Range(nfQueue) \ {Head(nfQueue)} /\ IsInjective(nfQueue')
    BY <1>0, <1>5, TailDistinct DEF TakeFirst
  <2>2. NothingLost'
    BY <1>5, <2>1 DEF TakeFirst, IsInjective
  <2>3. NoIdleBacklog' /\ WaitersAccounted'
    BY <1>5 DEF TakeFirst
  <2> QED BY <2>2, <2>3
<1>6. ASSUME NEW c \in Consumers, BeginWait(c) PROVE QueueInv'
  <2>1. PICK w \in {"wait", "timedWait"} : cpc' = [cpc EXCEPT ![c] = w]
    BY <1>6 DEF BeginWait
  <2>2. c \notin Range(waitQueue)
    BY <1>6 DEF BeginWait, Range
  <2>3. /\ waitQueue' \in Seq(Consumers) /\ Range(waitQueue') = Range(waitQueue) \cup {c}
        /\ IsInjective(waitQueue')
    BY <1>0, <1>6, <2>2, AppendDistinct DEF BeginWait
  <2>4. /\ nfQueue = <<>> /\ nfQueue' = nfQueue /\ accepted' = accepted /\ cpc[c] = "app"
        /\ pNf' = [pNf EXCEPT ![c] = None]
        /\ nfAvailable' = [nfAvailable EXCEPT ![c] = FALSE]
    BY <1>6 DEF BeginWait
  <2>5. QueueTypeOK'
    BY <2>1, <2>3, <2>4
  <2>6. NothingLost'
    BY <2>1, <2>4, <2>5
  <2>7. WaitersAccounted'
    <3>1. \A i \in DOMAIN waitQueue' :
            waitQueue'[i] = c \/ \E j \in DOMAIN waitQueue : waitQueue[j] = waitQueue'[i] /\ waitQueue'[i] # c
      BY <2>2, <2>3, RangeIndex
    <3>2. \A d \in Consumers : d = c \/ d \in Range(waitQueue) => d \in Range(waitQueue')
      BY <2>3
    <3> QED BY <2>1, <2>3, <2>4, <3>1, <3>2 DEF IsInjective
  <2> QED BY <2>4, <2>6, <2>7
<1>7. ASSUME NEW c \in Consumers, cpc[c] \in Waiting, Leave(c), UNCHANGED nfQueue,
             waitQueue' \in Seq(Consumers), Range(waitQueue') = Range(waitQueue) \ {c},
             IsInjective(waitQueue')
      PROVE  QueueInv'
  <2>1. /\ cpc' = [cpc EXCEPT ![c] = "app"] /\ pNf' = [pNf EXCEPT ![c] = None]
        /\ nfAvailable' = [nfAvailable EXCEPT ![c] = FALSE] /\ accepted' = accepted \ {pNf[c]}
    BY <1>7 DEF Leave, Handed
  <2>2. QueueTypeOK'
    BY <1>7, <2>1
  <2>3. NothingLost'
    BY <1>7, <2>1, <2>2
  <2>4. NoIdleBacklog'
    <3>1. waitQueue' # <<>> => waitQueue # <<>>
      <4>1. Range(<<>>) = {}
        BY DEF Range
      <4>2. waitQueue' # <<>> => Range(waitQueue') # {}
        <5>1. waitQueue' # <<>> => Len(waitQueue') \in Nat \ {0} /\ DOMAIN waitQueue' = 1 .. Len(waitQueue')
          BY <1>7, EmptySeq, LenProperties
        <5>2. waitQueue' # <<>> => 1 \in DOMAIN waitQueue'
          BY <5>1
        <5> QED BY <5>2, RangeIndex, ZenonT(40)
      <4> QED BY <1>7, <4>1, <4>2
    <3> QED BY <1>7, <3>1
  <2>5. WaitersAccounted'
    <3>1. \A i \in DOMAIN waitQueue' : \E j \in DOMAIN waitQueue : waitQueue[j] = waitQueue'[i] /\ waitQueue'[i] # c
      BY <1>7, RangeIndex
    <3>2. \A d \in Consumers \ {c} : d \in Range(waitQueue) => d \in Range(waitQueue')
      BY <1>7
    <3> QED BY <1>7, <2>1, <3>1, <3>2 DEF IsInjective
  <2> QED BY <2>3, <2>4, <2>5
<1>8. ASSUME NEW c \in Consumers, Woken(c) PROVE QueueInv'
  <2>1. Range(waitQueue) = Range(waitQueue) \ {c}
    BY <1>8 DEF Woken, Range
  <2> QED BY <1>0, <1>7, <1>8, <2>1 DEF Woken
<1>9. ASSUME NEW c \in Consumers, AfterTimeOut(c) PROVE QueueInv'
  <2>1. /\ waitQueue' \in Seq(Consumers) /\ Range(waitQueue') = Range(waitQueue) \ {c}
        /\ IsInjective(waitQueue')
    BY <1>0, <1>9, RemoveFirstDistinct DEF AfterTimeOut, Withdrawn
  <2> QED BY <1>7, <1>9, <2>1 DEF AfterTimeOut
<1>10. ASSUME NEW c \in Consumers, TimeOut(c) PROVE QueueInv'
  BY <1>10 DEF TimeOut
<1>11. CASE TakeAll
  <2>1. nfQueue' = <<>> /\ <<>> \in Seq(Notifications) /\ Range(<<>>) = {} /\ DOMAIN <<>> = {}
    BY <1>11, EmptySeq DEF TakeAll, Range
  <2>2. NothingLost'
    BY <1>11, <2>1 DEF TakeAll
  <2>3. NoIdleBacklog' /\ WaitersAccounted'
    BY <1>11 DEF TakeAll
  <2> QED BY <2>2, <2>3
<1>12. CASE WakeUpAll
  <2>1. waitQueue' = <<>> /\ <<>> \in Seq(Consumers) /\ DOMAIN <<>> = {}
    BY <1>12, EmptySeq DEF WakeUpAll
  <2>2. /\ nfAvailable' \in [Consumers -> BOOLEAN]
        /\ \A c \in Consumers : nfAvailable'[c] <=> nfAvailable[c] \/ c \in Range(waitQueue)
    BY <1>12 DEF WakeUpAll, Signalled
  <2>3. UNCHANGED <<nfQueue, pNf, cpc, accepted>>
    BY <1>12 DEF WakeUpAll
  <2> QED BY <2>1, <2>2, <2>3
<1>13. CASE UNCHANGED queueVars
  BY <1>13 DEF queueVars
<1> HIDE DEF QueueInv
<1> QED
  BY <1>3, <1>4, <1>5, <1>6, <1>8, <1>9, <1>10, <1>11, <1>12, <1>13 DEF Next, Consume, Dispatch, Clear

\* The invariant holds of every reachable state.
THEOREM QueueSound == Spec => []QueueInv
  BY QueueInit, QueueStep, PTL DEF Spec

\* No notification is lost or delivered twice, whatever the time-outs and
\* wakeUpAll() do while it is handed over.
THEOREM NotificationsKept == Spec => []NothingLost
<1>1. QueueInv => NothingLost
  BY DEF QueueInv
<1> QED BY <1>1, QueueSound, PTL

\* No consumer waits while there is something to dequeue.
THEOREM BacklogIsServed == Spec => []NoIdleBacklog
<1>1. QueueInv => NoIdleBacklog
  BY DEF QueueInv
<1> QED BY <1>1, QueueSound, PTL

\* _waitQueue holds only live WaitInfo objects, each one once, and everyone
\* who sleeps without having been signalled is in it.
THEOREM WaitersReachable == Spec => []WaitersAccounted
<1>1. QueueInv => WaitersAccounted
  BY DEF QueueInv
<1> QED BY <1>1, QueueSound, PTL
=============================================================================
