-------------------------- MODULE SessionPoolProofs -------------------------
(***************************************************************************)
(* Theorems about SessionPool, for any number of clients and sessions and  *)
(* any minSessions <= maxSessions.                                         *)
(***************************************************************************)
EXTENDS SessionPool, FiniteSetTheorems, TLAPS

\* The lists are finite, and what _nSessions counts.
ListInv ==
    /\ IsFiniteSet(idleSessions) /\ IsFiniteSet(activeSessions)
    /\ nSessions = Cardinality(idleSessions) + Cardinality(activeSessions)
    /\ idleSessions \cap activeSessions = {}

\* The mutex is held across steps by the client inside shutdown() only.
LockInv ==
    /\ \A c \in Clients : mutex = c <=> cpc[c] = "stopping"
    /\ mutex # None => shut

\* Until the last step of shutdown() the sessions in use are the clients', and
\* after it the lists are empty; a session that is connected and in no list is
\* with its client, and shutdown() has failed to close it.
HolderInv ==
    /\ \A c, d \in Clients : held[c] = held[d] /\ c # d => held[c] = None
    /\ \A c \in Clients : cpc[c] \in {"setFeature", "putBack"} => held[c] # None
    /\ \A c \in Clients : cpc[c] \notin {"app", "setFeature", "putBack"} => held[c] = None
    /\ ~shut \/ mutex # None =>
         activeSessions = {s \in Sessions : \E c \in Clients : held[c] = s}
    /\ shut /\ mutex = None => idleSessions = {} /\ activeSessions = {}
    /\ \A s \in Sessions : connected[s] =>
         \/ s \in idleSessions \cup activeSessions
         \/ s \in unclosed /\ \E c \in Clients : held[c] = s

\* putBack() only ever sees a session whose transaction is over, or which is
\* not connected any more.
CleanInv ==
    /\ IdleSessionsClean
    /\ \A c \in Clients : cpc[c] = "putBack" => ~transaction[held[c]] \/ ~connected[held[c]]

SPInv == SPTypeOK /\ ListInv /\ LockInv /\ HolderInv /\ CleanInv

\* The constructor establishes the invariant.
LEMMA SPInvInit == SPInit => SPInv
<1> SUFFICES ASSUME SPInit PROVE SPInv
  OBVIOUS
<1> USE SessionPoolAssumption DEF SPInit
<1>1. SPTypeOK
  <2>1. /\ shut \in BOOLEAN /\ featureMap \in BOOLEAN
        /\ connected \in [Sessions -> BOOLEAN] /\ transaction \in [Sessions -> BOOLEAN]
        /\ feature \in [Sessions -> BOOLEAN] /\ expired \in [Sessions -> BOOLEAN]
    BY Zenon
  <2> QED BY <2>1 DEF SPTypeOK
<1>2. ListInv
  BY FS_EmptySet DEF ListInv
<1>3. LockInv
  BY DEF LockInv
<1>4. HolderInv
  BY DEF HolderInv
<1>5. CleanInv
  BY DEF CleanInv, IdleSessionsClean
<1> QED BY <1>1, <1>2, <1>3, <1>4, <1>5 DEF SPInv

\* What Disconnected() returns.
LEMMA DisconnectedFlags ==
  ASSUME connected \in [Sessions -> BOOLEAN], NEW S
  PROVE  /\ Disconnected(S) \in [Sessions -> BOOLEAN]
         /\ \A s \in Sessions : Disconnected(S)[s] <=> s \notin S /\ connected[s]
<1>1. Disconnected(S) \in [Sessions -> BOOLEAN]
  BY Zenon DEF Disconnected
<1> QED BY <1>1 DEF Disconnected

\* purgeDeadSessions(): the live sessions, and the count that is left.
LEMMA Purge ==
  ASSUME SPInv
  PROVE  /\ IsFiniteSet(Alive) /\ Alive \subseteq idleSessions
         /\ PurgedCount = Cardinality(Alive) + Cardinality(activeSessions)
         /\ PurgedCount \in 0 .. MaxSessions
         /\ \A s \in Alive : connected[s]
         /\ Cardinality(Alive) \in Nat /\ Cardinality(activeSessions) \in Nat
<1> USE DEF SPInv, SPTypeOK, ListInv
<1>1. IsFiniteSet(Dead) /\ Dead \subseteq idleSessions
  BY FS_Subset DEF Dead
<1>2. /\ IsFiniteSet(Alive)
      /\ Cardinality(Alive) = Cardinality(idleSessions) - Cardinality(idleSessions \cap Dead)
  BY <1>1, FS_Difference DEF Alive
<1>3. Cardinality(Alive) = Cardinality(idleSessions) - Cardinality(Dead)
  <2>1. idleSessions \cap Dead = Dead
    BY <1>1
  <2> QED BY <1>2, <2>1, Zenon
<1>4. /\ Cardinality(Dead) \in Nat /\ Cardinality(idleSessions) \in Nat
      /\ Cardinality(activeSessions) \in Nat /\ Cardinality(Alive) \in Nat
  BY <1>1, <1>2, FS_CardinalityType
<1>5. PurgedCount = Cardinality(Alive) + Cardinality(activeSessions)
  BY <1>2, <1>3, <1>4 DEF PurgedCount
<1>6. \A s \in Alive : connected[s]
  BY DEF Alive, Dead
<1>7. PurgedCount <= nSessions
  BY <1>4 DEF PurgedCount
<1> QED BY <1>2, <1>4, <1>5, <1>6, <1>7, SessionPoolAssumption DEF Alive

\* Every step preserves the invariant.
LEMMA SPInvStep == SPInv /\ [SPNext]_spVars => SPInv'
<1> SUFFICES ASSUME SPInv, [SPNext]_spVars PROVE SPInv'
  OBVIOUS
<1> USE SessionPoolAssumption
    DEF SPInv, SPTypeOK, ListInv, LockInv, HolderInv, CleanInv, IdleSessionsClean,
        Goto, poolVars, listVars, sessionVars
<1>1. ASSUME NEW c \in Clients, NEW o \in {"get", "getFeature", "shutdown"}, Call(c, o) PROVE SPInv'
  BY <1>1 DEF Call
<1>2. ASSUME NEW c \in Clients, SetPoolFeature(c) PROVE SPInv'
  <2>1. Cardinality(idleSessions) \in Nat /\ Cardinality(activeSessions) \in Nat
    BY FS_CardinalityType
  <2>2. idleSessions = {}
    BY <1>2, <2>1, FS_EmptySet DEF SetPoolFeature
  <2> QED BY <1>2, <2>2 DEF SetPoolFeature
<1>3. ASSUME NEW c \in Clients, UseSession(c) PROVE SPInv'
  <2>1. held[c] \in Sessions /\ held[c] \notin idleSessions
    BY <1>3 DEF UseSession
  <2> QED BY <1>3, <2>1 DEF UseSession
<1>4. ASSUME NEW c \in Clients, CloseSession(c) PROVE SPInv'
  <2>1. held[c] \in Sessions
    BY <1>4 DEF CloseSession
  <2>2. /\ connected' \in [Sessions -> BOOLEAN] /\ transaction' \in [Sessions -> BOOLEAN]
        /\ \A s \in Sessions : connected'[s] => connected[s]
        /\ \A s \in Sessions : transaction'[s] => transaction[s]
        /\ ~transaction'[held[c]] \/ ~connected'[held[c]]
    <3>1. CASE ~transaction[held[c]] /\ UNCHANGED <<transaction, connected>>
      BY <2>1, <3>1
    <3>2. CASE UNCHANGED connected /\ transaction' = [transaction EXCEPT ![held[c]] = FALSE]
      BY <2>1, <3>2
    <3>3. CASE UNCHANGED transaction /\ connected' = [connected EXCEPT ![held[c]] = FALSE]
      BY <2>1, <3>3
    <3> QED BY <1>4, <3>1, <3>2, <3>3 DEF CloseSession, ClosedForFailure
  <2>3. SPTypeOK'
    BY <1>4, <2>2 DEF CloseSession
  <2>4. ListInv' /\ LockInv'
    BY <1>4 DEF CloseSession
  <2>5. HolderInv'
    BY <1>4, <2>2 DEF CloseSession
  <2>6. CleanInv'
    BY <1>4, <2>1, <2>2 DEF CloseSession
  <2> QED BY <2>3, <2>4, <2>5, <2>6
<1>5. ASSUME NEW c \in Clients, NEW s \in Sessions, Recycle(c, s) PROVE SPInv'
  <2>1. /\ IsFiniteSet(activeSessions') /\ IsFiniteSet(idleSessions')
        /\ Cardinality(activeSessions') = Cardinality(activeSessions) + 1
        /\ Cardinality(idleSessions') = Cardinality(Alive) - 1
    BY <1>5, Purge, FS_AddElement, FS_RemoveElement DEF Recycle, HandOut
  <2>2. \A d \in Clients : held[d] # s
    BY <1>5, Purge DEF Recycle, Gets
  <2>3. SPTypeOK' /\ ListInv' /\ LockInv'
    BY <1>5, <2>1, Purge DEF Recycle, HandOut, Gets
  <2>4. HolderInv'
    BY <1>5, <2>1, <2>2, Purge DEF Recycle, HandOut, Gets, Alive, Dead
  <2>5. CleanInv'
    BY <1>5, <2>1, <2>2, Purge DEF Recycle, HandOut, Gets
  <2> QED BY <2>3, <2>4, <2>5
<1>6. ASSUME NEW c \in Clients, NEW s \in Sessions, CreateSession(c, s) PROVE SPInv'
  <2>1. /\ IsFiniteSet(activeSessions') /\ idleSessions' = {}
        /\ Cardinality(activeSessions') = Cardinality(activeSessions) + 1
    BY <1>6, FS_AddElement DEF CreateSession, HandOut
  <2>2. SPTypeOK' /\ ListInv' /\ LockInv'
    BY <1>6, <2>1, Purge, FS_EmptySet DEF CreateSession, HandOut, Gets
  <2>3. HolderInv'
    BY <1>6, <2>1 DEF CreateSession, HandOut, Gets, Alive, Dead
  <2>4. CleanInv'
    BY <1>6, <2>1 DEF CreateSession, HandOut, Gets
  <2> QED BY <2>2, <2>3, <2>4
<1>7. ASSUME NEW c \in Clients, GetFails(c) PROVE SPInv'
  BY <1>7, Purge, FS_EmptySet DEF GetFails, Gets, Alive, Dead
<1>8. ASSUME NEW c \in Clients, GetShut(c) PROVE SPInv'
  BY <1>8 DEF GetShut
<1>9. ASSUME NEW c \in Clients, SetSessionFeature(c) PROVE SPInv'
  <2>1. held[c] \in Sessions /\ held[c] \notin idleSessions
    BY <1>9 DEF SetSessionFeature
  <2> QED BY <1>9, <2>1 DEF SetSessionFeature, Pointers
<1>10. ASSUME NEW c \in Clients, PutBack(c) PROVE SPInv'
  <2> DEFINE s == held[c]
  <2>1. s \in Sessions /\ (~shut => s \in activeSessions /\ s \notin idleSessions)
    BY <1>10 DEF PutBack
  <2>2. CASE ~shut /\ connected[s]
    <3>1. /\ IsFiniteSet(activeSessions') /\ IsFiniteSet(idleSessions')
          /\ Cardinality(activeSessions') = Cardinality(activeSessions) - 1
          /\ Cardinality(idleSessions') = Cardinality(idleSessions) + 1
          /\ Cardinality(activeSessions) \in Nat /\ Cardinality(idleSessions) \in Nat
      BY <1>10, <2>1, <2>2, FS_AddElement, FS_RemoveElement, FS_CardinalityType DEF PutBack
    <3>2. SPTypeOK' /\ ListInv' /\ LockInv'
      BY <1>10, <2>1, <2>2, <3>1 DEF PutBack, Restored
    <3>3. HolderInv'
      BY <1>10, <2>1, <2>2 DEF PutBack
    <3>4. CleanInv'
      BY <1>10, <2>1, <2>2 DEF PutBack, Restored
    <3> QED BY <3>2, <3>3, <3>4
  <2>3. CASE ~shut /\ ~connected[s]
    <3>1. /\ IsFiniteSet(activeSessions')
          /\ Cardinality(activeSessions') = Cardinality(activeSessions) - 1
          /\ Cardinality(activeSessions') \in Nat /\ Cardinality(activeSessions) \in Nat
          /\ Cardinality(idleSessions) \in Nat
      BY <1>10, <2>1, <2>3, FS_RemoveElement, FS_CardinalityType DEF PutBack
    <3>2. nSessions' = nSessions - 1 /\ nSessions' \in 0 .. MaxSessions
      BY <1>10, <2>3, <3>1 DEF PutBack
    <3>3. SPTypeOK' /\ ListInv' /\ LockInv'
      BY <1>10, <2>1, <2>3, <3>1, <3>2 DEF PutBack
    <3>4. HolderInv'
      BY <1>10, <2>1, <2>3 DEF PutBack
    <3>5. CleanInv'
      BY <1>10, <2>1, <2>3 DEF PutBack
    <3> QED BY <3>3, <3>4, <3>5
  <2>4. CASE shut
    <3>1. /\ connected' \in [Sessions -> BOOLEAN]
          /\ \A t \in Sessions : connected'[t] <=> t \notin {s} /\ connected[t]
      <4>1. connected' = Disconnected({s})
        BY <1>10, <2>4 DEF PutBack
      <4> QED BY <4>1, DisconnectedFlags, ZenonT(40)
    <3>2. /\ cpc[c] = "putBack" /\ mutex = None
          /\ held' = [held EXCEPT ![c] = None] /\ Goto(c, "app")
          /\ UNCHANGED <<feature, listVars, mutex, shut, featureMap, addFeatureMap, transaction, expired, jpc, unclosed>>
      BY <1>10, <2>4, Zenon DEF PutBack
    <3>3. SPTypeOK' /\ ListInv' /\ LockInv'
      BY <2>1, <2>4, <3>1, <3>2
    <3>4. HolderInv'
      BY <2>1, <2>4, <3>1, <3>2
    <3>5. CleanInv'
      BY <2>1, <2>4, <3>1, <3>2
    <3> QED BY <3>3, <3>4, <3>5
  <2> QED BY <2>2, <2>3, <2>4
<1>11. CASE Fire
  BY <1>11 DEF Fire
<1>12. CASE OnJanitorTimer
  <2> DEFINE old == {s \in idleSessions : expired[s] \/ ~connected[s]}
             n   == IF Cardinality(old) <= Surplus THEN Cardinality(old)
                    ELSE IF Surplus > 0 THEN Surplus ELSE 0
  <2>1. PICK closed \in SUBSET old :
          /\ Cardinality(closed) = n
          /\ idleSessions' = idleSessions \ closed
          /\ nSessions' = nSessions - n
          /\ connected' = Disconnected(closed)
    BY <1>12 DEF OnJanitorTimer
  <2>2. /\ IsFiniteSet(closed) /\ IsFiniteSet(idleSessions')
        /\ Cardinality(idleSessions') = Cardinality(idleSessions) - Cardinality(idleSessions \cap closed)
    BY <2>1, FS_Subset, FS_Difference
  <2>3. Cardinality(idleSessions') = Cardinality(idleSessions) - Cardinality(closed)
    <3>1. idleSessions \cap closed = closed
      OBVIOUS
    <3> QED BY <2>2, <3>1, Zenon
  <2>4. /\ Cardinality(closed) \in Nat /\ Cardinality(idleSessions) \in Nat
        /\ Cardinality(idleSessions') \in Nat /\ Cardinality(activeSessions) \in Nat
    BY <2>2, FS_CardinalityType
  <2> HIDE DEF n, old
  <2>5. nSessions' \in 0 .. MaxSessions
    BY <2>1, <2>3, <2>4
  <2>6. /\ connected' \in [Sessions -> BOOLEAN]
        /\ \A s \in Sessions : connected'[s] <=> s \notin closed /\ connected[s]
    BY <2>1, DisconnectedFlags, ZenonT(40)
  <2>7. SPTypeOK'
    BY <1>12, <2>1, <2>5, <2>6 DEF OnJanitorTimer
  <2>8. ListInv' /\ LockInv'
    BY <1>12, <2>1, <2>2, <2>3, <2>4 DEF OnJanitorTimer
  <2>9. HolderInv' /\ CleanInv'
    BY <1>12, <2>1, <2>6 DEF OnJanitorTimer
  <2> QED BY <2>7, <2>8, <2>9
<1>13. ASSUME NEW c \in Clients, Shutdown(c) PROVE SPInv'
  BY <1>13 DEF Shutdown
<1>14. CASE StopTimer
  BY <1>14 DEF StopTimer
<1>15. ASSUME NEW c \in Clients, CloseAll(c) PROVE SPInv'
  <2>1. Cardinality(ClosedByShutdown) = nSessions
    <3>1. Cardinality(idleSessions \cap activeSessions) = 0
      BY FS_EmptySet
    <3>2. Cardinality(ClosedByShutdown)
            = Cardinality(idleSessions) + Cardinality(activeSessions) - Cardinality(idleSessions \cap activeSessions)
      BY FS_Union DEF ClosedByShutdown
    <3> QED BY <3>1, <3>2, FS_CardinalityType
  <2>2. idleSessions' = {} /\ activeSessions' = {} /\ nSessions' = 0 /\ mutex' = None
    BY <1>15, <2>1 DEF CloseAll, ClosedByShutdown, MutexAfter
  <2>3. PICK failed \in SUBSET (ClosedByShutdown \cap activeSessions) :
          connected' = Disconnected(ClosedByShutdown \ failed) /\ unclosed' = failed
    BY <1>15 DEF CloseAll
  <2>4. /\ connected' \in [Sessions -> BOOLEAN]
        /\ \A s \in Sessions : connected'[s] <=> s \notin ClosedByShutdown \ failed /\ connected[s]
    BY <2>3, DisconnectedFlags, ZenonT(40)
  <2>5. /\ cpc[c] = "stopping" /\ Goto(c, "app")
        /\ UNCHANGED <<shut, featureMap, addFeatureMap, transaction, feature, expired, held, jpc>>
    BY <1>15, Zenon DEF CloseAll
  <2>6. SPTypeOK'
    <3>1. unclosed' \subseteq Sessions
      BY <2>3, Zenon
    <3> QED BY <2>2, <2>4, <2>5, <3>1
  <2>7. ListInv' /\ LockInv'
    BY <2>2, <2>5, FS_EmptySet, SMTT(40)
  <2>8. \A s \in failed : \E d \in Clients : held[d] = s
    BY <2>3, <2>5
  <2>9. \A s \in Sessions : connected'[s] => s \in unclosed' /\ \E d \in Clients : held[d] = s
    <3>1. SUFFICES ASSUME NEW s \in Sessions, connected'[s] PROVE s \in failed
      BY <2>3, <2>8
    <3>2. connected[s] /\ s \notin ClosedByShutdown \ failed
      BY <2>4, <3>1
    <3>3. s \in unclosed /\ (\E d \in Clients : held[d] = s) => s \in activeSessions
      BY <2>5
    <3>4. s \in ClosedByShutdown
      BY <3>2, <3>3 DEF ClosedByShutdown
    <3> QED BY <3>2, <3>4
  <2>10. HolderInv'
    BY <2>2, <2>5, <2>9
  <2>11. CleanInv'
    BY <2>2, <2>4, <2>5
  <2> QED BY <2>6, <2>7, <2>10, <2>11
<1>16. ASSUME NEW s \in Sessions, Disconnect(s) PROVE SPInv'
  BY <1>16 DEF Disconnect
<1>17. ASSUME NEW s \in Sessions, Expire(s) PROVE SPInv'
  BY <1>17 DEF Expire
<1>18. CASE UNCHANGED spVars
  BY <1>18 DEF spVars
<1> HIDE DEF SPInv
<1> QED
  BY <1>1, <1>2, <1>3, <1>4, <1>5, <1>6, <1>7, <1>8, <1>9, <1>10, <1>11, <1>12, <1>13, <1>14, <1>15, <1>16, <1>17, <1>18
  DEF SPNext, PoolStep, Janitor, CreateFails, Exhausted

\* The invariant holds of every reachable state.
THEOREM PoolSound == SPSpec => []SPInv
  BY SPInvInit, SPInvStep, PTL DEF SPSpec

\* get(), putBack(), the janitor and shutdown() keep the count exact, a session
\* is never in two lists or in two clients' hands, and the limit is never passed.
THEOREM SessionsExact == SPSpec => []SessionsAccounted
<1>1. SPInv => SessionsAccounted
  BY FS_EmptySet DEF SPInv, ListInv, HolderInv, SessionsAccounted
<1> QED BY <1>1, PoolSound, PTL

\* A session the pool hands out again carries over no open transaction of its
\* last client, and no value of a feature the pool has a default for.
THEOREM CleanHandover == SPSpec => []IdleSessionsClean
<1>1. SPInv => IdleSessionsClean
  BY DEF SPInv, CleanInv
<1> QED BY <1>1, PoolSound, PTL

\* Once shutdown() has returned, every connection that is still open is in the
\* hands of a client, is one whose close() threw, and ends with its session.
THEOREM ClosedAfterShutdown == SPSpec => []ShutdownCloses
<1>1. SPInv => ShutdownCloses
  BY DEF SPInv, HolderInv, ShutdownCloses
<1> QED BY <1>1, PoolSound, PTL
=============================================================================
