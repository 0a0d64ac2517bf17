-------------------------- MODULE ComponentProofs ---------------------------
(***************************************************************************)
(* Proofs about the components that do not interact with each other, for     *)
(* any values of their constants: first what each promises under its own     *)
(* next-state relation, then, at the end, the two properties that speak of   *)
(* several of them under the specification that TLC checks.                  *)
(***************************************************************************)
EXTENDS MCComponents, IntrusiveListTheorems, FiniteSetTheorems

-----------------------------------------------------------------------------
(* TimeoutManager: the lists of timeouts. *)

(* The front of the list decides nextTimeout.                                *)
NextIsFront ==
  nextTimeout = IF timeoutList = <<>> THEN UINT64_MAX ELSE expiration[timeoutList[1]]

(* The inductive invariant: a timeout never expires later than one that is   *)
(* set now would, so appending keeps the list in order.                      *)
TimeoutInv ==
  /\ clock \in 0..MaxTime
  /\ timeoutList \in Seq(Timeout)
  /\ expiration \in [Timeout -> Nat]
  /\ \A x \in Timeout : expiration[x] <= clock + interval
  /\ InExpiryOrder
  /\ NextIsFront

(* Setting x moves it to the end of the list with the latest expiry time.    *)
LEMMA SetLockedInv ==
  ASSUME TimeoutInv, NEW x \in Timeout, SetLocked(x), UNCHANGED clock
  PROVE  TimeoutInv'
<1> DEFINE u == Unlink(timeoutList, x)
<1>0. /\ expiration' = [expiration EXCEPT ![x] = clock + interval]
      /\ timeoutList' = Append(u, x)
      /\ nextTimeout' = expiration'[timeoutList'[1]]
      /\ clock' = clock
  BY DEF SetLocked
<1>1. /\ timeoutList \in Seq(Timeout) /\ Linked(timeoutList)
      /\ Ordered(timeoutList, expiration)
      /\ expiration \in [Timeout -> Nat] /\ clock \in Nat /\ interval \in Nat
      /\ clock \in 0..MaxTime
      /\ \A y \in Timeout : expiration[y] <= clock + interval
  BY IntervalAssumption, TimeAssumption DEF TimeoutInv, InExpiryOrder
<1>2. u \in Seq(Timeout) /\ Linked(u) /\ Elements(u) = Elements(timeoutList) \ {x}
      /\ Ordered(u, expiration)
  BY <1>1, UnlinkLemma
<1> HIDE DEF u
<1>3. /\ timeoutList' \in Seq(Timeout) /\ Len(timeoutList') = Len(u) + 1
      /\ \A i \in 1..Len(u) : timeoutList'[i] = u[i] /\ u[i] # x /\ u[i] \in Timeout
      /\ timeoutList'[Len(u) + 1] = x
      /\ Len(u) \in Nat
  <2>1. timeoutList' \in Seq(Timeout) /\ Len(timeoutList') = Len(u) + 1 /\ Len(u) \in Nat
    BY <1>0, <1>2
  <2>2. \A i \in 1..Len(u) : u[i] \in Elements(u) /\ u[i] \in Timeout
    BY <1>2 DEF Elements
  <2> QED BY <1>0, <1>2, <2>1, <2>2
<1>4. /\ expiration' \in [Timeout -> Nat]
      /\ \A y \in Timeout : expiration'[y] <= clock' + interval
      /\ expiration'[x] = clock + interval
      /\ \A y \in Timeout : y # x => expiration'[y] = expiration[y]
  BY <1>0, <1>1
<1>5. Linked(timeoutList')
  BY <1>2, <1>3 DEF Linked
<1>6. Ordered(timeoutList', expiration')
  <2> SUFFICES ASSUME NEW i \in 1..(Len(u) + 1), NEW j \in 1..(Len(u) + 1), i < j
               PROVE  expiration'[timeoutList'[i]] <= expiration'[timeoutList'[j]]
    BY <1>3 DEF Ordered
  <2>1. CASE j = Len(u) + 1
    BY <1>0, <1>1, <1>3, <1>4, <2>1
  <2>2. CASE j # Len(u) + 1
    <3>1. i \in 1..Len(u) /\ j \in 1..Len(u)
      BY <1>3, <2>2
    <3>2. expiration[u[i]] <= expiration[u[j]]
      BY <1>2, <3>1 DEF Ordered
    <3> QED BY <1>3, <1>4, <3>1, <3>2
  <2> QED BY <2>1, <2>2
<1>7. timeoutList' # <<>>
  BY <1>3
<1> QED BY <1>0, <1>1, <1>3, <1>4, <1>5, <1>6, <1>7 DEF TimeoutInv, InExpiryOrder, NextIsFront

(* Cancelling x leaves the others in their order.                            *)
LEMMA CancelLockedInv ==
  ASSUME TimeoutInv, NEW x \in Timeout, CancelLocked(x), UNCHANGED clock
  PROVE  TimeoutInv'
<1>1. timeoutList \in Seq(Timeout) /\ Linked(timeoutList) /\ Ordered(timeoutList, expiration)
  BY DEF TimeoutInv, InExpiryOrder
<1>2. /\ timeoutList' = Unlink(timeoutList, x) /\ expiration' = expiration
      /\ nextTimeout' = IF timeoutList' = <<>> THEN UINT64_MAX ELSE expiration[timeoutList'[1]]
      /\ clock' = clock
  BY DEF CancelLocked
<1>3. timeoutList' \in Seq(Timeout) /\ Linked(timeoutList') /\ Ordered(timeoutList', expiration)
  BY <1>1, <1>2, UnlinkLemma
<1> QED BY <1>2, <1>3 DEF TimeoutInv, InExpiryOrder, NextIsFront

(* Every step of the clock, the handlers and the pollers keeps it.           *)
LEMMA TimeoutNextInv == TimeoutInv /\ [TimeoutNext]_timeoutVars => TimeoutInv'
<1> SUFFICES ASSUME TimeoutInv, [TimeoutNext]_timeoutVars
             PROVE  TimeoutInv'
  OBVIOUS
<1>1. CASE Tick
  <2>1. /\ clock < MaxTime /\ clock' = clock + 1
        /\ UNCHANGED <<timeoutList, expiration, nextTimeout>>
    BY <1>1 DEF Tick
  <2>2. clock \in Nat /\ clock' \in 0..MaxTime
    BY <2>1, TimeAssumption DEF TimeoutInv
  <2>3. \A x \in Timeout : expiration[x] <= clock' + interval
    BY <2>1, <2>2, IntervalAssumption DEF TimeoutInv
  <2> QED BY <2>1, <2>2, <2>3 DEF TimeoutInv, InExpiryOrder, NextIsFront
<1>2. ASSUME NEW x \in Timeout, SetTimeout(x)
      PROVE  TimeoutInv'
  BY <1>2, SetLockedInv DEF SetTimeout
<1>3. ASSUME NEW x \in Timeout, CancelTimeout(x)
      PROVE  TimeoutInv'
  BY <1>3, CancelLockedInv DEF CancelTimeout
<1>4. ASSUME NEW p \in Poller, HandleElapsed(p)
      PROVE  TimeoutInv'
  <2>1. timeoutList \in Seq(Timeout) /\ timeoutList # <<>> /\ UNCHANGED clock
    BY <1>4 DEF HandleElapsed, FrontElapsed, TimeoutInv
  <2>2. timeoutList[1] \in Timeout
    BY <2>1
  <2> QED BY <1>4, <2>1, <2>2, SetLockedInv, CancelLockedInv DEF HandleElapsed
<1>5. CASE UNCHANGED <<clock, timeoutList, expiration, nextTimeout>>
  BY <1>5 DEF TimeoutInv, InExpiryOrder, NextIsFront
<1>6. ASSUME NEW p \in Poller, ReadClock(p) \/ AnyElapsed(p) \/ StopLoop(p)
      PROVE  TimeoutInv'
  BY <1>5, <1>6 DEF ReadClock, AnyElapsed, StopLoop
<1> QED BY <1>1, <1>2, <1>3, <1>4, <1>5, <1>6 DEF TimeoutNext, Poll, timeoutVars

(* The front of an ordered list has elapsed as soon as any timeout has.      *)
LEMMA FrontDecides == TimeoutInv => AnyElapsedExact
<1> SUFFICES ASSUME TimeoutInv
             PROVE  AnyElapsedExact
  OBVIOUS
<1>1. /\ clock \in Nat /\ clock <= MaxTime /\ timeoutList \in Seq(Timeout)
      /\ expiration \in [Timeout -> Nat] /\ Ordered(timeoutList, expiration)
      /\ InExpiryOrder /\ NextIsFront
  BY TimeAssumption DEF TimeoutInv, InExpiryOrder
<1>2. CASE timeoutList = <<>>
  <2>1. Elements(timeoutList) = {}
    BY <1>2 DEF Elements
  <2>2. ~(clock >= nextTimeout)
    BY <1>1, <1>2, TimeAssumption, IntervalAssumption DEF NextIsFront
  <2> QED BY <1>1, <2>1, <2>2 DEF AnyElapsedExact
<1>3. CASE timeoutList # <<>>
  <2>1. /\ 1 \in 1..Len(timeoutList) /\ timeoutList[1] \in Elements(timeoutList)
        /\ nextTimeout = expiration[timeoutList[1]]
    BY <1>1, <1>3 DEF Elements, NextIsFront
  <2>2. \A i \in 1..Len(timeoutList) : expiration[timeoutList[1]] <= expiration[timeoutList[i]]
        /\ timeoutList[i] \in Timeout
    BY <1>1, <2>1 DEF Ordered
  <2>3. \A x \in Elements(timeoutList) : x \in Timeout /\ expiration[timeoutList[1]] <= expiration[x]
    BY <2>2 DEF Elements
  <2>4. timeoutList[1] \in Timeout
    BY <2>1, <2>2
  <2>5. clock >= nextTimeout <=> \E x \in Elements(timeoutList) : clock >= expiration[x]
    BY <1>1, <2>1, <2>3, <2>4
  <2> QED BY <1>1, <2>5 DEF AnyElapsedExact, hasElapsed
<1> QED BY <1>2, <1>3

(* For any timeouts, pollers and interval, the list stays in expiry order    *)
(* and anyElapsed, which reads nextTimeout without the mutex, is exact.      *)
THEOREM TimeoutsExact ==
  TimeoutInit /\ [][TimeoutNext]_timeoutVars => []AnyElapsedExact
<1>1. TimeoutInit => TimeoutInv
  BY IntervalAssumption, TimeAssumption
     DEF TimeoutInit, TimeoutInv, InExpiryOrder, NextIsFront, Linked, Ordered
<1> QED BY <1>1, TimeoutNextInv, FrontDecides, PTL

-----------------------------------------------------------------------------
(* ObjectPool and QueueEstimator. *)

(* An element put at the end of a sequence without repetitions.              *)
LEMMA AppendFresh ==
  ASSUME NEW S, NEW s \in Seq(S), NEW x \in S, x \notin ToSet(s), IsInjective(s)
  PROVE  /\ Append(s, x) \in Seq(S) /\ IsInjective(Append(s, x))
         /\ ToSet(Append(s, x)) = ToSet(s) \cup {x}
<1> DEFINE r == Append(s, x)
<1>1. /\ r \in Seq(S) /\ Len(r) = Len(s) + 1 /\ Len(s) \in Nat
      /\ DOMAIN s = 1..Len(s) /\ DOMAIN r = 1..(Len(s) + 1)
      /\ \A i \in 1..Len(s) : r[i] = s[i]
      /\ r[Len(s) + 1] = x
  OBVIOUS
<1> HIDE DEF r
<1>2. \A i \in 1..Len(s) : s[i] # x
  BY <1>1 DEF ToSet
<1>3. IsInjective(r)
  BY <1>1, <1>2 DEF IsInjective
<1>4. ToSet(r) = ToSet(s) \cup {x}
  BY <1>1 DEF ToSet
<1> QED BY <1>1, <1>3, <1>4 DEF r

(* A non-empty one without its last element.                                 *)
LEMMA WithoutLast ==
  ASSUME NEW S, NEW s \in Seq(S), s # <<>>, IsInjective(s)
  PROVE  /\ Front(s) \in Seq(S) /\ IsInjective(Front(s))
         /\ Last(s) \in S /\ Last(s) \in ToSet(s) /\ Last(s) \notin ToSet(Front(s))
         /\ ToSet(Front(s)) = ToSet(s) \ {Last(s)}
<1> DEFINE r == Front(s)
<1>1. /\ Len(s) \in Nat /\ Len(s) > 0 /\ DOMAIN s = 1..Len(s)
      /\ r \in Seq(S) /\ DOMAIN r = 1..(Len(s) - 1)
      /\ \A i \in 1..(Len(s) - 1) : r[i] = s[i]
      /\ Last(s) = s[Len(s)] /\ Last(s) \in S
  BY DEF Front, Last
<1> HIDE DEF r
<1>2. IsInjective(r)
  BY <1>1 DEF IsInjective
<1>3. Last(s) \in ToSet(s)
  BY <1>1 DEF ToSet
<1>4. \A i \in 1..(Len(s) - 1) : s[i] # Last(s)
  BY <1>1 DEF IsInjective
<1>5. ToSet(r) = ToSet(s) \ {Last(s)}
  BY <1>1, <1>4 DEF ToSet
<1> QED BY <1>1, <1>2, <1>3, <1>5 DEF r

PoolInv ==
  /\ pool \in Seq(Block) /\ liveObjects \subseteq Block
  /\ IsFiniteSet(liveObjects) /\ PoolExact

(* The block that construct takes is in no object, and in the pool no more.  *)
LEMMA BackingIsFree ==
  ASSUME PoolInv, NEW backing \in Block, TakeBacking(backing)
  PROVE  /\ backing \notin liveObjects /\ backing \notin ToSet(RestOfPool)
         /\ RestOfPool \in Seq(Block) /\ IsInjective(RestOfPool)
         /\ ToSet(RestOfPool) \cap liveObjects = {}
         /\ heapBlocks' = liveObjects \cup ToSet(RestOfPool) \cup {backing}
<1>0. /\ heapBlocks' = heapBlocks \cup {backing}
      /\ backing \in IF pool = <<>> THEN Block \ heapBlocks ELSE {Last(pool)}
  BY DEF TakeBacking
<1>1. /\ pool \in Seq(Block) /\ heapBlocks = liveObjects \cup ToSet(pool)
      /\ liveObjects \cap ToSet(pool) = {} /\ IsInjective(pool)
  BY DEF PoolInv, PoolExact
<1>2. CASE pool = <<>>
  <2>1. RestOfPool = <<>> /\ ToSet(pool) = {} /\ ToSet(RestOfPool) = {}
    BY <1>2 DEF RestOfPool, ToSet
  <2>2. IsInjective(RestOfPool) /\ RestOfPool \in Seq(Block)
    BY <2>1 DEF IsInjective
  <2> QED BY <1>0, <1>1, <1>2, <2>1, <2>2
<1>3. CASE pool # <<>>
  <2>1. RestOfPool = Front(pool) /\ backing = Last(pool)
    BY <1>0, <1>3 DEF RestOfPool
  <2>2. /\ Front(pool) \in Seq(Block) /\ IsInjective(Front(pool))
        /\ Last(pool) \in ToSet(pool) /\ ToSet(Front(pool)) = ToSet(pool) \ {Last(pool)}
    BY <1>1, <1>3, WithoutLast
  <2> QED BY <1>0, <1>1, <2>1, <2>2
<1> QED BY <1>2, <1>3

(* Every block of an ObjectPool is in one live object or in the pool, once,  *)
(* through any sequence of construct, destroy and throwing constructors.     *)
THEOREM PoolStaysExact == PoolInit /\ [][PoolNext]_poolVars => []PoolExact
<1>1. PoolInit => PoolInv
  <2> SUFFICES ASSUME PoolInit PROVE PoolInv
    OBVIOUS
  <2>1. pool = <<>> /\ ToSet(pool) = {} /\ IsInjective(pool)
    BY DEF PoolInit, ToSet, IsInjective
  <2> QED BY <2>1, FS_EmptySet DEF PoolInit, PoolInv, PoolExact
<1>2. PoolInv /\ [PoolNext]_poolVars => PoolInv'
  <2> SUFFICES ASSUME PoolInv, [PoolNext]_poolVars
               PROVE  PoolInv'
    OBVIOUS
  <2>0. /\ pool \in Seq(Block) /\ liveObjects \subseteq Block /\ IsFiniteSet(liveObjects)
        /\ heapBlocks = liveObjects \cup ToSet(pool) /\ liveObjects \cap ToSet(pool) = {}
        /\ IsInjective(pool) /\ outstandingObjects = Cardinality(liveObjects)
    BY DEF PoolInv, PoolExact
  <2>1. ASSUME NEW b \in Block, construct(b) PROVE PoolInv'
    <3>1. /\ TakeBacking(b) /\ pool' = RestOfPool
          /\ outstandingObjects' = outstandingObjects + 1
          /\ liveObjects' = liveObjects \cup {b}
      BY <2>1 DEF construct
    <3>2. /\ b \notin liveObjects /\ b \notin ToSet(RestOfPool)
          /\ RestOfPool \in Seq(Block) /\ IsInjective(RestOfPool)
          /\ ToSet(RestOfPool) \cap liveObjects = {}
          /\ heapBlocks' = liveObjects \cup ToSet(RestOfPool) \cup {b}
      BY <3>1, BackingIsFree
    <3>3. IsFiniteSet(liveObjects') /\ Cardinality(liveObjects') = Cardinality(liveObjects) + 1
      BY <2>0, <3>1, <3>2, FS_AddElement
    <3>4. heapBlocks' = liveObjects' \cup ToSet(pool') /\ liveObjects' \cap ToSet(pool') = {}
      BY <3>1, <3>2
    <3> QED BY <2>0, <3>1, <3>2, <3>3, <3>4 DEF PoolInv, PoolExact
  <2>2. ASSUME NEW b \in Block, constructThrows(b) PROVE PoolInv'
    <3>1. /\ TakeBacking(b) /\ pool' = Append(RestOfPool, b)
          /\ UNCHANGED <<outstandingObjects, liveObjects>>
      BY <2>2 DEF constructThrows
    <3>2. /\ b \notin liveObjects /\ b \notin ToSet(RestOfPool)
          /\ RestOfPool \in Seq(Block) /\ IsInjective(RestOfPool)
          /\ ToSet(RestOfPool) \cap liveObjects = {}
          /\ heapBlocks' = liveObjects \cup ToSet(RestOfPool) \cup {b}
      BY <3>1, BackingIsFree
    <3>3. /\ pool' \in Seq(Block) /\ IsInjective(pool')
          /\ ToSet(pool') = ToSet(RestOfPool) \cup {b}
      BY <3>1, <3>2, AppendFresh
    <3>4. heapBlocks' = liveObjects' \cup ToSet(pool') /\ liveObjects' \cap ToSet(pool') = {}
      BY <3>1, <3>2, <3>3
    <3> QED BY <2>0, <3>1, <3>3, <3>4 DEF PoolInv, PoolExact
  <2>3. ASSUME NEW b \in Block, destroy(b) PROVE PoolInv'
    <3>1. /\ b \in liveObjects /\ pool' = Append(pool, b)
          /\ outstandingObjects' = outstandingObjects - 1
          /\ liveObjects' = liveObjects \ {b} /\ heapBlocks' = heapBlocks
      BY <2>3 DEF destroy
    <3>2. b \notin ToSet(pool)
      BY <2>0, <3>1
    <3>3. /\ pool' \in Seq(Block) /\ IsInjective(pool') /\ ToSet(pool') = ToSet(pool) \cup {b}
      BY <2>0, <3>1, <3>2, AppendFresh
    <3>4. IsFiniteSet(liveObjects') /\ Cardinality(liveObjects') = Cardinality(liveObjects) - 1
      BY <2>0, <3>1, FS_RemoveElement
    <3>5. heapBlocks' = liveObjects' \cup ToSet(pool') /\ liveObjects' \cap ToSet(pool') = {}
      BY <2>0, <3>1, <3>3
    <3> QED BY <2>0, <3>1, <3>3, <3>4, <3>5 DEF PoolInv, PoolExact
  <2>4. CASE destroyPool
    <3>1. /\ pool' = <<>> /\ heapBlocks' = heapBlocks \ ToSet(pool)
          /\ UNCHANGED <<outstandingObjects, liveObjects>>
      BY <2>4 DEF destroyPool
    <3>2. ToSet(pool') = {} /\ IsInjective(pool') /\ pool' \in Seq(Block)
      BY <3>1 DEF ToSet, IsInjective
    <3>3. heapBlocks' = liveObjects'
      BY <2>0, <3>1
    <3> QED BY <2>0, <3>1, <3>2, <3>3 DEF PoolInv, PoolExact
  <2>5. CASE UNCHANGED poolVars
    BY <2>5 DEF poolVars, PoolInv, PoolExact
  <2> QED BY <2>1, <2>2, <2>3, <2>4, <2>5 DEF PoolNext
<1>3. PoolInv => PoolExact
  BY DEF PoolInv
<1> QED BY <1>1, <1>2, <1>3, PTL

-----------------------------------------------------------------------------
(* The time since the last refresh, and what the NIC can have drained in it. *)
Since == steadyClock - lastUpdateTime

(* Between refreshes: the estimate less what was drained is never more than  *)
(* the NIC holds, and a NIC that is not empty holds no more than that and    *)
(* one byte for each refresh.                                                *)
EstimatorInv ==
  /\ queuedBytes \in Nat /\ nicBytes \in Nat /\ refreshes \in Nat
  /\ lastUpdateTime \in Nat /\ steadyClock \in Nat /\ lastUpdateTime <= steadyClock
  /\ queuedBytes * BandwidthTicks - BandwidthBytes * Since <= nicBytes
  /\ nicBytes > 0 =>
       nicBytes + BandwidthBytes * Since <= (queuedBytes + refreshes) * BandwidthTicks

(* Rounding up a quotient.                                                   *)
LEMMA RoundUp ==
  ASSUME NEW a \in Nat, NEW d \in Nat \ {0}
  PROVE  LET c == (a + d - 1) \div d
         IN  c \in Nat /\ a <= c * d /\ c * d < a + d
<1> DEFINE c == (a + d - 1) \div d
           r == (a + d - 1) % d
<1>1. c \in Nat /\ r \in 0..(d - 1) /\ a + d - 1 = d * c + r
  OBVIOUS
<1> HIDE DEF c, r
<1>2. d * c = c * d /\ c * d \in Nat
  BY <1>1
<1>3. c \in Nat /\ a <= c * d /\ c * d < a + d
  BY <1>1, <1>2
<1> QED BY <1>3 DEF c

(* The estimate right after a refresh.                                       *)
LEMMA RefreshedBounds ==
  ASSUME EstimatorInv
  PROVE  /\ Refreshed \in Nat
         /\ Refreshed * BandwidthTicks <= nicBytes
         /\ nicBytes < (Refreshed + refreshes + 1) * BandwidthTicks
<1> DEFINE T == BandwidthTicks
           A == BandwidthBytes * Since
           c == DrainedSince
<1>1. /\ queuedBytes \in Nat /\ nicBytes \in Nat /\ refreshes \in Nat
      /\ T \in Nat \ {0} /\ BandwidthBytes \in Nat /\ Since \in Nat
  BY EstimatorAssumption DEF EstimatorInv, Since
<1>2. A \in Nat
  BY <1>1
<1>3. c \in Nat /\ A <= c * T /\ c * T < A + T
  BY <1>1, <1>2, RoundUp DEF DrainedSince, Since
<1>4. /\ queuedBytes * T - A <= nicBytes
      /\ nicBytes > 0 => nicBytes + A <= (queuedBytes + refreshes) * T
  BY DEF EstimatorInv
<1> HIDE DEF T, A, c
<1>5. (queuedBytes + refreshes) * T = queuedBytes * T + refreshes * T
      /\ queuedBytes * T \in Nat /\ refreshes * T \in Nat /\ c * T \in Nat
  BY <1>1, <1>3
<1>6. CASE queuedBytes - c >= 0
  <2>1. Refreshed = queuedBytes - c
    BY <1>1, <1>3, <1>6 DEF Refreshed, NonNegative, c
  <2>2. /\ (queuedBytes - c) * T = queuedBytes * T - c * T
        /\ (queuedBytes - c + refreshes + 1) * T = queuedBytes * T - c * T + refreshes * T + T
    BY <1>1, <1>3, <1>6
  <2>3. Refreshed \in Nat
    BY <1>1, <1>3, <1>6, <2>1
  <2>4. Refreshed * T <= nicBytes
    BY <1>1, <1>2, <1>3, <1>4, <1>5, <2>1, <2>2
  <2>5. nicBytes < (Refreshed + refreshes + 1) * T
    <3>1. CASE nicBytes = 0
      <4>1. (queuedBytes - c) * T \in Nat
        BY <1>1, <2>1, <2>3
      <4> QED BY <1>1, <1>5, <2>1, <2>2, <3>1, <4>1
    <3>2. CASE nicBytes > 0
      BY <1>1, <1>2, <1>3, <1>4, <1>5, <2>1, <2>2, <3>2
    <3> QED BY <1>1, <3>1, <3>2
  <2> QED BY <2>3, <2>4, <2>5 DEF T
<1>7. CASE queuedBytes - c < 0
  <2>1. Refreshed = 0
    BY <1>1, <1>3, <1>7 DEF Refreshed, NonNegative, c
  <2>2. /\ 0 * T = 0 /\ (0 + refreshes + 1) * T = refreshes * T + T
        /\ queuedBytes * T <= c * T - T
    <3>1. queuedBytes + 1 <= c
      BY <1>1, <1>3, <1>7
    <3>2. c - (queuedBytes + 1) \in Nat
      BY <1>1, <1>3, <3>1
    <3>3. (c - (queuedBytes + 1)) * T \in Nat
      BY <1>1, <3>2
    <3>4. (c - (queuedBytes + 1)) * T = c * T - queuedBytes * T - T
      BY <1>1, <1>3
    <3> QED BY <1>1, <1>5, <3>3, <3>4
  <2>3. nicBytes < refreshes * T + T
    BY <1>1, <1>2, <1>3, <1>4, <1>5, <2>2
  <2> QED BY <1>1, <2>1, <2>2, <2>3 DEF T
<1> QED BY <1>1, <1>3, <1>6, <1>7

(* Whatever bursts are sent and whenever the estimate is asked for, it is    *)
(* never above what the NIC holds, and below it by rounding alone: by less   *)
(* than a byte per refresh and one more, so that it may drift downwards.     *)
THEOREM EstimateStaysBounded ==
  EstimatorInit /\ [][EstimatorNext]_estimatorVars => []EstimateBounds
<1>1. EstimatorInit => EstimatorInv
  BY EstimatorAssumption DEF EstimatorInit, EstimatorInv, Since
<1>2. EstimatorInv /\ [EstimatorNext]_estimatorVars => EstimatorInv'
  <2> SUFFICES ASSUME EstimatorInv, [EstimatorNext]_estimatorVars
               PROVE  EstimatorInv'
    OBVIOUS
  <2> DEFINE T == BandwidthTicks
             B == BandwidthBytes
  <2>0. /\ queuedBytes \in Nat /\ nicBytes \in Nat /\ refreshes \in Nat
        /\ lastUpdateTime \in Nat /\ steadyClock \in Nat /\ lastUpdateTime <= steadyClock
        /\ T \in Nat \ {0} /\ B \in Nat \ {0} /\ SentSizes \subseteq Nat
        /\ Since \in Nat /\ B * Since \in Nat
    BY EstimatorAssumption DEF EstimatorInv, Since
  <2>1. CASE NicDrains
    <3>1. /\ steadyClock' = steadyClock + 1
          /\ nicBytes' = NonNegative(nicBytes - B)
          /\ UNCHANGED <<queuedBytes, lastUpdateTime, refreshes>>
      BY <2>1 DEF NicDrains
    <3>2. Since' = Since + 1
      BY <2>0, <3>1 DEF Since
    <3>3. B * (Since + 1) = B * Since + B
      BY <2>0
    <3>4. /\ nicBytes' \in Nat /\ nicBytes' >= nicBytes - B
          /\ nicBytes' > 0 => nicBytes' = nicBytes - B /\ nicBytes > 0
      BY <2>0, <3>1 DEF NonNegative
    <3>5. queuedBytes' * T - B * Since' <= nicBytes'
      <4>1. queuedBytes * T - B * Since <= nicBytes /\ queuedBytes * T \in Nat
        BY <2>0 DEF EstimatorInv
      <4> DEFINE a == queuedBytes * T
                 x == B * Since
      <4>2. queuedBytes' * T = a /\ B * Since' = x + B /\ a \in Nat /\ x \in Nat
            /\ a - x <= nicBytes
        BY <2>0, <3>1, <3>2, <3>3, <4>1
      <4> HIDE DEF a, x
      <4>3. a - (x + B) <= nicBytes'
        BY <2>0, <3>4, <4>2
      <4> QED BY <4>2, <4>3
    <3>6. nicBytes' > 0 => nicBytes' + B * Since' <= (queuedBytes' + refreshes') * T
      <4>1. nicBytes > 0 => nicBytes + B * Since <= (queuedBytes + refreshes) * T
        BY DEF EstimatorInv
      <4>2. (queuedBytes + refreshes) * T \in Nat
        BY <2>0
      <4> DEFINE a == (queuedBytes + refreshes) * T
                 x == B * Since
      <4>3. /\ (queuedBytes' + refreshes') * T = a /\ B * Since' = x + B
            /\ a \in Nat /\ x \in Nat
            /\ nicBytes > 0 => nicBytes + x <= a
        BY <2>0, <3>1, <3>2, <3>3, <4>1, <4>2
      <4> HIDE DEF a, x
      <4>4. nicBytes' > 0 => nicBytes' + (x + B) <= a
        BY <2>0, <3>4, <4>3
      <4> QED BY <4>3, <4>4
    <3>7. /\ queuedBytes' \in Nat /\ refreshes' \in Nat /\ lastUpdateTime' \in Nat
          /\ steadyClock' \in Nat /\ lastUpdateTime' <= steadyClock'
      BY <2>0, <3>1
    <3> QED BY <3>4, <3>5, <3>6, <3>7 DEF EstimatorInv
  <2>2. CASE estimateQueuedBytes
    <3>1. /\ queuedBytes' = Refreshed /\ lastUpdateTime' = steadyClock
          /\ refreshes' = refreshes + 1 /\ UNCHANGED <<steadyClock, nicBytes>>
      BY <2>2 DEF estimateQueuedBytes
    <3>2. /\ Refreshed \in Nat /\ Refreshed * T <= nicBytes
          /\ nicBytes < (Refreshed + refreshes + 1) * T
      BY RefreshedBounds
    <3>3. Since' = 0 /\ B * 0 = 0
      BY <2>0, <3>1 DEF Since
    <3>4. Refreshed + refreshes + 1 = Refreshed + (refreshes + 1)
          /\ Refreshed * T \in Nat /\ (Refreshed + (refreshes + 1)) * T \in Nat
      BY <2>0, <3>2
    <3>5. queuedBytes' * T - B * Since' <= nicBytes'
      BY <2>0, <3>1, <3>2, <3>3, <3>4
    <3>6. nicBytes' + B * Since' <= (queuedBytes' + refreshes') * T
      BY <2>0, <3>1, <3>2, <3>3, <3>4
    <3> QED BY <2>0, <3>1, <3>2, <3>5, <3>6 DEF EstimatorInv
  <2>3. ASSUME NEW n \in SentSizes, signalBytesSent(n) PROVE EstimatorInv'
    <3>1. /\ queuedBytes' = Refreshed + n /\ lastUpdateTime' = steadyClock
          /\ refreshes' = refreshes + (IF lastUpdateTime < steadyClock THEN 1 ELSE 0)
          /\ nicBytes' = nicBytes + n * T /\ steadyClock' = steadyClock
      BY <2>3 DEF signalBytesSent
    <3>2. /\ Refreshed \in Nat /\ Refreshed * T <= nicBytes
          /\ nicBytes < (Refreshed + refreshes + 1) * T
      BY RefreshedBounds
    <3>3. Since' = 0 /\ B * 0 = 0 /\ n \in Nat /\ n * T \in Nat
      BY <2>0, <3>1 DEF Since
    <3>4. (Refreshed + n) * T = Refreshed * T + n * T /\ Refreshed * T \in Nat
      BY <2>0, <3>2, <3>3
    <3>5. queuedBytes' * T - B * Since' <= nicBytes'
      BY <2>0, <3>1, <3>2, <3>3, <3>4
    <3>6. nicBytes' > 0 => nicBytes' + B * Since' <= (queuedBytes' + refreshes') * T
      <4>1. CASE lastUpdateTime < steadyClock
        <5>1. /\ refreshes' = refreshes + 1
              /\ (Refreshed + n + (refreshes + 1)) * T
                   = (Refreshed + refreshes + 1) * T + n * T
          BY <2>0, <3>1, <3>2, <3>3, <4>1
        <5>2. (Refreshed + refreshes + 1) * T \in Nat
          BY <2>0, <3>2
        <5> QED BY <2>0, <3>1, <3>2, <3>3, <5>1, <5>2
      <4>2. CASE ~(lastUpdateTime < steadyClock)
        <5>1. refreshes' = refreshes /\ Since = 0
          BY <2>0, <3>1, <4>2 DEF Since
        <5>2. DrainedSince = 0
          <6>1. DrainedSince = (0 + T - 1) \div T
            BY <2>0, <3>3, <5>1 DEF DrainedSince, Since
          <6>2. LET c == (0 + T - 1) \div T IN c \in Nat /\ 0 <= c * T /\ c * T < 0 + T
            BY <2>0, RoundUp
          <6>3. DrainedSince \in Nat /\ DrainedSince * T < T
            BY <2>0, <6>1, <6>2
          <6>4. ASSUME DrainedSince >= 1 PROVE FALSE
            <7>1. (DrainedSince - 1) * T \in Nat
              BY <2>0, <6>3, <6>4
            <7>2. (DrainedSince - 1) * T = DrainedSince * T - T
              BY <2>0, <6>3
            <7>3. DrainedSince * T \in Nat
              BY <2>0, <6>3
            <7> QED BY <2>0, <6>3, <7>1, <7>2, <7>3
          <6> QED BY <6>3, <6>4
        <5>3. Refreshed = queuedBytes
          BY <2>0, <5>2 DEF Refreshed, NonNegative
        <5>4. (queuedBytes + n + refreshes) * T = (queuedBytes + refreshes) * T + n * T
              /\ (queuedBytes + refreshes) * T \in Nat
          BY <2>0, <3>3
        <5>5. CASE nicBytes > 0
          <6>1. nicBytes + B * Since <= (queuedBytes + refreshes) * T
            BY <5>5 DEF EstimatorInv
          <6> QED BY <2>0, <3>1, <3>3, <5>1, <5>3, <5>4, <6>1
        <5>6. CASE nicBytes = 0
          BY <2>0, <3>1, <3>3, <5>1, <5>3, <5>4, <5>6
        <5> QED BY <2>0, <5>5, <5>6
      <4> QED BY <4>1, <4>2
    <3>7. /\ queuedBytes' \in Nat /\ nicBytes' \in Nat /\ refreshes' \in Nat
          /\ lastUpdateTime' \in Nat /\ steadyClock' \in Nat /\ lastUpdateTime' <= steadyClock'
      BY <2>0, <3>1, <3>2, <3>3
    <3> QED BY <3>5, <3>6, <3>7 DEF EstimatorInv
  <2>4. CASE UNCHANGED estimatorVars
    BY <2>4 DEF estimatorVars, EstimatorInv, Since
  <2> QED BY <2>1, <2>2, <2>3, <2>4 DEF EstimatorNext
<1>3. EstimatorInv => EstimateBounds
  BY RefreshedBounds DEF EstimateBounds
<1> QED BY <1>1, <1>2, <1>3, PTL

-----------------------------------------------------------------------------
(* Tub and ThreadId. *)

(* TubBalanced with the types it needs: it is inductive as it stands.        *)
TubInv ==
  /\ elementsBorn \in [Tubs -> Nat] /\ elementsDead \in [Tubs -> Nat]
  /\ DOMAIN tubObject = Tubs /\ tubObject = [b \in Tubs |-> tubObject[b]]
  /\ TubBalanced

(* What construct does to Tub b, for a value that is an object.              *)
LEMMA ConstructKeeps ==
  ASSUME TubInv, NEW b \in Tubs, NEW v, v # Empty, ConstructElement(b, v),
         tubExists' = tubExists \cup {b}
  PROVE  TubInv'
BY DEF ConstructElement, TubInv, TubBalanced

(* What destroy does to Tub b.                                               *)
LEMMA DestroyKeeps ==
  ASSUME TubInv, NEW b \in Tubs, DestroyElement(b),
         tubExists' = tubExists \/ tubExists' = tubExists \ {b}
  PROVE  TubInv'
BY DEF DestroyElement, TubInv, TubBalanced

(* However Tubs are constructed, copied, assigned and destroyed, an object   *)
(* in a Tub is destroyed exactly once.                                       *)
THEOREM TubsBalanced == TubInit /\ [][TubNext]_tubVars => []TubBalanced
<1>1. TubInit => TubInv
  BY DEF TubInit, TubInv, TubBalanced
<1>2. TubInv /\ [TubNext]_tubVars => TubInv'
  <2> SUFFICES ASSUME TubInv, [TubNext]_tubVars
               PROVE  TubInv'
    OBVIOUS
  <2>1. ASSUME NEW b \in Tubs, newTub(b) PROVE TubInv'
    BY <2>1 DEF newTub, TubInv, TubBalanced
  <2>2. ASSUME NEW b \in Tubs, deleteTub(b) \/ tubDestroy(b) PROVE TubInv'
    BY <2>2, DestroyKeeps DEF deleteTub, tubDestroy
  <2>3. ASSUME NEW b \in Tubs, NEW v \in TubValue, tubConstruct(b, v) PROVE TubInv'
    <3>1. tubExists' = tubExists \cup {b} /\ ConstructElement(b, v) /\ v # Empty
      BY <2>3, TubAssumption DEF tubConstruct
    <3> QED BY <3>1, ConstructKeeps
  <2>4. ASSUME NEW b \in Tubs, NEW other \in Tubs \ {b}, copyTub(b, other) PROVE TubInv'
    <3>1. CASE tubObject[other] # Empty
      BY <2>4, <3>1, ConstructKeeps DEF copyTub
    <3>2. CASE tubObject[other] = Empty
      BY <2>4, <3>2 DEF copyTub, TubInv, TubBalanced
    <3> QED BY <3>1, <3>2
  <2>5. ASSUME NEW b \in Tubs, NEW other \in Tubs \ {b}, assignTub(b, other) PROVE TubInv'
    <3>0. b \in tubExists /\ tubExists' = tubExists /\ tubExists' = tubExists \cup {b}
      BY <2>5 DEF assignTub
    <3>1. CASE tubObject[other] = Empty
      <4>1. DestroyElement(b)
        BY <2>5, <3>1 DEF assignTub
      <4> QED BY <3>0, <4>1, DestroyKeeps
    <3>2. CASE tubObject[other] # Empty /\ tubObject[b] = Empty
      <4>1. ConstructElement(b, tubObject[other])
        BY <2>5, <3>2 DEF assignTub
      <4> QED BY <3>0, <3>2, <4>1, ConstructKeeps
    <3>3. CASE tubObject[other] # Empty /\ tubObject[b] # Empty
      <4>1. /\ tubObject' = [tubObject EXCEPT ![b] = tubObject[other]]
            /\ UNCHANGED <<elementsBorn, elementsDead>>
        BY <2>5, <3>3 DEF assignTub
      <4> QED BY <3>0, <3>3, <4>1 DEF TubInv, TubBalanced
    <3> QED BY <3>1, <3>2, <3>3
  <2>6. CASE UNCHANGED tubVars
    BY <2>6 DEF tubVars, TubInv, TubBalanced
  <2> QED BY <2>1, <2>2, <2>3, <2>4, <2>5, <2>6 DEF TubNext
<1>3. TubInv => TubBalanced
  BY DEF TubInv
<1> QED BY <1>1, <1>2, <1>3, PTL

-----------------------------------------------------------------------------
(* NamesOwn with what makes it inductive: identifiers that were given out    *)
(* are below nextId, and so is every identifier in the table of names.       *)
ThreadIdInv ==
  /\ nextId \in Nat \ {0}
  /\ threadLocalId \in [IdThread -> 0..(nextId - 1)]
  /\ nameSet \in [IdThread -> ThreadName \cup {DefaultName}]
  /\ idsOfExited \subseteq 1..(nextId - 1)
  /\ DOMAIN threadNames \subseteq 1..(nextId - 1)
  /\ threadNames = [i \in DOMAIN threadNames |-> threadNames[i]]
  /\ \A t \in IdThread : threadLocalId[t] = NONE => nameSet[t] = DefaultName
  /\ NamesOwn

(* A thread is known by its own name only, however many threads came and     *)
(* went before it.                                                           *)
THEOREM ThreadNamesOwn == ThreadIdInit /\ [][ThreadIdNext]_threadIdVars => []NamesOwn
<1>1. ThreadIdInit => ThreadIdInv
  <2> SUFFICES ASSUME ThreadIdInit PROVE ThreadIdInv
    OBVIOUS
  <2>1. DOMAIN threadNames = {} /\ threadNames = [i \in DOMAIN threadNames |-> threadNames[i]]
    BY DEF ThreadIdInit
  <2> QED BY <2>1 DEF ThreadIdInit, ThreadIdInv, NamesOwn, NONE
<1>2. ThreadIdInv /\ [ThreadIdNext]_threadIdVars => ThreadIdInv'
  <2> SUFFICES ASSUME ThreadIdInv, [ThreadIdNext]_threadIdVars
               PROVE  ThreadIdInv'
    OBVIOUS
  <2>1. ASSUME NEW t \in IdThread, getId(t) PROVE ThreadIdInv'
    <3>1. /\ threadLocalId[t] = NONE /\ threadLocalId' = [threadLocalId EXCEPT ![t] = nextId]
          /\ nextId' = nextId + 1 /\ UNCHANGED <<threadNames, nameSet, idsOfExited>>
      BY <2>1 DEF getId, NextAfter
    <3>2. /\ nextId' \in Nat \ {0}
          /\ threadLocalId' \in [IdThread -> 0..(nextId' - 1)]
          /\ idsOfExited' \subseteq 1..(nextId' - 1)
          /\ DOMAIN threadNames' \subseteq 1..(nextId' - 1)
      BY <3>1 DEF ThreadIdInv
    <3>3. NamesOwn'
      <4> SUFFICES ASSUME NEW u \in IdThread, threadLocalId'[u] # NONE
                   PROVE  /\ getName(u)' = nameSet'[u]
                          /\ threadLocalId'[u] \notin idsOfExited'
                          /\ \A w \in IdThread \ {u} : threadLocalId'[w] # threadLocalId'[u]
        BY DEF NamesOwn
      <4>1. /\ threadLocalId'[t] = nextId
            /\ \A w \in IdThread : w # t => threadLocalId'[w] = threadLocalId[w]
            /\ \A w \in IdThread : threadLocalId[w] < nextId
            /\ nextId \notin DOMAIN threadNames /\ nextId \notin idsOfExited
        BY <3>1 DEF ThreadIdInv
      <4>2. CASE u = t
        BY <3>1, <4>1, <4>2 DEF ThreadIdInv, getName
      <4>3. CASE u # t
        <5>1. /\ getName(u) = nameSet[u] /\ threadLocalId[u] \notin idsOfExited
              /\ \A w \in IdThread \ {u} : threadLocalId[w] # threadLocalId[u]
          BY <4>1, <4>3 DEF ThreadIdInv, NamesOwn
        <5>2. getName(u)' = getName(u)
          BY <3>1, <4>1, <4>3 DEF getName
        <5> QED BY <3>1, <4>1, <4>3, <5>1, <5>2 DEF ThreadIdInv
      <4> QED BY <4>2, <4>3
    <3> QED BY <3>1, <3>2, <3>3 DEF ThreadIdInv, NONE
  <2>2. ASSUME NEW t \in IdThread, NEW name \in ThreadName \cup {DefaultName}, setName(t, name)
        PROVE  ThreadIdInv'
    <3> DEFINE id == threadLocalId[t]
    <3>1. /\ id # NONE
          /\ threadNames' = IF name = DefaultName
                            THEN [i \in (DOMAIN threadNames) \ {id} |-> threadNames[i]]
                            ELSE [i \in (DOMAIN threadNames) \cup {id} |->
                                    IF i = id THEN name ELSE threadNames[i]]
          /\ nameSet' = [nameSet EXCEPT ![t] = name]
          /\ UNCHANGED <<threadLocalId, nextId, idsOfExited>>
      BY <2>2 DEF setName
    <3>2. id \in 1..(nextId - 1)
      BY <3>1 DEF ThreadIdInv, NONE
    <3>3. /\ threadNames' = [i \in DOMAIN threadNames' |-> threadNames'[i]]
          /\ DOMAIN threadNames' \subseteq 1..(nextId' - 1)
          /\ id \in DOMAIN threadNames' <=> name # DefaultName
          /\ id \in DOMAIN threadNames' => threadNames'[id] = name
          /\ \A i : i # id => /\ i \in DOMAIN threadNames' <=> i \in DOMAIN threadNames
                              /\ i \in DOMAIN threadNames => threadNames'[i] = threadNames[i]
      BY <3>1, <3>2 DEF ThreadIdInv
    <3>4. /\ nameSet' \in [IdThread -> ThreadName \cup {DefaultName}] /\ nameSet'[t] = name
          /\ \A u \in IdThread : u # t => nameSet'[u] = nameSet[u]
      BY <3>1 DEF ThreadIdInv
    <3>5. \A u \in IdThread : u # t => threadLocalId[u] # id
      BY <3>1 DEF ThreadIdInv, NamesOwn
    <3>6. getName(t)' = name
      BY <3>1, <3>3 DEF getName
    <3>7. \A u \in IdThread : u # t => getName(u)' = getName(u)
      BY <3>1, <3>3, <3>5 DEF getName
    <3>8. NamesOwn'
      BY <3>1, <3>4, <3>6, <3>7 DEF ThreadIdInv, NamesOwn
    <3> QED BY <3>1, <3>3, <3>4, <3>8 DEF ThreadIdInv
  <2>3. ASSUME NEW t \in IdThread, exitThread(t) PROVE ThreadIdInv'
    <3>1. /\ threadLocalId[t] # NONE
          /\ idsOfExited' = idsOfExited \cup {threadLocalId[t]}
          /\ threadLocalId' = [threadLocalId EXCEPT ![t] = NONE]
          /\ nameSet' = [nameSet EXCEPT ![t] = DefaultName]
          /\ UNCHANGED <<nextId, threadNames>>
      BY <2>3 DEF exitThread
    <3>2. /\ threadLocalId' \in [IdThread -> 0..(nextId' - 1)]
          /\ idsOfExited' \subseteq 1..(nextId' - 1)
          /\ nameSet' \in [IdThread -> ThreadName \cup {DefaultName}]
          /\ \A u \in IdThread : threadLocalId'[u] = NONE => nameSet'[u] = DefaultName
      BY <3>1 DEF ThreadIdInv, NONE
    <3>3. /\ threadLocalId'[t] = NONE
          /\ \A u \in IdThread : u # t => /\ threadLocalId'[u] = threadLocalId[u]
                                          /\ nameSet'[u] = nameSet[u]
      BY <3>1 DEF ThreadIdInv
    <3>4. \A u \in IdThread : u # t => getName(u)' = getName(u)
      BY <3>1, <3>3 DEF getName
    <3>5. NamesOwn'
      BY <3>1, <3>3, <3>4 DEF ThreadIdInv, NamesOwn
    <3> QED BY <3>1, <3>2, <3>5 DEF ThreadIdInv
  <2>4. CASE UNCHANGED threadIdVars
    BY <2>4 DEF threadIdVars, ThreadIdInv, NamesOwn, getName
  <2> QED BY <2>1, <2>2, <2>3, <2>4 DEF ThreadIdNext
<1>3. ThreadIdInv => NamesOwn
  BY DEF ThreadIdInv
<1> QED BY <1>1, <1>2, <1>3, PTL

-----------------------------------------------------------------------------
(* PolicyManager. *)

(* The cutoffs of a policy, none of which changes once it is made.           *)
Cutoffs == UNSCHEDULED_PRIORITY_CUTOFFS

(* The search through the cutoffs stops somewhere.                           *)
LEMMA RankExists ==
  ASSUME NEW n \in Nat
  PROVE  \E r \in 0..Len(Cutoffs) : IsRank(Cutoffs, n, r)
<1>1. Len(Cutoffs) \in Nat /\ \A i \in 1..Len(Cutoffs) : Cutoffs[i] \in Nat
  BY PolicyAssumption DEF Cutoffs
<1> DEFINE R == {r \in 0..Len(Cutoffs) : r < Len(Cutoffs) => n < Cutoffs[r + 1]}
<1>2. Len(Cutoffs) \in R /\ R \in SUBSET Nat
  BY <1>1
<1>3. PICK r \in R : \A s \in R : r <= s
  <2> HIDE DEF R
  <2> QED BY <1>2, LeastNat
<1>4. ASSUME NEW i \in 1..r PROVE n >= Cutoffs[i]
  <2>1. i - 1 \in 0..Len(Cutoffs) /\ i - 1 < r /\ (i - 1) + 1 = i /\ i - 1 < Len(Cutoffs)
        /\ i \in 1..Len(Cutoffs)
    BY <1>1
  <2>2. i - 1 \notin R
    BY <1>3, <2>1
  <2> QED BY <1>1, <2>1, <2>2
<1> QED BY <1>4 DEF IsRank

(* A longer message stops no earlier.                                        *)
LEMMA RankOrder ==
  ASSUME NEW n \in Nat, NEW m \in Nat, n <= m,
         NEW r \in 0..Len(Cutoffs), IsRank(Cutoffs, n, r),
         NEW s \in 0..Len(Cutoffs), IsRank(Cutoffs, m, s)
  PROVE  r <= s
<1> SUFFICES ASSUME s < r PROVE FALSE
  OBVIOUS
<1>1. Len(Cutoffs) \in Nat /\ \A i \in 1..Len(Cutoffs) : Cutoffs[i] \in Nat
  BY PolicyAssumption DEF Cutoffs
<1>2. s < Len(Cutoffs) /\ s + 1 \in 1..r /\ s + 1 \in 1..Len(Cutoffs)
  BY <1>1
<1>3. m < Cutoffs[s + 1] /\ n >= Cutoffs[s + 1]
  BY <1>2 DEF IsRank
<1> QED BY <1>1, <1>2, <1>3

(* The rank of a message, and its unscheduled priority under the default     *)
(* policy.                                                                   *)
Rank(n) == CHOOSE r \in 0..Len(Cutoffs) : IsRank(Cutoffs, n, r)
PriorityOf(n) == AtLeastZero(MAX_PRIORITY - Rank(n))

(* The rank of a message is between its cutoffs.                              *)
LEMMA RankFacts ==
  ASSUME NEW n \in Nat
  PROVE  Rank(n) \in 0..Len(Cutoffs) /\ IsRank(Cutoffs, n, Rank(n))
BY RankExists DEF Rank

(* What the default policy answers is PriorityOf.                            *)
LEMMA DefaultPriority ==
  ASSUME NEW n
  PROVE  UnscheduledPriority(DefaultUnscheduled(MAX_PRIORITY), n) = PriorityOf(n)
BY DEF UnscheduledPriority, DefaultUnscheduled, PriorityOf, Rank, Cutoffs

(* A longer message has no higher priority.                                  *)
LEMMA PriorityOrder ==
  ASSUME MAX_PRIORITY \in Nat, NEW n \in Nat, NEW m \in Nat, n <= m
  PROVE  /\ PriorityOf(m) <= PriorityOf(n)
         /\ PriorityOf(n) \in 0..MAX_PRIORITY
         /\ PriorityOf(n) >= MAX_PRIORITY - Len(Cutoffs)
<1>1. /\ Rank(n) \in 0..Len(Cutoffs) /\ IsRank(Cutoffs, n, Rank(n))
      /\ Rank(m) \in 0..Len(Cutoffs) /\ IsRank(Cutoffs, m, Rank(m))
  BY RankFacts
<1>2. Rank(n) <= Rank(m)
  BY <1>1, RankOrder
<1>3. Len(Cutoffs) \in Nat
  BY PolicyAssumption DEF Cutoffs
<1> QED BY <1>1, <1>2, <1>3 DEF PriorityOf, AtLeastZero

(* The inductive invariant: every policy is still the default for the         *)
(* driver's priorities, and what was answered last agrees with it.            *)
PolicyInv ==
  /\ MAX_PRIORITY \in HighestPriorities /\ RTT_BYTES \in Nat
  /\ localScheduledPolicy = DefaultScheduled(MAX_PRIORITY, RTT_BYTES)
  /\ \A d \in DOMAIN peerPolicies : peerPolicies[d] = DefaultUnscheduled(MAX_PRIORITY)
  /\ answered.length \in Nat /\ answered.priority \in 0..MAX_PRIORITY
  /\ DOMAIN peerPolicies # {} => answered.priority = PriorityOf(answered.length)

(* The numbers of the policies.                                              *)
LEMMA PolicyTypes ==
  ASSUME PolicyInv
  PROVE  /\ MAX_PRIORITY \in Nat /\ Len(Cutoffs) \in Nat
         /\ localScheduledPolicy.maxScheduledPriority
              = AtLeastZero(MAX_PRIORITY - (Len(Cutoffs) + 1))
         /\ localScheduledPolicy.maxScheduledPriority \in Nat
         /\ localScheduledPolicy.degreeOvercommitment = MAX_OVERCOMMIT_COUNT
         /\ MAX_OVERCOMMIT_COUNT \in Nat \ {0}
<1>1. /\ MAX_PRIORITY \in Nat /\ Len(Cutoffs) \in Nat
      /\ MAX_OVERCOMMIT_COUNT \in Nat \ {0}
  BY PolicyAssumption DEF PolicyInv, Cutoffs
<1>2. /\ localScheduledPolicy.maxScheduledPriority
              = AtLeastZero(MAX_PRIORITY - (Len(Cutoffs) + 1))
      /\ localScheduledPolicy.degreeOvercommitment = MAX_OVERCOMMIT_COUNT
  BY DEF PolicyInv, DefaultScheduled, Cutoffs
<1> QED BY <1>1, <1>2 DEF AtLeastZero

(* The bands of priorities, of unscheduled and scheduled packets.            *)
LEMMA BandsHold == PolicyInv => PriorityBands
<1> SUFFICES ASSUME PolicyInv PROVE PriorityBands
  OBVIOUS
<1>1. answered.priority \in 0..getResendPriority
  BY DEF PolicyInv, getResendPriority
<1>2. ASSUME NEW d \in DOMAIN peerPolicies, NEW n \in MessageLengths
      PROVE  LET p == UnscheduledPriority(peerPolicies[d], n) IN
             /\ n >= answered.length => p <= answered.priority
             /\ n <= answered.length => p >= answered.priority
             /\ MAX_PRIORITY > Len(UNSCHEDULED_PRIORITY_CUTOFFS)
                  => p > localScheduledPolicy.maxScheduledPriority
  <2> DEFINE p == UnscheduledPriority(peerPolicies[d], n)
             a == answered.length
  <2>1. p = PriorityOf(n) /\ answered.priority = PriorityOf(a) /\ a \in Nat /\ n \in Nat
    BY DefaultPriority, PolicyAssumption DEF PolicyInv
  <2>2. MAX_PRIORITY \in Nat /\ Len(Cutoffs) \in Nat
        /\ localScheduledPolicy.maxScheduledPriority
             = AtLeastZero(MAX_PRIORITY - (Len(Cutoffs) + 1))
    BY PolicyTypes
  <2>3. PriorityOf(n) \in 0..MAX_PRIORITY /\ PriorityOf(n) >= MAX_PRIORITY - Len(Cutoffs)
    BY <2>1, <2>2, PriorityOrder
  <2>4. n >= a => p <= answered.priority
    BY <2>1, <2>2, PriorityOrder
  <2>5. n <= a => p >= answered.priority
    <3>1. n <= a => PriorityOf(a) <= PriorityOf(n)
      BY <2>1, <2>2, PriorityOrder
    <3>2. PriorityOf(a) \in Int /\ PriorityOf(n) \in Int
      BY <2>1, <2>2, PriorityOrder
    <3> QED BY <2>1, <3>1, <3>2
  <2>6. MAX_PRIORITY > Len(Cutoffs) => p > localScheduledPolicy.maxScheduledPriority
    BY <2>1, <2>2, <2>3 DEF AtLeastZero
  <2> QED BY <2>4, <2>5, <2>6 DEF Cutoffs
<1> QED BY <1>1, <1>2 DEF PriorityBands

(* The priorities of the grants.                                             *)
LEMMA SlotsHold == PolicyInv => SlotPriorities /\ PolicyAsserted
<1> SUFFICES ASSUME PolicyInv PROVE SlotPriorities /\ PolicyAsserted
  OBVIOUS
<1> DEFINE M == localScheduledPolicy.maxScheduledPriority
           D == localScheduledPolicy.degreeOvercommitment
<1>1. M \in Nat /\ D \in Nat
  BY PolicyTypes
<1>2. PolicyAsserted
  BY PolicyTypes DEF PolicyAsserted, GrantsForAllPriorities, AtLeastZero, Cutoffs
<1>3. ASSUME GrantsForAllPriorities, NEW n \in 1..MaxScheduledPeers
      PROVE  LET levels == localScheduledPolicy.maxScheduledPriority + 1 IN
             /\ {SlotPriority(s, n) : s \in {t \in Slots : t < n}}
                  = 0..((IF n < levels THEN n ELSE levels) - 1)
             /\ \A s \in Slots : s >= n => SlotPriority(s, n) = 0
             /\ \A s, r \in Slots : s < r => SlotPriority(s, n) >= SlotPriority(r, n)
  <2> DEFINE U == unusedPriorities(n)
             w == (IF n < M + 1 THEN n ELSE M + 1)
             first == {t \in Slots : t < n}
  <2>0. n \in Nat /\ n >= 1 /\ M < D
    BY <1>1, <1>3 DEF GrantsForAllPriorities
  <2>1. U = (IF n < M + 1 THEN M + 1 - n ELSE 0)
    BY <1>1, <2>0 DEF unusedPriorities, AtLeastZero
  <2>2. Slots = 0..(D - 1)
    BY DEF Slots
  <2>3. \A s : SlotPriority(s, n) = AtLeastZero(M - s - U)
    BY DEF SlotPriority
  <2> HIDE DEF U, M, D
  <2>4. \A s \in Slots : s \in Nat /\ SlotPriority(s, n) = (IF s < w THEN w - 1 - s ELSE 0)
    <3> SUFFICES ASSUME NEW s \in Slots
                 PROVE  s \in Nat /\ SlotPriority(s, n) = (IF s < w THEN w - 1 - s ELSE 0)
      OBVIOUS
    <3>1. s \in Nat /\ s < D
      BY <1>1, <2>0, <2>2
    <3>2. CASE n < M + 1
      BY <1>1, <2>0, <2>1, <2>3, <3>1, <3>2 DEF AtLeastZero
    <3>3. CASE ~(n < M + 1)
      BY <1>1, <2>0, <2>1, <2>3, <3>1, <3>3 DEF AtLeastZero
    <3> QED BY <3>2, <3>3
  <2>5. \A s, r \in Slots : s < r => SlotPriority(s, n) >= SlotPriority(r, n)
    BY <1>1, <2>0, <2>4
  <2>6. \A k \in 0..(w - 1) : w - 1 - k \in first /\ SlotPriority(w - 1 - k, n) = k
    <3> SUFFICES ASSUME NEW k \in 0..(w - 1)
                 PROVE  w - 1 - k \in first /\ SlotPriority(w - 1 - k, n) = k
      OBVIOUS
    <3>1. w \in Nat /\ w <= n /\ w <= M + 1
      BY <1>1, <2>0
    <3>2. w - 1 - k \in Slots /\ w - 1 - k < n
      BY <1>1, <2>0, <2>2, <3>1
    <3> QED BY <2>4, <3>1, <3>2
  <2>7. \A s \in first : SlotPriority(s, n) \in 0..(w - 1)
    BY <1>1, <2>0, <2>4
  <2>8. {SlotPriority(s, n) : s \in first} = 0..(w - 1)
    <3> HIDE DEF w, first
    <3> QED BY <2>6, <2>7
  <2>9. \A s \in Slots : s >= n => SlotPriority(s, n) = 0
    BY <1>1, <2>0, <2>4
  <2> QED BY <2>5, <2>8, <2>9 DEF M
<1> QED BY <1>2, <1>3 DEF SlotPriorities

(* A message of exactly a cutoff's length is a longer one.                   *)
LEMMA CutoffsHold == PolicyInv => CutoffsSeparate
<1> SUFFICES ASSUME PolicyInv, NEW d \in DOMAIN peerPolicies, NEW i \in 1..Len(Cutoffs),
                    MAX_PRIORITY >= i
             PROVE  UnscheduledPriority(peerPolicies[d], Cutoffs[i])
                      = UnscheduledPriority(peerPolicies[d], Cutoffs[i] - 1) - 1
  BY DEF CutoffsSeparate, Cutoffs
<1> DEFINE c == Cutoffs[i]
<1>1. /\ MAX_PRIORITY \in Nat /\ Len(Cutoffs) \in Nat
      /\ \A j \in 1..Len(Cutoffs) : Cutoffs[j] \in Nat
      /\ \A j, k \in 1..Len(Cutoffs) : j < k => Cutoffs[j] < Cutoffs[k]
  BY PolicyTypes, PolicyAssumption, SMTT(20) DEF Cutoffs
<1>2. i \in 0..Len(Cutoffs) /\ i - 1 \in 0..Len(Cutoffs) /\ (i - 1) + 1 = i
  BY <1>1
<1>3. IsRank(Cutoffs, c, i)
  <2>1. ASSUME NEW j \in 1..i PROVE c >= Cutoffs[j]
    <3>1. j \in 1..Len(Cutoffs) /\ (j = i \/ j < i)
      BY <1>1
    <3> QED BY <1>1, <3>1
  <2>2. i < Len(Cutoffs) => c < Cutoffs[i + 1]
    BY <1>1
  <2> QED BY <2>1, <2>2 DEF IsRank
<1>4. IsRank(Cutoffs, c - 1, i - 1)
  <2>1. ASSUME NEW j \in 1..(i - 1) PROVE c - 1 >= Cutoffs[j]
    <3>1. j \in 1..Len(Cutoffs) /\ j < i
      BY <1>1
    <3>2. Cutoffs[j] < c /\ Cutoffs[j] \in Nat /\ c \in Nat
      BY <1>1, <3>1
    <3> QED BY <3>2
  <2>2. c - 1 < Cutoffs[(i - 1) + 1]
    BY <1>1, <1>2
  <2> QED BY <2>1, <2>2 DEF IsRank
<1>5. c \in Nat /\ c - 1 \in Int
  BY <1>1
<1>6. Rank(c) = i
  <2>1. Rank(c) \in 0..Len(Cutoffs) /\ IsRank(Cutoffs, c, Rank(c))
    BY <1>5, RankFacts
  <2>2. Rank(c) <= i /\ i <= Rank(c)
    BY <1>2, <1>3, <1>5, <2>1, RankOrder
  <2> QED BY <1>2, <2>1, <2>2
<1>7. Rank(c - 1) = i - 1
  <2>1. \A r \in 0..Len(Cutoffs) : IsRank(Cutoffs, c - 1, r) => r = i - 1
    <3> SUFFICES ASSUME NEW r \in 0..Len(Cutoffs), IsRank(Cutoffs, c - 1, r), r # i - 1
                 PROVE  FALSE
      OBVIOUS
    <3>1. CASE r < i - 1
      <4>1. r + 1 \in 1..(i - 1) /\ r < Len(Cutoffs) /\ r + 1 \in 1..Len(Cutoffs)
        BY <1>1, <1>2, <3>1
      <4>2. c - 1 >= Cutoffs[r + 1] /\ c - 1 < Cutoffs[r + 1]
        BY <1>4, <4>1 DEF IsRank
      <4> QED BY <1>1, <1>5, <4>1, <4>2
    <3>2. CASE r > i - 1
      <4>1. i \in 1..r
        BY <1>1, <1>2, <3>2
      <4>2. c - 1 >= Cutoffs[i]
        BY <4>1 DEF IsRank
      <4> QED BY <1>5, <4>2
    <3> QED BY <1>2, <3>1, <3>2
  <2> QED BY <1>2, <1>4, <2>1 DEF Rank
<1>8. PriorityOf(c) = PriorityOf(c - 1) - 1
  BY <1>1, <1>2, <1>6, <1>7 DEF PriorityOf, AtLeastZero
<1> QED BY <1>8, DefaultPriority DEF PolicyInv

(* Whatever peers and lengths the policy is asked about, for any cutoffs and  *)
(* any number of priorities: unscheduled priorities follow the lengths of     *)
(* messages and scheduled ones their slots, as far as each statement's        *)
(* condition on the driver's priorities goes.                                *)
THEOREM PolicyFollowsLength ==
  PolicyInit /\ [][PolicyNext]_policyVars => []PrioritiesFollowLength
<1>1. PolicyInit => PolicyInv
  <2> SUFFICES ASSUME PolicyInit PROVE PolicyInv
    OBVIOUS
  <2>1. RTT_BYTES \in Nat /\ MAX_PRIORITY \in Nat
    <3>1. PICK b \in Bandwidths : RTT_BYTES = RTT_TIME_US * (b \div 8)
      BY DEF PolicyInit
    <3>2. b \in Nat /\ b \div 8 \in Nat
      BY PolicyAssumption
    <3> QED BY <3>1, <3>2, PolicyAssumption DEF PolicyInit
  <2>2. DOMAIN peerPolicies = {}
    BY DEF PolicyInit
  <2> QED BY <2>1, <2>2 DEF PolicyInit, PolicyInv
<1>2. PolicyInv /\ [PolicyNext]_policyVars => PolicyInv'
  <2> SUFFICES ASSUME PolicyInv, [PolicyNext]_policyVars
               PROVE  PolicyInv'
    OBVIOUS
  <2>1. ASSUME NEW d \in Destinations, NEW n \in MessageLengths, getUnscheduledPolicy(d, n)
        PROVE  PolicyInv'
    <3> DEFINE peers == IF d \in DOMAIN peerPolicies THEN peerPolicies
                        ELSE [e \in DOMAIN peerPolicies \cup {d} |->
                                IF e = d THEN DefaultUnscheduled(MAX_PRIORITY)
                                ELSE peerPolicies[e]]
    <3>1. /\ peerPolicies' = peers
          /\ answered' = [length |-> n, priority |-> UnscheduledPriority(peers[d], n),
                          limit |-> RTT_BYTES]
          /\ UNCHANGED <<MAX_PRIORITY, RTT_BYTES, localScheduledPolicy>>
      BY <2>1 DEF getUnscheduledPolicy
    <3>2. d \in DOMAIN peers /\ \A e \in DOMAIN peers : peers[e] = DefaultUnscheduled(MAX_PRIORITY)
      BY DEF PolicyInv
    <3> HIDE DEF peers
    <3>3. UnscheduledPriority(peers[d], n) = PriorityOf(n) /\ n \in Nat /\ MAX_PRIORITY \in Nat
      BY <3>2, DefaultPriority, PolicyTypes, PolicyAssumption
    <3>4. PriorityOf(n) \in 0..MAX_PRIORITY /\ PriorityOf(n)' = PriorityOf(n)
      BY <3>1, <3>3, PriorityOrder DEF PriorityOf
    <3> QED BY <3>1, <3>2, <3>3, <3>4 DEF PolicyInv, PriorityOf
  <2>2. CASE UNCHANGED policyVars
    BY <2>2 DEF policyVars, PolicyInv, PriorityOf
  <2> QED BY <2>1, <2>2 DEF PolicyNext
<1>3. PolicyInv => PrioritiesFollowLength
  BY BandsHold, SlotsHold, CutoffsHold DEF PrioritiesFollowLength
<1> QED BY <1>1, <1>2, <1>3, PTL

-----------------------------------------------------------------------------
(* The log policy. *)

(* Which rules of a policy match a file.                                     *)
Match(policy, f, i) == f \in PatternMatches[policy[i].pattern]

(* getLogLevel returns the level of the first rule that matches, and NOTICE   *)
(* when none does.                                                           *)
LEMMA FirstMatch ==
  ASSUME NEW policy, Len(policy) \in Nat, NEW f
  PROVE  /\ (\A i \in 1..Len(policy) : ~Match(policy, f, i)) => getLogLevel(policy, f) = "NOTICE"
         /\ \A i \in 1..Len(policy) :
              /\ Match(policy, f, i)
              /\ \A j \in 1..(i - 1) : ~Match(policy, f, j)
              => getLogLevel(policy, f) = policy[i].level
  <1> DEFINE I == {i \in 1..Len(policy) : Match(policy, f, i)}
  <1>1. getLogLevel(policy, f) = IF I # {} THEN policy[Min(I)].level ELSE "NOTICE"
    <2>1. SelectInSeq(policy, LAMBDA r : f \in PatternMatches[r.pattern])
             = IF I # {} THEN Min(I) ELSE 0
      BY DEF SelectInSeq, Match
    <2>2. ASSUME I # {} PROVE Min(I) \in I
      <3>0. I \in SUBSET Nat
        OBVIOUS
      <3>1. PICK x \in I : \A y \in I : x <= y
        <4> HIDE DEF I
        <4> QED  BY <2>2, <3>0, LeastNat
      <3> HIDE DEF I
      <3> QED  BY <3>1 DEF Min
    <2> QED  BY <2>1, <2>2 DEF getLogLevel
  <1>2. ASSUME NEW i \in 1..Len(policy), Match(policy, f, i),
               \A j \in 1..(i - 1) : ~Match(policy, f, j)
        PROVE  Min(I) = i
    <2>1. i \in I /\ I \subseteq Nat /\ \A y \in I : i <= y
      BY <1>2
    <2> HIDE DEF I
    <2>2. Min(I) \in I /\ \A y \in I : Min(I) <= y
      BY <2>1 DEF Min
    <2>3. Min(I) \in Nat /\ Min(I) <= i /\ i <= Min(I)
      BY <2>1, <2>2
    <2> QED  BY <2>3
  <1> QED  BY <1>1, <1>2

(* The policies that setLogPolicy is called with.                            *)
IsPolicy(p) == \E n \in Nat : p \in [1..n -> LogRule]

(* Texts of one piece each, put together, are the pieces.                    *)
LEMMA FlattenSingles ==
  ASSUME NEW n \in Nat \ {0}, NEW S, NEW x \in [1..n -> S]
  PROVE  FlattenSeq([i \in 1..n |-> <<x[i]>>]) = x
  <1> DEFINE seqs == [i \in 1..n |-> <<x[i]>>]
             Step(f) == [i \in 1..n |-> IF i = 1 THEN seqs[i] ELSE f[i - 1] \o seqs[i]]
             g == [i \in 1..n |-> SubSeq(x, 1, i)]
             F == CHOOSE f : f = Step(f)
  <1>1. Len(seqs) = n /\ \A i \in 1..n : seqs[i] = <<x[i]>>
    OBVIOUS
  <1>2. g = Step(g)
    <2>1. ASSUME NEW i \in 1..n
          PROVE  g[i] = IF i = 1 THEN seqs[i] ELSE g[i - 1] \o seqs[i]
      <3>1. CASE i = 1
        <4>1. x \in Seq(S) /\ Len(x) = n /\ 1 \in 1..n
          BY <3>1
        <4>2. SubSeq(x, 1, 1) = <<x[1]>>
          <5> DEFINE a == SubSeq(x, 1, 1)
          <5>1. a \in Seq(S) /\ Len(a) = 1 /\ a[1] = x[1]
            BY <4>1
          <5> HIDE DEF a
          <5>2. a = <<a[1]>>
            BY <5>1
          <5> QED BY <5>1, <5>2 DEF a
        <4>3. g[1] = SubSeq(x, 1, 1)
          BY <4>1
        <4> QED BY <1>1, <3>1, <4>2, <4>3
      <3>2. CASE i # 1
        <4>1. i - 1 \in 1..n /\ g[i - 1] = SubSeq(x, 1, i - 1) /\ g[i] = SubSeq(x, 1, i)
          BY <3>2
        <4>2. SubSeq(x, 1, i) = SubSeq(x, 1, i - 1) \o <<x[i]>>
          BY <3>2
        <4> QED BY <1>1, <3>2, <4>1, <4>2
      <3> QED BY <3>1, <3>2
    <2> QED BY <2>1
  <1>3. F = Step(F)
    <2> HIDE DEF g, Step
    <2> QED BY <1>2
  <1>4. \A i \in 1..n : F[i] = IF i = 1 THEN seqs[i] ELSE F[i - 1] \o seqs[i]
    <2> HIDE DEF F
    <2> QED BY <1>3
  <1>5. \A i \in 1..n : g[i] = IF i = 1 THEN seqs[i] ELSE g[i - 1] \o seqs[i]
    <2>1. PICK h : h = g
      OBVIOUS
    <2>2. h = Step(h)
      BY <1>2, <2>1
    <2> QED BY <2>1, <2>2
  <1>6. \A i \in 1..n : F[i] = g[i]
    <2> DEFINE B == {i \in 1..n : F[i] # g[i]}
    <2> HIDE DEF F, g, seqs
    <2>1. ASSUME B # {} PROVE FALSE
      <3>1. PICK b \in B : \A y \in B : b <= y
        <4>1. B \in SUBSET Nat
          OBVIOUS
        <4> HIDE DEF B
        <4> QED BY <2>1, <4>1, LeastNat
      <3>2. b \in 1..n /\ F[b] # g[b]
        BY <3>1
      <3>3. b # 1
        BY <1>4, <1>5, <3>2
      <3>4. b - 1 \in 1..n /\ b - 1 \notin B
        BY <3>1, <3>2, <3>3
      <3>5. F[b - 1] = g[b - 1]
        BY <3>4
      <3> QED BY <1>4, <1>5, <3>2, <3>3, <3>5
    <2> QED BY <2>1
  <1>7. F[n] = x
    <2>1. g[n] = x
      OBVIOUS
    <2> HIDE DEF F, g
    <2> QED BY <1>6, <2>1
  <1>8. FlattenSeq(seqs) = F[n]
    BY <1>1 DEF FlattenSeq
  <1> QED BY <1>7, <1>8

(* A sequence of length one.                                                 *)
LEMMA SingleSeq ==
  ASSUME NEW T, NEW x \in Seq(T), Len(x) = 1
  PROVE  x[1] \in T /\ x = <<x[1]>>
  OBVIOUS

(* The one piece of a rule without a comma.                                  *)
Piece(r) == IF r.pattern = EmptyPattern THEN <<r.level>> ELSE Append(r.pattern[1], r.level)

(* A piece that logPolicyFromString takes as it is.                          *)
IsPiece(piece) == piece # <<EmptyString>> /\ Items(piece, EmptyString) = piece /\ Len(piece) \in Nat \ {0}

(* A rule that is written down is read back as it was.                       *)
LEMMA RuleRoundTrip ==
  ASSUME NEW r \in LogRule, Len(r.pattern) = 1
  PROVE  RuleText(r) = <<Piece(r)>> /\ IsPiece(Piece(r)) /\ RuleFromParts(Piece(r)) = r
  <1>1. r = [pattern |-> r.pattern, level |-> r.level] /\ r.level # EmptyString /\ r.level \in STRING
    BY PatternAssumption DEF LogRule
  <1>2. CASE r.pattern = EmptyPattern
    <2>1. Len(<<r.level>>) = 1 /\ <<r.level>>[1] = r.level
      OBVIOUS
    <2>2. <<r.level>> # <<EmptyString>>
      BY <1>1
    <2> QED  BY <1>1, <1>2, <2>1, <2>2 DEF RuleFromParts, Last, RuleText, Piece, IsPiece, Items
  <1>3. CASE r.pattern # EmptyPattern
    <2>1. r.pattern \in Seq(Seq(STRING) \ {<<>>})
      BY PatternAssumption DEF LogRule
    <2>2. PICK parts \in Seq(STRING) \ {<<>>} : parts = r.pattern[1] /\ r.pattern = <<parts>>
      <3>1. r.pattern[1] \in Seq(STRING) \ {<<>>} /\ r.pattern = <<r.pattern[1]>>
        BY <2>1, SingleSeq
      <3> QED  BY <3>1
    <2> DEFINE s == Append(parts, r.level)
    <2>3. /\ Len(s) = Len(parts) + 1 /\ Len(parts) \in Nat \ {0}
          /\ s[Len(s)] = r.level
          /\ SubSeq(s, 1, Len(s) - 1) = parts
      BY <1>1, <2>2
    <2>4. Piece(r) = s
      BY <1>3, <2>2 DEF Piece
    <2>5. RuleText(r) = <<s>>
      <3>1. Last(r.pattern) = parts /\ Front(r.pattern) = <<>>
        BY <2>2 DEF Last, Front
      <3>2. Append(<<>>, s) = <<s>>
        OBVIOUS
      <3> HIDE DEF s
      <3> QED  BY <1>3, <3>1, <3>2 DEF RuleText, s
    <2>6. s # <<EmptyString>>
      BY <1>1, <2>3
    <2> HIDE DEF s
    <2>7. Items(s, EmptyString) = s /\ Len(s) \in Nat \ {0}
      BY <1>1, <2>3 DEF Items, Last
    <2>8. RuleFromParts(s) = [pattern |-> <<parts>>, level |-> r.level]
      <3>1. Len(s) # 1 /\ Front(s) = parts /\ Last(s) = r.level
        BY <2>3 DEF Last, Front
      <3> QED  BY <3>1 DEF RuleFromParts
    <2> QED  BY <1>1, <2>2, <2>4, <2>5, <2>6, <2>7, <2>8 DEF IsPiece
  <1> QED  BY <1>2, <1>3

(* What logPolicyFromString makes of pieces that it takes as they are.       *)
LEMMA PiecesRead ==
  ASSUME NEW text, Len(text) \in Nat \ {0}, \A i \in 1..Len(text) : IsPiece(text[i])
  PROVE  /\ Readable(text)
         /\ logPolicyFromString(text) = [i \in 1..Len(text) |-> RuleFromParts(text[i])]
  <1>1. Items(text, <<EmptyString>>) = text
    BY DEF Items, Last, IsPiece
  <1>2. \A i \in 1..Len(text) : Items(text[i], EmptyString) = text[i] /\ Len(text[i]) >= 1
    BY DEF IsPiece
  <1> QED  BY <1>1, <1>2 DEF Readable, logPolicyFromString

(* What a policy is read back as: the same rules, and one for the rest of the *)
(* files when the last rule was not already for all of them.                 *)
LEMMA PolicyReadBack ==
  ASSUME NEW p, IsPolicy(p), CommaFree(p)
  PROVE  LET q == logPolicyFromString(logPolicyToString(p))
             rest == [pattern |-> EmptyPattern, level |-> "NOTICE"]
         IN  /\ Readable(logPolicyToString(p))
             /\ Len(p) \in Nat /\ Len(q) \in Nat
             /\ \A i \in 1..Len(p) : q[i] = p[i]
             /\ \/ Len(q) = Len(p) /\ Len(p) > 0 /\ p[Len(p)].pattern = EmptyPattern
                \/ Len(q) = Len(p) + 1 /\ q[Len(q)] = rest
  <1> DEFINE q == logPolicyFromString(logPolicyToString(p))
             rest == [pattern |-> EmptyPattern, level |-> "NOTICE"]
             pieces == [i \in 1..Len(p) |-> Piece(p[i])]
             rules == FlattenSeq([i \in 1..Len(p) |-> RuleText(p[i])])
  <1>1. PICK n \in Nat : p \in [1..n -> LogRule]
    BY DEF IsPolicy
  <1>2. Len(p) = n /\ Len(pieces) = n /\ \A i \in 1..n : pieces[i] = Piece(p[i])
    BY <1>1
  <1>3. \A i \in 1..n : /\ RuleText(p[i]) = <<pieces[i]>> /\ IsPiece(pieces[i])
                        /\ RuleFromParts(pieces[i]) = p[i]
    BY <1>1, <1>2, RuleRoundTrip DEF CommaFree
  <1>4. RuleFromParts(<<"NOTICE">>) = rest /\ IsPiece(<<"NOTICE">>)
    <2>1. "NOTICE" # EmptyString
      BY Zenon DEF EmptyString
    <2>2. Len(<<"NOTICE">>) = 1 /\ <<"NOTICE">>[1] = "NOTICE" /\ <<"NOTICE">> # <<EmptyString>>
      BY <2>1
    <2> QED  BY <2>1, <2>2 DEF RuleFromParts, Last, IsPiece, Items
  <1>5. CASE n = 0
    <2>1. p = <<>>
      BY <1>1, <1>5
    <2> DEFINE one == << <<"NOTICE">> >>
    <2>2. logPolicyToString(p) = one
      BY <2>1 DEF logPolicyToString
    <2>3. Len(one) = 1 /\ one[1] = <<"NOTICE">>
      OBVIOUS
    <2> HIDE DEF one
    <2>4. Readable(one) /\ logPolicyFromString(one) = [i \in 1..1 |-> RuleFromParts(one[i])]
      BY <1>4, <2>3, PiecesRead
    <2>5. Len(q) = 1 /\ q[1] = rest
      BY <1>4, <2>2, <2>3, <2>4
    <2> QED  BY <1>2, <1>5, <2>2, <2>4, <2>5
  <1>6. ASSUME n > 0 PROVE rules = pieces
    <2> DEFINE S == {pieces[i] : i \in 1..n}
    <2>1. pieces \in [1..n -> S]
      BY <1>2
    <2>2. [i \in 1..Len(p) |-> RuleText(p[i])] = [i \in 1..n |-> <<pieces[i]>>]
      BY <1>2, <1>3
    <2> HIDE DEF pieces, S
    <2>3. n \in Nat \ {0}
      BY <1>6
    <2>4. FlattenSeq([i \in 1..n |-> <<pieces[i]>>]) = pieces
      BY <2>1, <2>3, FlattenSingles
    <2> QED  BY <2>2, <2>4
  <1>7. CASE n > 0 /\ p[n].pattern = EmptyPattern
    <2>1. logPolicyToString(p) = pieces
      <3> HIDE DEF pieces
      <3> QED  BY <1>1, <1>2, <1>6, <1>7 DEF logPolicyToString, Last
    <2> HIDE DEF pieces
    <2>2. Readable(pieces) /\ q = [i \in 1..n |-> RuleFromParts(pieces[i])]
      <3>1. Len(pieces) \in Nat \ {0} /\ \A i \in 1..Len(pieces) : IsPiece(pieces[i])
        BY <1>2, <1>3, <1>7
      <3>2. Readable(pieces)
            /\ logPolicyFromString(pieces) = [i \in 1..Len(pieces) |-> RuleFromParts(pieces[i])]
        BY <3>1, PiecesRead
      <3> QED  BY <1>2, <2>1, <3>2
    <2>3. Len(q) = n /\ \A i \in 1..n : q[i] = p[i]
      <3> HIDE DEF q
      <3> QED  BY <1>3, <2>2
    <2> QED  BY <1>2, <1>7, <2>1, <2>2, <2>3
  <1>8. CASE n > 0 /\ p[n].pattern # EmptyPattern
    <2> DEFINE all == Append(pieces, <<"NOTICE">>)
    <2>0. p # <<>> /\ Last(p).pattern # EmptyPattern
      BY <1>1, <1>2, <1>8 DEF Last
    <2>1. logPolicyToString(p) = all
      <3> HIDE DEF pieces
      <3> QED  BY <1>6, <1>8, <2>0 DEF logPolicyToString
    <2>2. Len(all) = n + 1 /\ all[n + 1] = <<"NOTICE">> /\ \A i \in 1..n : all[i] = pieces[i]
      <3>1. \E S : pieces \in Seq(S) /\ <<"NOTICE">> \in S
        <4> DEFINE S == {pieces[i] : i \in 1..n} \cup {<<"NOTICE">>}
        <4>1. pieces \in [1..n -> S]
          BY <1>2
        <4>2. <<"NOTICE">> \in S
          OBVIOUS
        <4> HIDE DEF pieces, S
        <4>3. pieces \in Seq(S)
          BY <4>1
        <4> QED  BY <4>2, <4>3
      <3> HIDE DEF pieces
      <3> QED  BY <3>1, <1>2
    <2> HIDE DEF all, pieces
    <2>3. Readable(all) /\ q = [i \in 1..(n + 1) |-> RuleFromParts(all[i])]
      <3>1. \A i \in 1..Len(all) : IsPiece(all[i])
        BY <1>3, <1>4, <2>2
      <3> QED  BY <2>1, <2>2, <3>1, PiecesRead
    <2>4. /\ Len(q) = n + 1 /\ \A i \in 1..n : q[i] = p[i]
          /\ q[n + 1] = rest
      <3> HIDE DEF q, rest
      <3> QED  BY <1>3, <1>4, <2>2, <2>3
    <2> QED  BY <1>2, <1>8, <2>1, <2>3, <2>4
  <1> QED  BY <1>5, <1>7, <1>8, <1>1

(* The last rule that is read back is for all files.                         *)
LEMMA LastReadBack ==
  ASSUME NEW p, IsPolicy(p), CommaFree(p)
  PROVE  Last(logPolicyFromString(logPolicyToString(p))).pattern = EmptyPattern
  <1> DEFINE q == logPolicyFromString(logPolicyToString(p))
             rest == [pattern |-> EmptyPattern, level |-> "NOTICE"]
  <1>1. /\ Len(p) \in Nat /\ Len(q) \in Nat
        /\ \A i \in 1..Len(p) : q[i] = p[i]
        /\ \/ Len(q) = Len(p) /\ Len(p) > 0 /\ p[Len(p)].pattern = EmptyPattern
           \/ Len(q) = Len(p) + 1 /\ q[Len(q)] = rest
    BY PolicyReadBack
  <1>2. rest.pattern = EmptyPattern
    OBVIOUS
  <1> HIDE DEF q, rest
  <1>3. Last(q).pattern = EmptyPattern
    BY <1>1, <1>2 DEF Last
  <1> QED  BY <1>3 DEF q

(* A policy without commas that is read back decides every file as it did.   *)
LEMMA SameDecision ==
  ASSUME NEW p, IsPolicy(p), CommaFree(p), NEW f \in LogFileName
  PROVE  LET q == logPolicyFromString(logPolicyToString(p))
         IN  getLogLevel(q, f) = getLogLevel(p, f)
  <1> DEFINE q == logPolicyFromString(logPolicyToString(p))
             rest == [pattern |-> EmptyPattern, level |-> "NOTICE"]
             m == Len(p)
             hit(i) == Match(p, f, i)
  <1> SUFFICES getLogLevel(q, f) = getLogLevel(p, f)
    OBVIOUS
  <1>1. /\ m \in Nat /\ Len(q) \in Nat
        /\ \A i \in 1..m : q[i] = p[i]
        /\ \/ Len(q) = m /\ m > 0 /\ p[m].pattern = EmptyPattern
           \/ Len(q) = m + 1 /\ q[Len(q)] = rest
    BY PolicyReadBack
  <1>2. rest.pattern = EmptyPattern /\ rest.level = "NOTICE"
    OBVIOUS
  <1>3. Last(q).pattern = EmptyPattern
    BY LastReadBack
  <1> HIDE DEF q, rest
  <1>4. \A i \in 1..m : Match(q, f, i) <=> hit(i)
    BY <1>1 DEF Match
  <1>5. Match(q, f, Len(q))
    BY <1>3, PatternAssumption DEF Match, Last
  <1>6. m <= Len(q) /\ Len(q) > 0
    BY <1>1
  <1>7. CASE \A i \in 1..m : ~hit(i)
    <2>1. getLogLevel(p, f) = "NOTICE"
      BY <1>7, <1>1, FirstMatch
    <2>2. Len(q) = m + 1
      BY <1>1, <1>4, <1>5, <1>7
    <2>3. getLogLevel(q, f) = q[m + 1].level
      <3>1. \A j \in 1..(Len(q) - 1) : ~Match(q, f, j)
        BY <1>1, <1>4, <1>7, <2>2
      <3> HIDE DEF hit, m
      <3> QED  BY <3>1, <1>1, <1>5, <1>6, <2>2, FirstMatch
    <2> QED  BY <1>1, <1>2, <1>3, <2>1, <2>2, <2>3
  <1>8. CASE \E i \in 1..m : hit(i)
    <2> DEFINE H == {i \in 1..m : hit(i)}
    <2>1. H \in SUBSET Nat /\ H # {}
      BY <1>1, <1>8
    <2>2. PICK i \in H : \A j \in H : i <= j
      <3> HIDE DEF H
      <3> QED  BY <2>1, LeastNat
    <2>3. i \in 1..m /\ Match(p, f, i) /\ \A j \in 1..(i - 1) : ~Match(p, f, j)
      BY <1>1, <2>2
    <2>4. i \in 1..Len(q) /\ Match(q, f, i) /\ \A j \in 1..(i - 1) : ~Match(q, f, j)
      <3> HIDE DEF m
      <3> QED  BY <1>1, <1>4, <1>6, <2>3
    <2>5. getLogLevel(p, f) = p[i].level /\ getLogLevel(q, f) = q[i].level
      <3> HIDE DEF H, hit
      <3> QED  BY <1>1, <2>3, <2>4, FirstMatch
    <2> QED  BY <1>1, <1>3, <2>3, <2>5
  <1> QED  BY <1>7, <1>8

(* The inductive invariant of the log policy: the cache has an entry for      *)
(* every file, "unknown" or what the policy says, and the policy is one.      *)
LogInv ==
  /\ IsPolicy(logPolicy)
  /\ isLoggingCache = [f \in LogFileName |-> isLoggingCache[f]]
  /\ CacheFresh

(* The first policy has no rules and nothing is cached.                      *)
LEMMA LogInvInit == DebugInit => LogInv
  <1> SUFFICES ASSUME DebugInit PROVE LogInv
    OBVIOUS
  <1>1. <<>> \in [1..0 -> LogRule]
    OBVIOUS
  <1> QED  BY <1>1 DEF DebugInit, LogInv, IsPolicy, CacheFresh

(* setLogPolicy empties the cache, isLogging fills in what the policy says.  *)
LEMMA LogInvNext == LogInv /\ [DebugNext]_debugVars => LogInv'
  <1> SUFFICES ASSUME LogInv, [DebugNext]_debugVars PROVE LogInv'
    OBVIOUS
  <1>1. ASSUME NEW n \in 0..MaxRules, NEW policy \in [1..n -> LogRule], setLogPolicy(policy)
        PROVE  LogInv'
    <2>1. IsPolicy(policy)
      BY <1>1 DEF IsPolicy
    <2> QED  BY <1>1, <2>1 DEF setLogPolicy, LogInv, CacheFresh
  <1>2. ASSUME NEW level, NEW file \in LogFileName, isLogging(level, file)
        PROVE  LogInv'
    <2> DEFINE verbosity == IF isLoggingCache[file] = "unknown"
                            THEN getLogLevel(logPolicy, file) ELSE isLoggingCache[file]
    <2>1. verbosity = getLogLevel(logPolicy, file)
      BY DEF LogInv, CacheFresh
    <2>2. /\ isLoggingCache' = [isLoggingCache EXCEPT ![file] = verbosity]
          /\ logPolicy' = logPolicy
      BY <1>2 DEF isLogging
    <2> HIDE DEF verbosity
    <2> QED  BY <2>1, <2>2 DEF LogInv, CacheFresh
  <1>3. CASE UNCHANGED debugVars
    BY <1>3 DEF debugVars, LogInv, CacheFresh
  <1> QED  BY <1>1, <1>2, <1>3 DEF DebugNext

(* For any policies, files and patterns, the cache of isLogging agrees with   *)
(* the policy, and a policy whose patterns hold no comma, written down and    *)
(* read back, decides every file alike.                                      *)
THEOREM LogsAsThePolicySays ==
  DebugInit /\ [][DebugNext]_debugVars => [](CacheFresh /\ PolicyRoundTrip)
  <1>1. LogInv => CacheFresh /\ PolicyRoundTrip
    <2> SUFFICES ASSUME LogInv, CommaFree(logPolicy)
                 PROVE  LET text == logPolicyToString(logPolicy)
                            back == logPolicyFromString(text)
                        IN  /\ Readable(text)
                            /\ Last(back).pattern = EmptyPattern
                            /\ \A f \in LogFileName :
                                 getLogLevel(back, f) = getLogLevel(logPolicy, f)
      BY DEF LogInv, PolicyRoundTrip
    <2>1. IsPolicy(logPolicy)
      BY DEF LogInv
    <2>2. Readable(logPolicyToString(logPolicy))
      BY <2>1, PolicyReadBack
    <2>3. Last(logPolicyFromString(logPolicyToString(logPolicy))).pattern = EmptyPattern
      BY <2>1, LastReadBack
    <2> QED  BY <2>1, <2>2, <2>3, SameDecision
  <1> QED  BY <1>1, LogInvInit, LogInvNext, PTL

-----------------------------------------------------------------------------
(* FakeDriver. *)

(* The types of the variables.                                               *)
FakeTypeOK ==
  /\ driverState \in [FakeDrivers -> {"none", "up", "deregistered", "destroyed"}]
  /\ nicMutex \in [FakeDrivers -> FakeThread \cup {NoOne}]
  /\ priorityQueue \in [FakeDrivers -> [FakePriority -> Seq(FakePacket)]]
  /\ fakeHeap \subseteq FakePacket /\ fakeHeld \subseteq FakePacket
  /\ delivery \in [FakeThread -> [to : FakeDrivers \cup {NoOne}, priority : FakePriority]]

(* Some place of the queues q holds packet k.                                *)
Holds(q, k) ==
  \E d \in FakeDrivers, i \in FakePriority : \E j \in 1..Len(q[d][i]) : q[d][i][j] = k

(* No packet is at two places of the queues.                                 *)
Once(q) ==
  \A d, e \in FakeDrivers, i, j \in FakePriority :
    \A a \in 1..Len(q[d][i]), b \in 1..Len(q[e][j]) :
      q[d][i][a] = q[e][j][b] => d = e /\ i = j /\ a = b

(* Two places with the same packet are one place.                            *)
LEMMA OnceAt ==
  ASSUME NEW q, Once(q), NEW d \in FakeDrivers, NEW e \in FakeDrivers,
         NEW i \in FakePriority, NEW j \in FakePriority,
         NEW a \in 1..Len(q[d][i]), NEW b \in 1..Len(q[e][j]), q[d][i][a] = q[e][j][b]
  PROVE  d = e /\ i = j /\ a = b
  BY DEF Once

(* FakePacketsOwned, place by place.                                         *)
Owned(heap, held, q) ==
  /\ \A k : k \in heap <=> (k \in held \/ Holds(q, k))
  /\ \A k : Holds(q, k) => k \notin held
  /\ Once(q)

(* The two ways to say it are the same.                                      *)
LEMMA OwnedPlaces == FakeTypeOK => (FakePacketsOwned <=> Owned(fakeHeap, fakeHeld, priorityQueue))
  <1> SUFFICES ASSUME FakeTypeOK
               PROVE  FakePacketsOwned <=> Owned(fakeHeap, fakeHeld, priorityQueue)
    OBVIOUS
  <1> DEFINE q == priorityQueue
  <1>0. \A d \in FakeDrivers, i \in FakePriority :
          q[d][i] \in Seq(FakePacket) /\ DOMAIN q[d][i] = 1..Len(q[d][i])
    BY DEF FakeTypeOK
  <1>1. \A k : \A d \in FakeDrivers : k \in QueuedPackets(d) <=>
          \E i \in FakePriority : \E j \in 1..Len(q[d][i]) : q[d][i][j] = k
    BY <1>0 DEF QueuedPackets, ToSet
  <1>2. \A k : k \in UNION {QueuedPackets(d) : d \in FakeDrivers} <=> Holds(q, k)
    BY <1>1 DEF Holds
  <1>3. (fakeHeap = fakeHeld \cup UNION {QueuedPackets(d) : d \in FakeDrivers}) <=>
        \A k : k \in fakeHeap <=> (k \in fakeHeld \/ Holds(q, k))
    BY <1>2
  <1>4. (\A d \in FakeDrivers : QueuedPackets(d) \cap fakeHeld = {}) <=>
        \A k : Holds(q, k) => k \notin fakeHeld
    BY <1>1 DEF Holds
  <1> QED  BY <1>3, <1>4 DEF FakePacketsOwned, Owned, Once

(* operator new returns an address that is free.                             *)
LEMMA NewPacketFree ==
  ASSUME FakeTypeOK, fakeHeap # FakePacket
  PROVE  NewPacket \in FakePacket \ fakeHeap
  BY DEF FakeTypeOK, NewPacket

(* The queues with a packet at the end of one of them, the queues without the *)
(* first n[i] packets of each queue of NIC d, and the packets taken that way. *)
WithPacket(q, d, i, new) == [q EXCEPT ![d][i] = Append(@, new)]
WithoutFirst(q, d, n) ==
  [q EXCEPT ![d] = [i \in FakePriority |-> SubSeq(q[d][i], n[i] + 1, Len(q[d][i]))]]
TakenFirst(q, d, n) == UNION {{q[d][i][j] : j \in 1..n[i]} : i \in FakePriority}

(* A copy that is queued has one place.                                      *)
LEMMA AppendOnce ==
  ASSUME NEW q \in [FakeDrivers -> [FakePriority -> Seq(FakePacket)]],
         NEW d \in FakeDrivers, NEW i \in FakePriority, NEW new \in FakePacket,
         NEW heap, NEW held, Owned(heap, held, q), new \notin heap,
         NEW r, r = WithPacket(q, d, i, new)
  PROVE  /\ r \in [FakeDrivers -> [FakePriority -> Seq(FakePacket)]]
         /\ Owned(heap \cup {new}, held, r)
  <1> USE DEF WithPacket
  <1>1. r \in [FakeDrivers -> [FakePriority -> Seq(FakePacket)]]
    OBVIOUS
  <1>2. \A e \in FakeDrivers, j \in FakePriority :
          q[e][j] \in Seq(FakePacket) /\ Len(q[e][j]) \in Nat
    OBVIOUS
  <1>3. /\ Len(r[d][i]) = Len(q[d][i]) + 1
        /\ r[d][i][Len(q[d][i]) + 1] = new
        /\ \A a \in 1..Len(q[d][i]) : r[d][i][a] = q[d][i][a]
        /\ \A e \in FakeDrivers, j \in FakePriority : e # d \/ j # i => r[e][j] = q[e][j]
    BY <1>2
  <1>4. ~Holds(q, new)
    BY DEF Owned
  <1>5. \A k : Holds(r, k) <=> Holds(q, k) \/ k = new
    <2>1. ASSUME NEW k, Holds(r, k) PROVE Holds(q, k) \/ k = new
      <3>1. PICK e \in FakeDrivers, j \in FakePriority : \E a \in 1..Len(r[e][j]) : r[e][j][a] = k
        BY <2>1 DEF Holds
      <3>2. PICK a \in 1..Len(r[e][j]) : r[e][j][a] = k
        BY <3>1
      <3> QED  BY <3>2, <1>2, <1>3 DEF Holds
    <2>2. ASSUME NEW k, Holds(q, k) PROVE Holds(r, k)
      <3>1. PICK e \in FakeDrivers, j \in FakePriority : \E a \in 1..Len(q[e][j]) : q[e][j][a] = k
        BY <2>2 DEF Holds
      <3>2. PICK a \in 1..Len(q[e][j]) : q[e][j][a] = k
        BY <3>1
      <3>3. a \in 1..Len(r[e][j]) /\ r[e][j][a] = k
        BY <3>2, <1>2, <1>3
      <3> QED  BY <3>3 DEF Holds
    <2>3. Holds(r, new)
      <3>1. Len(q[d][i]) + 1 \in 1..Len(r[d][i])
        BY <1>2, <1>3
      <3> QED  BY <3>1, <1>3 DEF Holds
    <2> QED  BY <2>1, <2>2, <2>3
  <1>6. Once(r)
    <2> SUFFICES ASSUME NEW e1 \in FakeDrivers, NEW e2 \in FakeDrivers,
                        NEW i1 \in FakePriority, NEW i2 \in FakePriority,
                        NEW a \in 1..Len(r[e1][i1]), NEW b \in 1..Len(r[e2][i2]),
                        r[e1][i1][a] = r[e2][i2][b]
                 PROVE  e1 = e2 /\ i1 = i2 /\ a = b
      BY DEF Once
    <2>1. (e1 = d /\ i1 = i /\ a = Len(q[d][i]) + 1 /\ r[e1][i1][a] = new)
           \/ (a \in 1..Len(q[e1][i1]) /\ r[e1][i1][a] = q[e1][i1][a])
      BY <1>2, <1>3, SMTT(20)
    <2>2. (e2 = d /\ i2 = i /\ b = Len(q[d][i]) + 1 /\ r[e2][i2][b] = new)
           \/ (b \in 1..Len(q[e2][i2]) /\ r[e2][i2][b] = q[e2][i2][b])
      BY <1>2, <1>3
    <2>3. \A e \in FakeDrivers, j \in FakePriority : \A c \in 1..Len(q[e][j]) : q[e][j][c] # new
      BY <1>4 DEF Holds
    <2>4. Once(q)
      BY DEF Owned
    <2> QED  BY <2>1, <2>2, <2>3, <2>4 DEF Once
  <1> QED  BY <1>1, <1>4, <1>5, <1>6 DEF Owned

(* Packets that are received move from their queues to the application.      *)
LEMMA TakeOnce ==
  ASSUME NEW q \in [FakeDrivers -> [FakePriority -> Seq(FakePacket)]],
         NEW d \in FakeDrivers,
         NEW n \in [FakePriority -> Nat], \A i \in FakePriority : n[i] <= Len(q[d][i]),
         NEW heap, NEW held, Owned(heap, held, q),
         NEW r, r = WithoutFirst(q, d, n),
         NEW got, got = TakenFirst(q, d, n)
  PROVE  /\ r \in [FakeDrivers -> [FakePriority -> Seq(FakePacket)]]
         /\ got \subseteq FakePacket
         /\ Owned(heap, held \cup got, r)
  <1> USE DEF WithoutFirst, TakenFirst
  <1>2. \A e \in FakeDrivers, j \in FakePriority :
          q[e][j] \in Seq(FakePacket) /\ Len(q[e][j]) \in Nat
    OBVIOUS
  <1>3. \A j \in FakePriority :
          /\ r[d][j] \in Seq(FakePacket)
          /\ Len(r[d][j]) = Len(q[d][j]) - n[j]
          /\ \A a \in 1..Len(r[d][j]) : r[d][j][a] = q[d][j][a + n[j]]
    <2> TAKE j \in FakePriority
    <2> DEFINE s == q[d][j]
               m == n[j]
               u == SubSeq(s, m + 1, Len(s))
    <2>1. r[d][j] = u
      OBVIOUS
    <2>2. s \in Seq(FakePacket) /\ m \in Nat /\ m <= Len(s)
      BY <1>2
    <2>3. u \in Seq(FakePacket) /\ Len(u) = Len(s) - m /\ \A a \in 1..Len(u) : u[a] = s[a + m]
      <3> HIDE DEF s, m
      <3> QED  BY <2>2
    <2> QED  BY <2>1, <2>3
  <1>4. \A e \in FakeDrivers : e # d => r[e] = q[e]
    OBVIOUS
  <1>1. r \in [FakeDrivers -> [FakePriority -> Seq(FakePacket)]]
    BY <1>3, <1>4
  <1>5. got \subseteq FakePacket
    <2> SUFFICES ASSUME NEW i \in FakePriority, NEW j \in 1..n[i] PROVE q[d][i][j] \in FakePacket
      OBVIOUS
    <2> QED  BY <1>2
  <1>6. \A k : k \in got <=> \E i \in FakePriority : \E j \in 1..n[i] : q[d][i][j] = k
    OBVIOUS
  <1>7. \A e \in FakeDrivers, j \in FakePriority : \A a \in 1..Len(r[e][j]) :
          LET b == IF e = d THEN a + n[j] ELSE a
          IN  b \in 1..Len(q[e][j]) /\ r[e][j][a] = q[e][j][b] /\ (e = d => b > n[j])
    BY <1>2, <1>3, <1>4
  <1>8. \A k : Holds(r, k) => Holds(q, k)
    BY <1>7, SMTT(20) DEF Holds
  <1>9. \A k : k \in got => Holds(q, k)
    <2> SUFFICES ASSUME NEW i \in FakePriority, NEW j \in 1..n[i] PROVE Holds(q, q[d][i][j])
      BY <1>6
    <2>1. j \in 1..Len(q[d][i])
      BY <1>2
    <2> QED  BY <2>1 DEF Holds
  <1>10. \A k : Holds(q, k) => k \in got \/ Holds(r, k)
    <2> SUFFICES ASSUME NEW k, Holds(q, k), k \notin got PROVE Holds(r, k)
      OBVIOUS
    <2>0. PICK e \in FakeDrivers, j \in FakePriority : \E a \in 1..Len(q[e][j]) : q[e][j][a] = k
      BY DEF Holds
    <2>3. PICK a \in 1..Len(q[e][j]) : q[e][j][a] = k
      BY <2>0
    <2>1. CASE e # d
      BY <2>1, <2>3, <1>4 DEF Holds
    <2>2. CASE e = d
      <3>1. a > n[j]
        BY <2>2, <2>3, <1>2, <1>6
      <3>2. a - n[j] \in 1..Len(r[d][j]) /\ r[d][j][a - n[j]] = q[d][j][a]
        BY <3>1, <2>2, <1>2, <1>3
      <3> QED  BY <3>2, <2>2, <2>3 DEF Holds
    <2> QED  BY <2>1, <2>2
  <1>11. Once(q)
    BY DEF Owned
  <1>12. \A k : Holds(r, k) => k \notin got
    <2> SUFFICES ASSUME NEW k, Holds(r, k), k \in got PROVE FALSE
      OBVIOUS
    <2>4. PICK e \in FakeDrivers, j \in FakePriority : \E a \in 1..Len(r[e][j]) : r[e][j][a] = k
      BY DEF Holds
    <2>5. PICK a \in 1..Len(r[e][j]) : r[e][j][a] = k
      BY <2>4
    <2>6. PICK i \in FakePriority : \E c \in 1..n[i] : q[d][i][c] = k
      BY <1>6
    <2>7. PICK c \in 1..n[i] : q[d][i][c] = k
      BY <2>6
    <2> DEFINE b == IF e = d THEN a + n[j] ELSE a
    <2>1. b \in 1..Len(q[e][j]) /\ q[e][j][b] = q[d][i][c] /\ (e = d => b > n[j])
      BY <1>7, <2>5, <2>7
    <2> HIDE DEF b
    <2>2. c \in 1..Len(q[d][i])
      BY <1>2
    <2>3. e = d /\ j = i /\ b = c
      <3> HIDE DEF WithoutFirst, TakenFirst
      <3>1. q[e][j][b] = q[d][i][c]
        BY <2>1
      <3>2. b \in 1..Len(q[e][j])
        BY <2>1
      <3> QED  BY <3>1, <3>2, <2>2, <1>11, OnceAt
    <2> QED  BY <2>1, <2>3, <1>2
  <1>13. Once(r)
    <2> SUFFICES ASSUME NEW e1 \in FakeDrivers, NEW e2 \in FakeDrivers,
                        NEW i1 \in FakePriority, NEW i2 \in FakePriority,
                        NEW a \in 1..Len(r[e1][i1]), NEW b \in 1..Len(r[e2][i2]),
                        r[e1][i1][a] = r[e2][i2][b]
                 PROVE  e1 = e2 /\ i1 = i2 /\ a = b
      BY DEF Once
    <2> DEFINE a0 == IF e1 = d THEN a + n[i1] ELSE a
               b0 == IF e2 = d THEN b + n[i2] ELSE b
    <2>1. a0 \in 1..Len(q[e1][i1]) /\ b0 \in 1..Len(q[e2][i2]) /\ q[e1][i1][a0] = q[e2][i2][b0]
      BY <1>7
    <2>2. e1 = e2 /\ i1 = i2 /\ a0 = b0
      <3> HIDE DEF a0, b0
      <3> QED  BY <2>1, <1>11 DEF Once
    <2>3. a \in Int /\ b \in Int /\ n[i1] \in Int
      BY <1>1
    <2> QED  BY <2>2, <2>3
  <1> QED  BY <1>1, <1>5, <1>8, <1>9, <1>10, <1>12, <1>13 DEF Owned

(* The packets of one NIC are deleted with it.                               *)
LEMMA DestroyOnce ==
  ASSUME NEW q \in [FakeDrivers -> [FakePriority -> Seq(FakePacket)]],
         NEW d \in FakeDrivers, NEW heap, NEW held, Owned(heap, held, q),
         NEW gone, gone = UNION {ToSet(q[d][i]) : i \in FakePriority},
         NEW r, r = [q EXCEPT ![d] = [i \in FakePriority |-> <<>>]]
  PROVE  /\ r \in [FakeDrivers -> [FakePriority -> Seq(FakePacket)]]
         /\ Owned(heap \ gone, held, r)
  <1>1. r \in [FakeDrivers -> [FakePriority -> Seq(FakePacket)]]
    OBVIOUS
  <1>2. /\ \A i \in FakePriority : r[d][i] = <<>> /\ Len(r[d][i]) = 0
        /\ \A e \in FakeDrivers : e # d => r[e] = q[e]
    OBVIOUS
  <1>3. \A k : k \in gone <=> \E i \in FakePriority : \E j \in 1..Len(q[d][i]) : q[d][i][j] = k
    <2>1. \A i \in FakePriority : DOMAIN q[d][i] = 1..Len(q[d][i])
      OBVIOUS
    <2> QED  BY <2>1 DEF ToSet
  <1>4. \A k : Holds(r, k) => Holds(q, k)
    BY <1>2 DEF Holds
  <1>5. Once(q)
    BY DEF Owned
  <1>6. \A k : Holds(r, k) => k \notin gone
    <2> SUFFICES ASSUME NEW k, Holds(r, k), k \in gone PROVE FALSE
      OBVIOUS
    <2>1. PICK e \in FakeDrivers, j \in FakePriority : \E a \in 1..Len(r[e][j]) : r[e][j][a] = k
      BY DEF Holds
    <2>2. PICK a \in 1..Len(r[e][j]) : r[e][j][a] = k
      BY <2>1
    <2>3. PICK i \in FakePriority : \E b \in 1..Len(q[d][i]) : q[d][i][b] = k
      BY <1>3
    <2>4. PICK b \in 1..Len(q[d][i]) : q[d][i][b] = k
      BY <2>3
    <2>5. e # d
      BY <1>2, <2>2
    <2>6. a \in 1..Len(q[e][j]) /\ q[e][j][a] = q[d][i][b]
      BY <1>2, <2>2, <2>4, <2>5
    <2> QED  BY <2>4, <2>5, <2>6, <1>5, OnceAt
  <1>7. \A k : Holds(q, k) /\ k \notin gone => Holds(r, k)
    <2> SUFFICES ASSUME NEW k, Holds(q, k), k \notin gone PROVE Holds(r, k)
      OBVIOUS
    <2>1. PICK e \in FakeDrivers, j \in FakePriority : \E a \in 1..Len(q[e][j]) : q[e][j][a] = k
      BY DEF Holds
    <2>2. e # d
      BY <1>3, <2>1
    <2> QED  BY <1>2, <2>1, <2>2 DEF Holds
  <1>8. \A k : k \in gone => Holds(q, k)
    BY <1>3 DEF Holds
  <1>9. Once(r)
    BY <1>2, <1>5 DEF Once
  <1> QED  BY <1>1, <1>4, <1>6, <1>7, <1>8, <1>9 DEF Owned

(* The inductive invariant of the fake network.                              *)
FakeInv == FakeTypeOK /\ DeliversToLiveNic /\ Owned(fakeHeap, fakeHeld, priorityQueue)

(* No packets and no deliveries at first.                                    *)
LEMMA FakeInvInit == FakeInit => FakeInv
  <1> SUFFICES ASSUME FakeInit PROVE FakeInv
    OBVIOUS
  <1>1. 0 \in FakePriority
    BY FakeAssumption DEF FakePriority
  <1>2. FakeTypeOK
    BY <1>1 DEF FakeInit, FakeTypeOK, NoDelivery
  <1>3. DeliversToLiveNic
    BY DEF FakeInit, DeliversToLiveNic, NoDelivery
  <1>4. \A d \in FakeDrivers, i \in FakePriority : Len(priorityQueue[d][i]) = 0
    BY DEF FakeInit
  <1>5. Owned(fakeHeap, fakeHeld, priorityQueue)
    BY <1>4 DEF FakeInit, Owned, Holds, Once
  <1> QED  BY <1>2, <1>3, <1>5 DEF FakeInv

(* Every step of drivers, threads and applications preserves the invariant.  *)
LEMMA FakeInvNext == FakeInv /\ [FakeNext]_fakeVars => FakeInv'
  <1> SUFFICES ASSUME FakeInv, [FakeNext]_fakeVars PROVE FakeInv'
    OBVIOUS
  <1>0. FakeTypeOK /\ DeliversToLiveNic /\ Owned(fakeHeap, fakeHeld, priorityQueue)
    BY DEF FakeInv
  <1>1. ASSUME NEW d \in FakeDrivers, constructFake(d) PROVE FakeInv'
    BY <1>0, <1>1 DEF constructFake, FakeInv, FakeTypeOK, DeliversToLiveNic
  <1>2. ASSUME NEW d \in FakeDrivers, deregisterFake(d) PROVE FakeInv'
    BY <1>0, <1>2 DEF deregisterFake, FakeInv, FakeTypeOK, DeliversToLiveNic
  <1>3. ASSUME NEW d \in FakeDrivers, destroyFakeNic(d) PROVE FakeInv'
    <2>1. /\ priorityQueue' \in [FakeDrivers -> [FakePriority -> Seq(FakePacket)]]
          /\ Owned(fakeHeap', fakeHeld', priorityQueue')
      BY <1>0, <1>3, DestroyOnce DEF destroyFakeNic, FakeTypeOK, DeletedWithNic, QueuedPackets
    <2>2. FakeTypeOK'
      BY <1>0, <1>3, <2>1 DEF destroyFakeNic, FakeTypeOK
    <2>3. DeliversToLiveNic'
      BY <1>0, <1>3, FakeAssumption DEF destroyFakeNic, FakeTypeOK, DeliversToLiveNic
    <2> QED  BY <2>1, <2>2, <2>3 DEF FakeInv
  <1>4. ASSUME NEW rate, setPacketLossRate(rate) PROVE FakeInv'
    BY <1>0, <1>4 DEF setPacketLossRate, FakeInv, FakeTypeOK, DeliversToLiveNic
  <1>5. CASE allocFakePacket
    <2>1. NewPacket \in FakePacket \ fakeHeap
      BY <1>0, <1>5, NewPacketFree DEF allocFakePacket
    <2>2. /\ fakeHeap' = fakeHeap \cup {NewPacket} /\ fakeHeld' = fakeHeld \cup {NewPacket}
          /\ UNCHANGED <<driverState, nicMutex, priorityQueue, delivery>>
      BY <1>5 DEF allocFakePacket
    <2> HIDE DEF NewPacket
    <2>3. Owned(fakeHeap', fakeHeld', priorityQueue')
      BY <1>0, <2>1, <2>2 DEF Owned
    <2>4. FakeTypeOK' /\ DeliversToLiveNic'
      BY <1>0, <2>1, <2>2 DEF FakeTypeOK, DeliversToLiveNic
    <2> QED  BY <2>3, <2>4 DEF FakeInv
  <1>6. ASSUME NEW t \in FakeThread, NEW d \in FakeDrivers, NEW i \in FakePriority,
               sendFakePacket(t, d, i)
        PROVE  FakeInv'
    <2>1. /\ delivery[t] = NoDelivery /\ driverState[d] = "up"
          /\ nicMutex[d] = NoOne /\ nicMutex' = [nicMutex EXCEPT ![d] = t]
          /\ delivery' = [delivery EXCEPT ![t] = [to |-> d, priority |-> i]]
          /\ UNCHANGED <<driverState, priorityQueue, fakeHeap, fakeHeld>>
      BY <1>6 DEF sendFakePacket, LockNic, registered
    <2>2. FakeTypeOK'
      BY <1>0, <2>1 DEF FakeTypeOK
    <2>3. DeliversToLiveNic'
      BY <1>0, <2>1, FakeAssumption DEF FakeTypeOK, DeliversToLiveNic
    <2> QED  BY <1>0, <2>1, <2>2, <2>3 DEF FakeInv
  <1>7. ASSUME NEW t \in FakeThread, deliverFakePacket(t) PROVE FakeInv'
    <2> DEFINE d == delivery[t].to
               i == delivery[t].priority
    <2>1. /\ d # NoOne /\ fakeHeap # FakePacket
          /\ fakeHeap' = fakeHeap \cup {NewPacket}
          /\ priorityQueue' = [priorityQueue EXCEPT ![d][i] = Append(@, NewPacket)]
          /\ nicMutex' = [nicMutex EXCEPT ![d] = NoOne]
          /\ delivery' = [delivery EXCEPT ![t] = NoDelivery]
          /\ UNCHANGED <<driverState, fakeHeld>>
      BY <1>7 DEF deliverFakePacket
    <2>2. NewPacket \in FakePacket \ fakeHeap
      BY <1>0, <2>1, NewPacketFree
    <2>3. d \in FakeDrivers /\ i \in FakePriority
      BY <1>0, <2>1 DEF FakeTypeOK
    <2>4. /\ priorityQueue' \in [FakeDrivers -> [FakePriority -> Seq(FakePacket)]]
          /\ Owned(fakeHeap', fakeHeld', priorityQueue')
      <3>1. priorityQueue' = WithPacket(priorityQueue, d, i, NewPacket)
        BY <2>1 DEF WithPacket
      <3>2. priorityQueue \in [FakeDrivers -> [FakePriority -> Seq(FakePacket)]]
        BY <1>0 DEF FakeTypeOK
      <3> HIDE DEF NewPacket, d, i
      <3> QED  BY <1>0, <2>1, <2>2, <2>3, <3>1, <3>2, AppendOnce
    <2>5. NoDelivery \in [to : FakeDrivers \cup {NoOne}, priority : FakePriority]
      BY FakeAssumption DEF NoDelivery, FakePriority
    <2>6. FakeTypeOK'
      <3> HIDE DEF NewPacket, d, i, NoDelivery
      <3> QED  BY <1>0, <2>1, <2>2, <2>3, <2>4, <2>5 DEF FakeTypeOK
    <2>7. DeliversToLiveNic'
      <3>1. NoDelivery.to = NoOne
        BY DEF NoDelivery
      <3> QED  BY <1>0, <2>1, <2>3, <3>1 DEF FakeTypeOK, DeliversToLiveNic
    <2> QED  BY <2>4, <2>6, <2>7 DEF FakeInv
  <1>8. ASSUME NEW d \in FakeDrivers, NEW max \in Nat, receiveFakePackets(d, max) PROVE FakeInv'
    <2> DEFINE q == priorityQueue
    <2>1. PICK room \in [0..NUM_PRIORITIES -> 0..max] :
            /\ priorityQueue' = [priorityQueue EXCEPT ![d] =
                 [i \in FakePriority |-> SubSeq(q[d][i], Taken(q[d][i], room[i + 1]) + 1, Len(q[d][i]))]]
            /\ fakeHeld' = fakeHeld \cup
                 UNION {{q[d][i][j] : j \in 1..Taken(q[d][i], room[i + 1])} : i \in FakePriority}
            /\ UNCHANGED <<driverState, nicMutex, fakeHeap, delivery>>
      BY <1>8 DEF receiveFakePackets
    <2> DEFINE n == [i \in FakePriority |-> Taken(q[d][i], room[i + 1])]
               got == TakenFirst(q, d, n)
    <2>2. \A i \in FakePriority : room[i + 1] \in Nat /\ Len(q[d][i]) \in Nat
      BY <1>0, FakeAssumption DEF FakePriority, FakeTypeOK
    <2>3. n \in [FakePriority -> Nat] /\ \A i \in FakePriority : n[i] <= Len(q[d][i])
      BY <2>2 DEF Taken
    <2>4. priorityQueue' = WithoutFirst(q, d, n) /\ fakeHeld' = fakeHeld \cup got
      <3>1. [i \in FakePriority |-> SubSeq(q[d][i], Taken(q[d][i], room[i + 1]) + 1, Len(q[d][i]))]
              = [i \in FakePriority |-> SubSeq(q[d][i], n[i] + 1, Len(q[d][i]))]
        OBVIOUS
      <3>2. \A i \in FakePriority : n[i] = Taken(q[d][i], room[i + 1])
        OBVIOUS
      <3>3. UNION {{q[d][i][j] : j \in 1..Taken(q[d][i], room[i + 1])} : i \in FakePriority}
              = UNION {{q[d][i][j] : j \in 1..n[i]} : i \in FakePriority}
        <4> HIDE DEF n
        <4> QED  BY <3>2
      <3> HIDE DEF n
      <3> QED  BY <2>1, <3>1, <3>3 DEF WithoutFirst, TakenFirst
    <2>5. /\ priorityQueue' \in [FakeDrivers -> [FakePriority -> Seq(FakePacket)]]
          /\ got \subseteq FakePacket
          /\ Owned(fakeHeap, fakeHeld \cup got, priorityQueue')
      <3>1. q \in [FakeDrivers -> [FakePriority -> Seq(FakePacket)]]
        BY <1>0 DEF FakeTypeOK
      <3> HIDE DEF n
      <3> QED  BY <1>0, <2>3, <2>4, <3>1, TakeOnce
    <2> HIDE DEF n, got
    <2>6. FakeTypeOK' /\ DeliversToLiveNic'
      BY <1>0, <2>1, <2>4, <2>5 DEF FakeTypeOK, DeliversToLiveNic
    <2> QED  BY <2>1, <2>4, <2>5, <2>6 DEF FakeInv
  <1>9. ASSUME NEW k \in FakePacket, releaseFakePacket(k) PROVE FakeInv'
    <2>1. /\ k \in fakeHeld /\ fakeHeap' = fakeHeap \ {k} /\ fakeHeld' = fakeHeld \ {k}
          /\ UNCHANGED <<driverState, nicMutex, priorityQueue, delivery>>
      BY <1>9 DEF releaseFakePacket
    <2>3. Owned(fakeHeap', fakeHeld', priorityQueue')
      BY <1>0, <2>1 DEF Owned
    <2>4. FakeTypeOK' /\ DeliversToLiveNic'
      BY <1>0, <2>1 DEF FakeTypeOK, DeliversToLiveNic
    <2> QED  BY <2>3, <2>4 DEF FakeInv
  <1>10. CASE UNCHANGED fakeVars
    BY <1>0, <1>10 DEF fakeVars, FakeInv, FakeTypeOK, DeliversToLiveNic
  <1> QED  BY <1>1, <1>2, <1>3, <1>4, <1>5, <1>6, <1>7, <1>8, <1>9, <1>10 DEF FakeNext

(* sendPacket's hand-over from the network's mutex to the NIC's leaves the    *)
(* destructor no gap, for any number of drivers and threads.                  *)
THEOREM DeliveriesReachLiveNics == FakeInit /\ [][FakeNext]_fakeVars => []DeliversToLiveNic
  <1>1. FakeInv => DeliversToLiveNic
    BY DEF FakeInv
  <1> QED  BY <1>1, FakeInvInit, FakeInvNext, PTL

(* No FakePacket is leaked, freed twice or queued twice, for any numbers of   *)
(* drivers, threads, priorities and packets.                                  *)
THEOREM FakePacketsStayOwned == FakeInit /\ [][FakeNext]_fakeVars => []FakePacketsOwned
  <1>1. FakeInv => FakePacketsOwned
    BY OwnedPlaces DEF FakeInv
  <1> QED  BY <1>1, FakeInvInit, FakeInvNext, PTL

-----------------------------------------------------------------------------
(* The constructors of DpdkDriver::Impl. *)

(* Every stage that the constructors go through.                             *)
EveryStage == {"getAffinity", "ealInit", "ifname", "socket", "ipAddress", "macAddress",
               "mbufPool", "validPort", "txCallback", "txBuffer", "getMtu", "setMtu",
               "devStart", "link", "loopbackRing", "setAffinity"}

(* The stages at which the driver already has what a stage acquires.         *)
AfterLoopback == {"setAffinity", "up"}
AfterLink     == AfterLoopback \cup {"loopbackRing"}
AfterDevStart == AfterLink \cup {"link"}
AfterTxBuffer == AfterDevStart \cup {"getMtu", "setMtu", "devStart"}
AfterCallback == AfterTxBuffer \cup {"txBuffer"}
AfterMbufPool == AfterCallback \cup {"validPort", "txCallback"}

(* The inductive invariant: at every stage of _init, what the stages before   *)
(* it acquired is held, the socket is open only between socket() and the last *)
(* ioctl, and the stages for EAL are reached only by the constructor for EAL; *)
(* a pool that was abandoned bars the way to the stages after it.             *)
StartInv ==
  /\ stage \in EveryStage \cup {"none", "up", "failed"}
  /\ withEal \in BOOLEAN
  /\ acquired \subseteq {"mbufPool", "txCallback", "txBuffer", "devStart", "loopbackRing"}
  /\ stage \in {"getAffinity", "ealInit", "setAffinity"} => withEal
  /\ socketOpen => stage \in {"ipAddress", "macAddress"}
  /\ stage \in AfterMbufPool => "mbufPool" \in acquired
  /\ stage \in AfterCallback => "txCallback" \in acquired
  /\ stage \in AfterTxBuffer => "txBuffer" \in acquired
  /\ stage \in AfterDevStart => "devStart" \in acquired
  /\ stage \in AfterLoopback => "loopbackRing" \in acquired
  /\ stage \in AfterLink => estimatorBandwidth = bandwidthMbps
  /\ stage = "up" => (withEal => ~threadPinned)
  /\ poolAbandoned \in BOOLEAN
  /\ poolAbandoned => "mbufPool" \in acquired /\ stage \notin AfterMbufPool
  /\ ~poolAbandoned /\ stage \notin AfterMbufPool => acquired \subseteq {"txCallback", "txBuffer"}

(* The stage that follows each stage, with EAL and without.                  *)
LEMMA StageOrder ==
  ASSUME withEal \in BOOLEAN
  PROVE  /\ withEal => StageAfter("getAffinity") = "ealInit"
         /\ withEal => StageAfter("ealInit") = "ifname"
         /\ StageAfter("ifname") = "socket"
         /\ StageAfter("socket") = "ipAddress"
         /\ StageAfter("ipAddress") = "macAddress"
         /\ StageAfter("macAddress") = "mbufPool"
         /\ StageAfter("mbufPool") = "validPort"
         /\ StageAfter("validPort") = "txCallback"
         /\ StageAfter("txCallback") = "txBuffer"
         /\ StageAfter("txBuffer") = "getMtu"
         /\ StageAfter("getMtu") = "setMtu"
         /\ StageAfter("setMtu") = "devStart"
         /\ StageAfter("devStart") = "link"
         /\ StageAfter("link") = "loopbackRing"
         /\ StageAfter("loopbackRing") = IF withEal THEN "setAffinity" ELSE "up"
         /\ withEal => StageAfter("setAffinity") = "up"
  BY DEF StageAfter

(* Nothing is acquired before the first constructor.                         *)
LEMMA StartInvInit == StartInit => StartInv
  BY DEF StartInit, StartInv, EveryStage, AfterLoopback, AfterLink, AfterDevStart,
         AfterTxBuffer, AfterCallback, AfterMbufPool

(* A stage that succeeds adds what it acquires, one that fails closes the     *)
(* socket, and the destructor gives back what it frees.                       *)
LEMMA StartInvNext == StartInv /\ [StartNext]_startVars => StartInv'
  <1> SUFFICES ASSUME StartInv, [StartNext]_startVars PROVE StartInv'
    OBVIOUS
  <1> USE DEF StartInv, EveryStage, AfterLoopback, AfterLink, AfterDevStart,
         AfterTxBuffer, AfterCallback, AfterMbufPool
  <1>1. ASSUME NEW eal \in BOOLEAN, constructDriver(eal) PROVE StartInv'
    BY <1>1 DEF constructDriver
  <1>2. ASSUME NEW speed, stageSucceeds(speed) PROVE StartInv'
    <2>1. /\ stage \in EveryStage /\ stage' = StageAfter(stage)
          /\ withEal' = withEal /\ acquired' = acquired \cup Acquires(stage)
          /\ socketOpen' = (stage \in {"socket", "ipAddress"})
          /\ stage = "setAffinity" => threadPinned' = FALSE
          /\ stage = "link" => estimatorBandwidth' = bandwidthMbps'
          /\ stage # "link" => UNCHANGED <<bandwidthMbps, estimatorBandwidth>>
      BY <1>2 DEF stageSucceeds, EstimatorAt
    <2>2. withEal' \in BOOLEAN
      BY <2>1
    <2>3. /\ acquired' \subseteq {"mbufPool", "txCallback", "txBuffer", "devStart", "loopbackRing"}
          /\ acquired \subseteq acquired'
          /\ stage \in {"mbufPool", "txCallback", "txBuffer", "devStart", "loopbackRing"}
               => stage \in acquired'
      BY <2>1 DEF Acquires
    <2>4. /\ stage' \in EveryStage \cup {"up"}
          /\ stage' \in {"getAffinity", "ealInit", "setAffinity"} => withEal
          /\ socketOpen' => stage' \in {"ipAddress", "macAddress"}
          /\ stage' = "up" => (withEal => stage = "setAffinity")
      BY <2>1, StageOrder
    <2>5. /\ stage' \in AfterMbufPool => stage \in AfterMbufPool \cup {"mbufPool"}
          /\ stage' \in AfterCallback => stage \in AfterCallback \cup {"txCallback"}
          /\ stage' \in AfterTxBuffer => stage \in AfterTxBuffer \cup {"txBuffer"}
          /\ stage' \in AfterDevStart => stage \in AfterDevStart \cup {"devStart"}
          /\ stage' \in AfterLoopback => stage \in AfterLoopback \cup {"loopbackRing"}
          /\ stage' \in AfterLink => stage \in AfterLink \cup {"link"}
      BY <2>1, StageOrder
    <2>6. /\ stage' \in AfterMbufPool => "mbufPool" \in acquired'
          /\ stage' \in AfterCallback => "txCallback" \in acquired'
          /\ stage' \in AfterTxBuffer => "txBuffer" \in acquired'
          /\ stage' \in AfterDevStart => "devStart" \in acquired'
          /\ stage' \in AfterLoopback => "loopbackRing" \in acquired'
      BY <2>3, <2>5
    <2>7. stage' \in AfterLink => estimatorBandwidth' = bandwidthMbps'
      BY <2>1, <2>5
    <2>8. stage' = "up" => (withEal' => ~threadPinned')
      BY <2>1, <2>4
    <2>9. stage \notin AfterMbufPool \cup {"mbufPool"} => acquired' = acquired
      BY <2>1 DEF Acquires
    <2>10. stage = "mbufPool" => ~poolAbandoned /\ stage' \in AfterMbufPool
      BY <1>2, <2>1, StageOrder DEF stageSucceeds, CanSucceed, Acquires
    <2>11. stage \in AfterMbufPool => stage' \in AfterMbufPool
      BY <2>1, StageOrder
    <2>12. /\ poolAbandoned' = poolAbandoned
           /\ poolAbandoned => "mbufPool" \in acquired' /\ stage' \notin AfterMbufPool
           /\ ~poolAbandoned /\ stage' \notin AfterMbufPool
                => acquired' \subseteq {"txCallback", "txBuffer"}
      BY <1>2, <2>3, <2>5, <2>9, <2>10, <2>11 DEF stageSucceeds
    <2> QED  BY <2>1, <2>2, <2>3, <2>4, <2>6, <2>7, <2>8, <2>12
  <1>3. CASE stageFails
    BY <1>3 DEF stageFails, ClosedBeforeThrow, HasPool
  <1>4. CASE destroyDriver
    BY <1>4 DEF destroyDriver, Freed
  <1>5. CASE UNCHANGED startVars
    BY <1>5 DEF startVars
  <1> QED  BY <1>1, <1>2, <1>3, <1>4, <1>5 DEF StartNext

(* Whichever stages fail and however often drivers are started, no socket     *)
(* stays open, a driver that is up is complete, and a port is lost for later  *)
(* drivers exactly if a constructor failed after it created the pool.         *)
THEOREM StartsStayClean == StartInit /\ [][StartNext]_startVars => []StartsCleanly
  <1>1. StartInv => StartsCleanly
    BY DEF StartInv, StartsCleanly, SocketClosed, UpIsComplete, LeftBehind, EveryStage,
       AfterLoopback, AfterLink, AfterDevStart, AfterTxBuffer, AfterCallback, AfterMbufPool
  <1> QED  BY <1>1, StartInvInit, StartInvNext, PTL

-----------------------------------------------------------------------------
(* Perf. *)

(* g adds up f over the subsets of S.                                        *)
Additive(g, f, S) ==
  /\ g \in [SUBSET S -> Nat] /\ g[{}] = 0
  /\ \A s \in SUBSET S : \A x \in s : g[s] = f[x] + g[s \ {x}]

(* A set that is in some way wrong has a least subset that is, so that taking *)
(* any element away makes it right.                                          *)
LEMMA LeastSubset ==
  ASSUME NEW S, IsFiniteSet(S), NEW W \in SUBSET (SUBSET S), W # {}
  PROVE  \E s \in W : IsFiniteSet(s) /\ \A x \in s : s \ {x} \notin W
  <1> DEFINE N == {Cardinality(s) : s \in W}
  <1>1. \A s \in W : IsFiniteSet(s) /\ Cardinality(s) \in Nat
    BY FS_Subset, FS_CardinalityType
  <1>2. N \in SUBSET Nat /\ N # {}
    BY <1>1
  <1>3. PICK n \in N : \A m \in N : n <= m
    <2> HIDE DEF N
    <2> QED  BY <1>2, LeastNat
  <1>4. PICK s \in W : Cardinality(s) = n
    BY <1>3
  <1>5. ASSUME NEW x \in s, s \ {x} \in W PROVE FALSE
    <2>1. Cardinality(s \ {x}) = Cardinality(s) - 1
      BY <1>1, FS_RemoveElement
    <2>2. n \in Nat /\ n <= n - 1
      BY <1>2, <1>3, <1>4, <1>5, <2>1
    <2> QED  BY <2>2
  <1> QED  BY <1>1, <1>5

(* There is such a g.                                                        *)
LEMMA SumExists ==
  ASSUME NEW S, IsFiniteSet(S), NEW f, \A x \in S : f[x] \in Nat
  PROVE  \E g : Additive(g, f, S)
  <1> DEFINE W == {s \in SUBSET S : ~\E g : Additive(g, f, s)}
  <1> SUFFICES ASSUME W # {} PROVE FALSE
    OBVIOUS
  <1>1. PICK s \in W : IsFiniteSet(s) /\ \A x \in s : s \ {x} \notin W
    <2>1. W \in SUBSET (SUBSET S)
      OBVIOUS
    <2> HIDE DEF W
    <2> QED  BY <2>1, LeastSubset
  <1>2. CASE s = {}
    <2> DEFINE g == [u \in SUBSET s |-> 0]
    <2>1. g \in [SUBSET s -> Nat] /\ g[{}] = 0 /\ \A u \in SUBSET s : u = {}
      BY <1>2
    <2>2. Additive(g, f, s)
      BY <2>1 DEF Additive
    <2> QED  BY <1>1, <2>2
  <1>3. ASSUME NEW x \in s PROVE FALSE
    <2>1. PICK h : Additive(h, f, s \ {x})
      BY <1>1, <1>3
    <2>2. h \in [SUBSET (s \ {x}) -> Nat] /\ h[{}] = 0 /\ f[x] \in Nat
      BY <1>1, <2>1 DEF Additive
    <2> DEFINE P(u) == IF x \in u THEN f[x] ELSE 0
               g == [u \in SUBSET s |-> P(u) + h[u \ {x}]]
    <2>3. \A u \in SUBSET s : u \ {x} \in SUBSET (s \ {x}) /\ h[u \ {x}] \in Nat /\ P(u) \in Nat
      BY <2>2
    <2>4. g \in [SUBSET s -> Nat]
      BY <2>3
    <2>5. g[{}] = 0
      <3>1. {} \in SUBSET s /\ {} \ {x} = {} /\ x \notin {}
        OBVIOUS
      <3> QED  BY <2>2, <3>1
    <2>6. ASSUME NEW u \in SUBSET s, NEW y \in u PROVE g[u] = f[y] + g[u \ {y}]
      <3>1. u \ {y} \in SUBSET s /\ f[y] \in Nat
        BY <1>1
      <3>2. g[u] = P(u) + h[u \ {x}] /\ g[u \ {y}] = P(u \ {y}) + h[(u \ {y}) \ {x}]
        BY <3>1
      <3>5. h[u \ {x}] \in Nat /\ P(u) \in Nat /\ P(u \ {y}) \in Nat /\ f[x] \in Nat
        <4> HIDE DEF P, g
        <4> QED  BY <2>2, <2>3, <3>1
      <3>3. CASE y = x
        <4>1. (u \ {y}) \ {x} = u \ {x} /\ P(u) = f[x] /\ P(u \ {y}) = 0
          BY <3>3
        <4> HIDE DEF P, g
        <4>2. g[u \ {y}] = 0 + h[u \ {x}] /\ g[u] = f[y] + h[u \ {x}]
          BY <3>2, <3>3, <4>1
        <4> QED  BY <3>1, <3>5, <4>2
      <3>4. CASE y # x
        <4>1. (u \ {y}) \ {x} = (u \ {x}) \ {y} /\ P(u) = P(u \ {y}) /\ y \in u \ {x}
          BY <3>4
        <4>2. u \ {x} \in SUBSET (s \ {x}) /\ h[(u \ {x}) \ {y}] \in Nat
          BY <2>2
        <4>3. h[u \ {x}] = f[y] + h[(u \ {x}) \ {y}]
          BY <2>1, <4>1, <4>2 DEF Additive
        <4> HIDE DEF P, g
        <4>4. g[u \ {y}] = P(u) + h[(u \ {x}) \ {y}] /\ g[u] = P(u) + (f[y] + h[(u \ {x}) \ {y}])
          BY <3>2, <4>1, <4>3
        <4> QED  BY <3>1, <3>5, <4>2, <4>4
      <3> QED  BY <3>3, <3>4
    <2>7. Additive(g, f, s)
      <3> HIDE DEF g
      <3> QED  BY <2>4, <2>5, <2>6 DEF Additive
    <2> QED  BY <1>1, <2>7
  <1> QED  BY <1>2, <1>3

(* SumOver is such a g.                                                      *)
LEMMA SumIsAdditive ==
  ASSUME NEW S, IsFiniteSet(S), NEW f, NEW g, Additive(g, f, S)
  PROVE  SumOver(f, S) = g[S]
  <1> DEFINE E(s) == CHOOSE x \in s : TRUE
             Iter(h) == h = [s \in SUBSET S |-> IF s = {} THEN 0 ELSE f[E(s)] + h[s \ {E(s)}]]
             iter == CHOOSE h : Iter(h)
  <1>1. SumOver(f, S) = iter[S]
    BY DEF SumOver, MapThenSumSet, MapThenFoldSet
  <1>2. \A s : s # {} => E(s) \in s
    OBVIOUS
  <1> HIDE DEF E
  <1>3. Iter(g)
    <2>1. g = [s \in SUBSET S |-> g[s]]
      BY DEF Additive
    <2>2. \A s \in SUBSET S : g[s] = IF s = {} THEN 0 ELSE f[E(s)] + g[s \ {E(s)}]
      BY <1>2 DEF Additive
    <2> QED  BY <2>1, <2>2
  <1>4. Iter(iter)
    <2> HIDE DEF Iter
    <2> QED  BY <1>3
  <1> HIDE DEF iter
  <1> DEFINE W == {s \in SUBSET S : iter[s] # g[s]}
  <1>5. W = {}
    <2> SUFFICES ASSUME W # {} PROVE FALSE
      OBVIOUS
    <2>1. W \in SUBSET (SUBSET S)
      OBVIOUS
    <2>2. PICK s \in W : \A x \in s : s \ {x} \notin W
      <3> HIDE DEF W
      <3> QED  BY <2>1, LeastSubset
    <2>3. s \in SUBSET S /\ iter[s] # g[s]
      BY <2>2
    <2>4. /\ iter[s] = IF s = {} THEN 0 ELSE f[E(s)] + iter[s \ {E(s)}]
      BY <1>4, <2>3
    <2>5. g[s] = IF s = {} THEN 0 ELSE f[E(s)] + g[s \ {E(s)}]
      BY <1>3, <2>3
    <2>6. s # {} => iter[s \ {E(s)}] = g[s \ {E(s)}]
      <3>1. ASSUME s # {} PROVE s \ {E(s)} \in SUBSET S /\ s \ {E(s)} \notin W
        BY <1>2, <2>2, <2>3, <3>1
      <3> QED  BY <3>1
    <2> QED  BY <2>3, <2>4, <2>5, <2>6
  <1>6. S \in SUBSET S
    OBVIOUS
  <1> QED  BY <1>1, <1>5, <1>6

(* What SumOver adds up.                                                     *)
LEMMA SumParts ==
  ASSUME NEW S, IsFiniteSet(S), NEW f, \A x \in S : f[x] \in Nat
  PROVE  /\ SumOver(f, S) \in Nat
         /\ S = {} => SumOver(f, S) = 0
         /\ \A x \in S : SumOver(f, S) = f[x] + SumOver(f, S \ {x}) /\ SumOver(f, S \ {x}) \in Nat
  <1>1. PICK g : Additive(g, f, S)
    BY SumExists
  <1>2. SumOver(f, S) = g[S]
    BY <1>1, SumIsAdditive
  <1>3. SumOver(f, S) \in Nat /\ (S = {} => SumOver(f, S) = 0)
    BY <1>1, <1>2 DEF Additive
  <1>4. ASSUME NEW x \in S PROVE SumOver(f, S) = f[x] + SumOver(f, S \ {x}) /\ SumOver(f, S \ {x}) \in Nat
    <2> DEFINE T == S \ {x}
               h == [s \in SUBSET T |-> g[s]]
    <2>1. IsFiniteSet(T)
      BY FS_RemoveElement
    <2>2. Additive(h, f, T)
      <3>1. \A s \in SUBSET T : s \in SUBSET S /\ h[s] = g[s] /\ g[s] \in Nat
        BY <1>1 DEF Additive
      <3>2. \A s \in SUBSET T : \A y \in s : s \ {y} \in SUBSET T
        OBVIOUS
      <3>3. {} \in SUBSET T
        OBVIOUS
      <3>4. h \in [SUBSET T -> Nat] /\ h[{}] = 0
        BY <1>1, <3>1, <3>3 DEF Additive
      <3>5. ASSUME NEW s \in SUBSET T, NEW y \in s PROVE h[s] = f[y] + h[s \ {y}]
        <4> HIDE DEF h, T
        <4> QED  BY <1>1, <3>1, <3>2 DEF Additive
      <3> HIDE DEF h, T
      <3> QED  BY <3>4, <3>5 DEF Additive
    <2>3. SumOver(f, T) = h[T]
      BY <2>1, <2>2, SumIsAdditive
    <2>4. h[T] = g[T] /\ g[T] \in Nat
      BY <1>1 DEF Additive
    <2>5. g[S] = f[x] + g[S \ {x}]
      BY <1>1 DEF Additive
    <2> QED  BY <1>2, <2>3, <2>4, <2>5
  <1> QED  BY <1>3, <1>4

(* Sums of functions that agree.                                             *)
LEMMA SumAgrees ==
  ASSUME NEW S, IsFiniteSet(S), NEW f, NEW h, \A x \in S : f[x] \in Nat /\ f[x] = h[x]
  PROVE  SumOver(f, S) = SumOver(h, S)
  <1>1. PICK g : Additive(g, f, S)
    BY SumExists
  <1>2. Additive(g, h, S)
    BY <1>1 DEF Additive
  <1> QED  BY <1>1, <1>2, SumIsAdditive

(* The counter of t goes up by d.                                            *)
Raised(f, h, t, d) == \A x \in PerfThread : h[x] = f[x] + (IF x = t THEN d ELSE 0)

(* Sums over some of the threads when one of the counters goes up.           *)
LEMMA SumRaised ==
  ASSUME NEW S \in SUBSET PerfThread, NEW f \in [PerfThread -> Nat], NEW h, NEW t \in PerfThread,
         NEW d \in Nat, Raised(f, h, t, d)
  PROVE  /\ SumOver(f, S) \in Nat
         /\ SumOver(h, S) = SumOver(f, S) + (IF t \in S THEN d ELSE 0)
  <1>0. \A x \in PerfThread : h[x] = f[x] + (IF x = t THEN d ELSE 0)
    BY DEF Raised
  <1>1. IsFiniteSet(S) /\ \A x \in S : f[x] \in Nat /\ h[x] \in Nat
    BY <1>0, PerfAssumption, FS_Subset
  <1>2. SumOver(f, S) \in Nat
    BY <1>1, SumParts
  <1>3. CASE t \notin S
    <2>1. \A x \in S : f[x] \in Nat /\ f[x] = h[x]
      BY <1>0, <1>3
    <2>2. SumOver(f, S) = SumOver(h, S)
      BY <1>1, <2>1, SumAgrees
    <2> QED  BY <1>2, <1>3, <2>2
  <1>4. CASE t \in S
    <2> DEFINE R == S \ {t}
    <2>1. IsFiniteSet(R) /\ \A x \in R : f[x] \in Nat /\ f[x] = h[x]
      BY <1>0, <1>1, FS_RemoveElement
    <2>2. SumOver(f, R) = SumOver(h, R)
      BY <2>1, SumAgrees
    <2>3. SumOver(f, S) = f[t] + SumOver(f, R) /\ SumOver(f, R) \in Nat
      BY <1>1, <1>4, SumParts
    <2>4. SumOver(h, S) = h[t] + SumOver(h, R)
      BY <1>1, <1>4, SumParts
    <2>5. h[t] = f[t] + d /\ f[t] \in Nat
      BY <1>0
    <2> QED  BY <1>2, <1>4, <2>2, <2>3, <2>4, <2>5
  <1> QED  BY <1>2, <1>3, <1>4

(* Sums over one thread more.                                                *)
LEMMA SumWith ==
  ASSUME NEW S \in SUBSET PerfThread, NEW f \in [PerfThread -> Nat], NEW t \in PerfThread \ S
  PROVE  /\ SumOver(f, S) \in Nat
         /\ SumOver(f, S \cup {t}) = f[t] + SumOver(f, S)
  <1> DEFINE R == S \cup {t}
  <1>1. IsFiniteSet(R) /\ \A x \in R : f[x] \in Nat
    <2>1. R \in SUBSET PerfThread
      OBVIOUS
    <2> HIDE DEF R
    <2> QED  BY <2>1, PerfAssumption, FS_Subset
  <1>2. R \ {t} = S /\ t \in R
    OBVIOUS
  <1> HIDE DEF R
  <1>3. SumOver(f, R) = f[t] + SumOver(f, R \ {t}) /\ SumOver(f, R \ {t}) \in Nat
    BY <1>1, <1>2, SumParts
  <1> QED  BY <1>2, <1>3 DEF R

(* Sums over one thread less.                                                *)
LEMMA SumWithout ==
  ASSUME NEW S \in SUBSET PerfThread, NEW f \in [PerfThread -> Nat], NEW t \in S
  PROVE  /\ SumOver(f, S \ {t}) \in Nat
         /\ SumOver(f, S) = f[t] + SumOver(f, S \ {t})
  <1>1. IsFiniteSet(S) /\ \A x \in S : f[x] \in Nat
    BY PerfAssumption, FS_Subset
  <1> QED  BY <1>1, SumParts

(* Sums over no thread, and of functions that agree.                         *)
LEMMA SumNone ==
  ASSUME NEW f
  PROVE  SumOver(f, {}) = 0
  <1>1. IsFiniteSet({})
    BY FS_EmptySet
  <1> QED  BY <1>1, SumParts

-----------------------------------------------------------------------------
(* The types of the counters. *)

TwoCounters == [total : Nat, active : Nat]

PerfTypes ==
  /\ registeredThreads \in SUBSET PerfThread
  /\ threadCounters \in [PerfThread -> TwoCounters]
  /\ globalCounters \in TwoCounters
  /\ inPoll \in [PerfThread -> Nat \cup {NoPoll}]
  /\ statsReader \in [at : {"idle", "next", "active", "dumped"}, left : SUBSET PerfThread,
                      thread : PerfThread \cup {Nobody}, output : TwoCounters]
  /\ countedAtStart \in TwoCounters
  /\ polledSince \in BOOLEAN

(* A thread in a poll has counters, and only the active cycles of the poll it *)
(* is in may be missing in its total; getStats knows of every poll.          *)
PollInv ==
  /\ \A t \in PerfThread :
       /\ inPoll[t] # NoPoll => t \in registeredThreads /\ polledSince
       /\ threadCounters[t].active
            <= threadCounters[t].total + (IF inPoll[t] = NoPoll THEN 0 ELSE inPoll[t])
  /\ globalCounters.active <= globalCounters.total

(* The threads whose active cycles getStats has yet to add.                  *)
ActiveLeft ==
  IF statsReader.at = "active" THEN statsReader.left \cup {statsReader.thread}
  ELSE statsReader.left

(* getStats has the threads to read that it has not read.                    *)
LeftInv ==
  /\ statsReader.at # "idle" => ActiveLeft \subseteq registeredThreads
  /\ statsReader.at = "active" => /\ statsReader.thread \in PerfThread
                                  /\ statsReader.thread \notin statsReader.left
  /\ statsReader.at \in {"idle", "dumped"} => statsReader.left = {}

(* What getStats has read and what it has yet to read is between what was     *)
(* counted when it began and what is counted now.                            *)
ReadInv ==
  statsReader.at # "idle" =>
    /\ countedAtStart.total <= statsReader.output.total + SumOver(Totals(threadCounters), statsReader.left)
    /\ statsReader.output.total + SumOver(Totals(threadCounters), statsReader.left) <= Counted.total
    /\ countedAtStart.active <= statsReader.output.active + SumOver(Actives(threadCounters), ActiveLeft)
    /\ statsReader.output.active + SumOver(Actives(threadCounters), ActiveLeft) <= Counted.active

(* Without a poll meanwhile what it has read is consistent.                  *)
QuietInv ==
  statsReader.at # "idle" /\ ~polledSince =>
    statsReader.output.active
      + (IF statsReader.at = "active" THEN threadCounters[statsReader.thread].active ELSE 0)
      <= statsReader.output.total

PerfInv == PerfTypes /\ PollInv /\ LeftInv /\ ReadInv /\ QuietInv

(* The sums that the invariant is about.                                     *)
LEMMA SumTypes ==
  ASSUME NEW c \in [PerfThread -> TwoCounters]
  PROVE  /\ Totals(c) \in [PerfThread -> Nat] /\ Actives(c) \in [PerfThread -> Nat]
         /\ \A t \in PerfThread : Totals(c)[t] = c[t].total /\ Actives(c)[t] = c[t].active
         /\ \A S \in SUBSET PerfThread : SumOver(Totals(c), S) \in Nat /\ SumOver(Actives(c), S) \in Nat
  <1>1. \A t \in PerfThread : c[t].total \in Nat /\ c[t].active \in Nat
    BY DEF TwoCounters
  <1>2. Totals(c) \in [PerfThread -> Nat] /\ Actives(c) \in [PerfThread -> Nat]
    BY <1>1 DEF Totals, Actives
  <1>3. \A t \in PerfThread : Totals(c)[t] = c[t].total /\ Actives(c)[t] = c[t].active
    BY DEF Totals, Actives
  <1>4. ASSUME NEW S \in SUBSET PerfThread, NEW f \in [PerfThread -> Nat] PROVE SumOver(f, S) \in Nat
    <2>1. IsFiniteSet(S) /\ \A x \in S : f[x] \in Nat
      BY PerfAssumption, FS_Subset
    <2> QED  BY <2>1, SumParts
  <1> QED  BY <1>2, <1>3, <1>4

(* What is counted.                                                          *)
LEMMA CountedIs ==
  /\ Counted.total = globalCounters.total + SumOver(Totals(threadCounters), registeredThreads)
  /\ Counted.active = globalCounters.active + SumOver(Actives(threadCounters), registeredThreads)
  BY DEF Counted, AddCounters

(* The same after a step.                                                    *)
LEMMA CountedNext ==
  /\ Counted'.total = globalCounters'.total + SumOver(Totals(threadCounters'), registeredThreads')
  /\ Counted'.active = globalCounters'.active + SumOver(Actives(threadCounters'), registeredThreads')
  BY DEF Counted, AddCounters

(* The parts of the type.                                                    *)
LEMMA ReaderTypes ==
  ASSUME PerfTypes
  PROVE  /\ statsReader = [at |-> statsReader.at, left |-> statsReader.left,
                           thread |-> statsReader.thread, output |-> statsReader.output]
         /\ statsReader.at \in {"idle", "next", "active", "dumped"}
         /\ statsReader.left \in SUBSET PerfThread
         /\ statsReader.thread \in PerfThread \cup {Nobody}
         /\ statsReader.output \in TwoCounters
         /\ statsReader.output.total \in Nat /\ statsReader.output.active \in Nat
         /\ globalCounters.total \in Nat /\ globalCounters.active \in Nat
         /\ countedAtStart.total \in Nat /\ countedAtStart.active \in Nat
         /\ \A t \in PerfThread : threadCounters[t].total \in Nat /\ threadCounters[t].active \in Nat
  <1>1. /\ statsReader = [at |-> statsReader.at, left |-> statsReader.left,
                          thread |-> statsReader.thread, output |-> statsReader.output]
        /\ statsReader.at \in {"idle", "next", "active", "dumped"}
        /\ statsReader.left \in SUBSET PerfThread
        /\ statsReader.thread \in PerfThread \cup {Nobody}
        /\ statsReader.output \in TwoCounters
    BY DEF PerfTypes
  <1>2. globalCounters \in TwoCounters /\ countedAtStart \in TwoCounters
        /\ threadCounters \in [PerfThread -> TwoCounters]
    BY DEF PerfTypes
  <1> QED  BY <1>1, <1>2 DEF TwoCounters

(* What is counted when a thread counts more.                                *)
LEMMA RaiseStep ==
  ASSUME PerfInv, NEW t \in registeredThreads, NEW a \in Nat, NEW b \in Nat,
         threadCounters' \in [PerfThread -> TwoCounters],
         \A x \in PerfThread : threadCounters'[x].total = threadCounters[x].total + (IF x = t THEN a ELSE 0),
         \A x \in PerfThread : threadCounters'[x].active = threadCounters[x].active + (IF x = t THEN b ELSE 0),
         UNCHANGED <<registeredThreads, globalCounters, statsReader, countedAtStart>>
  PROVE  ReadInv' /\ LeftInv'
  <1> DEFINE T == Totals(threadCounters)
             A == Actives(threadCounters)
             T2 == Totals(threadCounters')
             A2 == Actives(threadCounters')
             R == registeredThreads
             L == statsReader.left
             M == ActiveLeft
  <1>1. /\ T \in [PerfThread -> Nat] /\ A \in [PerfThread -> Nat]
        /\ \A x \in PerfThread : T[x] = threadCounters[x].total /\ A[x] = threadCounters[x].active
    BY SumTypes DEF PerfInv, PerfTypes
  <1>2. \A x \in PerfThread : T2[x] = threadCounters'[x].total /\ A2[x] = threadCounters'[x].active
    BY SumTypes
  <1>3. R \in SUBSET PerfThread /\ t \in PerfThread /\ L \in SUBSET PerfThread
    BY ReaderTypes DEF PerfInv, PerfTypes
  <1>4. ActiveLeft' = ActiveLeft /\ statsReader' = statsReader /\ registeredThreads' = registeredThreads
    BY DEF ActiveLeft
  <1>5. LeftInv'
    BY <1>4 DEF LeftInv, PerfInv
  <1>6. ASSUME statsReader.at # "idle" PROVE M \subseteq R /\ L \subseteq M
    BY <1>6 DEF PerfInv, LeftInv, ActiveLeft
  <1> HIDE DEF T, A, T2, A2, L, M
  <1>7. ASSUME NEW S \in SUBSET PerfThread
        PROVE  /\ SumOver(T, S) \in Nat /\ SumOver(A, S) \in Nat
               /\ SumOver(T2, S) = SumOver(T, S) + (IF t \in S THEN a ELSE 0)
               /\ SumOver(A2, S) = SumOver(A, S) + (IF t \in S THEN b ELSE 0)
    <2>1. Raised(T, T2, t, a) /\ Raised(A, A2, t, b)
      BY <1>1, <1>2 DEF Raised
    <2> QED  BY <1>1, <1>3, <2>1, SumRaised
  <1>8. ASSUME statsReader.at # "idle"
        PROVE  /\ countedAtStart.total <= statsReader.output.total + SumOver(T2, L)
               /\ statsReader.output.total + SumOver(T2, L) <= globalCounters.total + SumOver(T2, R)
               /\ countedAtStart.active <= statsReader.output.active + SumOver(A2, M)
               /\ statsReader.output.active + SumOver(A2, M) <= globalCounters.active + SumOver(A2, R)
    <2>1. /\ countedAtStart.total <= statsReader.output.total + SumOver(T, L)
          /\ statsReader.output.total + SumOver(T, L) <= globalCounters.total + SumOver(T, R)
          /\ countedAtStart.active <= statsReader.output.active + SumOver(A, M)
          /\ statsReader.output.active + SumOver(A, M) <= globalCounters.active + SumOver(A, R)
      BY <1>8, CountedIs DEF PerfInv, ReadInv, T, A, L, M
    <2>2. /\ statsReader.output.total \in Nat /\ statsReader.output.active \in Nat
          /\ globalCounters.total \in Nat /\ globalCounters.active \in Nat
          /\ countedAtStart.total \in Nat /\ countedAtStart.active \in Nat
      BY ReaderTypes DEF PerfInv
    <2>3. /\ SumOver(T, L) \in Nat /\ SumOver(T2, L) = SumOver(T, L) + (IF t \in L THEN a ELSE 0)
          /\ SumOver(T, R) \in Nat /\ SumOver(T2, R) = SumOver(T, R) + a
      BY <1>3, <1>7
    <2>4. /\ SumOver(A, M) \in Nat /\ SumOver(A2, M) = SumOver(A, M) + (IF t \in M THEN b ELSE 0)
          /\ SumOver(A, R) \in Nat /\ SumOver(A2, R) = SumOver(A, R) + b
      <3>1. M \in SUBSET PerfThread
        BY <1>3, <1>6, <1>8
      <3> QED  BY <1>3, <1>7, <3>1
    <2>5. /\ countedAtStart.total <= statsReader.output.total + SumOver(T2, L)
          /\ statsReader.output.total + SumOver(T2, L) <= globalCounters.total + SumOver(T2, R)
      BY <2>1, <2>2, <2>3
    <2>6. /\ countedAtStart.active <= statsReader.output.active + SumOver(A2, M)
          /\ statsReader.output.active + SumOver(A2, M) <= globalCounters.active + SumOver(A2, R)
      BY <2>1, <2>2, <2>4
    <2> QED  BY <2>5, <2>6
  <1>9. ReadInv'
    <2>1. /\ Counted'.total = globalCounters.total + SumOver(T2, R)
          /\ Counted'.active = globalCounters.active + SumOver(A2, R)
      BY CountedNext DEF T2, A2
    <2> QED  BY <1>4, <1>8, <2>1 DEF ReadInv, L, M, T2, A2
  <1> QED  BY <1>5, <1>9

(* TransportImpl::poll begins.                                               *)
LEMMA BeginPollStep ==
  ASSUME PerfInv, NEW t \in PerfThread, beginPoll(t)
  PROVE  PerfInv'
  <1>1. /\ t \in registeredThreads /\ inPoll[t] = NoPoll
        /\ inPoll' = [inPoll EXCEPT ![t] = 0] /\ polledSince' = TRUE
        /\ UNCHANGED <<registeredThreads, threadCounters, globalCounters, statsReader, countedAtStart>>
    BY DEF beginPoll
  <1>2. PerfTypes'
    BY <1>1 DEF PerfInv, PerfTypes
  <1>3. PollInv'
    <2>1. /\ inPoll \in [PerfThread -> Nat \cup {NoPoll}]
          /\ \A x \in PerfThread : threadCounters[x].total \in Nat /\ threadCounters[x].active \in Nat
      BY ReaderTypes DEF PerfInv, PerfTypes
    <2>2. ASSUME NEW x \in PerfThread
          PROVE  /\ inPoll'[x] # NoPoll => x \in registeredThreads'
                 /\ threadCounters'[x].active
                      <= threadCounters'[x].total + (IF inPoll'[x] = NoPoll THEN 0 ELSE inPoll'[x])
      <3>1. CASE x = t
        BY <1>1, <2>1, <3>1 DEF PerfInv, PollInv, NoPoll
      <3>2. CASE x # t
        BY <1>1, <2>1, <3>2 DEF PerfInv, PollInv
      <3> QED  BY <3>1, <3>2
    <2> QED  BY <1>1, <2>2 DEF PerfInv, PollInv
  <1>4. LeftInv'
    BY <1>1 DEF PerfInv, LeftInv, ActiveLeft
  <1>5. ReadInv'
    <2>1. Counted' = Counted /\ ActiveLeft' = ActiveLeft
      BY <1>1 DEF Counted, ActiveLeft
    <2> QED  BY <1>1, <2>1 DEF PerfInv, ReadInv
  <1>6. QuietInv'
    BY <1>1 DEF QuietInv
  <1> QED  BY <1>2, <1>3, <1>4, <1>5, <1>6 DEF PerfInv

(* The work under poll adds active cycles.                                   *)
LEMMA AddActiveStep ==
  ASSUME PerfInv, NEW t \in PerfThread, addActive(t)
  PROVE  PerfInv'
  <1>1. /\ inPoll[t] # NoPoll /\ inPoll' = [inPoll EXCEPT ![t] = inPoll[t] + 1]
        /\ UNCHANGED <<registeredThreads, globalCounters, statsReader, countedAtStart, polledSince>>
    BY DEF addActive
  <1>2. /\ threadCounters \in [PerfThread -> TwoCounters]
        /\ \A x \in PerfThread : threadCounters[x].total \in Nat /\ threadCounters[x].active \in Nat
        /\ inPoll \in [PerfThread -> Nat \cup {NoPoll}]
    BY ReaderTypes DEF PerfInv, PerfTypes
  <1>3. t \in registeredThreads /\ polledSince /\ inPoll[t] \in Nat
    BY <1>1, <1>2 DEF PerfInv, PollInv
  <1> DEFINE c == [total |-> threadCounters[t].total, active |-> threadCounters[t].active + 1]
  <1>4. threadCounters' = [threadCounters EXCEPT ![t] = c]
    <2>1. threadCounters' = [threadCounters EXCEPT ![t] =
                               [threadCounters[t] EXCEPT !.active = threadCounters[t].active + 1]]
      BY DEF addActive
    <2>2. \A r \in TwoCounters : [r EXCEPT !.active = r.active + 1]
                                   = [total |-> r.total, active |-> r.active + 1]
      BY DEF TwoCounters
    <2>3. threadCounters[t] \in TwoCounters
      BY <1>2
    <2> QED  BY <2>1, <2>2, <2>3
  <1>5. c \in TwoCounters /\ c.total = threadCounters[t].total + 0 /\ c.active = threadCounters[t].active + 1
    BY <1>2 DEF TwoCounters
  <1> HIDE DEF c
  <1>6. threadCounters' \in [PerfThread -> TwoCounters]
    BY <1>2, <1>4, <1>5
  <1>7. /\ \A x \in PerfThread : threadCounters'[x].total = threadCounters[x].total + (IF x = t THEN 0 ELSE 0)
        /\ \A x \in PerfThread : threadCounters'[x].active = threadCounters[x].active + (IF x = t THEN 1 ELSE 0)
    BY <1>2, <1>4, <1>5
  <1>8. PerfTypes'
    <2>1. inPoll' \in [PerfThread -> Nat \cup {NoPoll}]
      BY <1>1, <1>2, <1>3
    <2> QED  BY <1>1, <1>6, <2>1 DEF PerfInv, PerfTypes
  <1>9. PollInv'
    <2>1. ASSUME NEW x \in PerfThread
          PROVE  /\ inPoll'[x] # NoPoll => x \in registeredThreads' /\ polledSince'
                 /\ threadCounters'[x].active
                      <= threadCounters'[x].total + (IF inPoll'[x] = NoPoll THEN 0 ELSE inPoll'[x])
      <3>1. CASE x = t
        <4>1. /\ threadCounters'[x].active = threadCounters[x].active + 1
              /\ threadCounters'[x].total = threadCounters[x].total
              /\ inPoll'[x] = inPoll[x] + 1
          BY <1>1, <1>2, <1>7, <3>1
        <4>2. threadCounters[x].active <= threadCounters[x].total + inPoll[x]
          BY <1>1, <3>1 DEF PerfInv, PollInv
        <4>3. inPoll'[x] # NoPoll
          BY <1>3, <3>1, <4>1 DEF NoPoll
        <4> QED  BY <1>1, <1>2, <1>3, <3>1, <4>1, <4>2, <4>3
      <3>2. CASE x # t
        <4>1. /\ threadCounters'[x].active = threadCounters[x].active
              /\ threadCounters'[x].total = threadCounters[x].total
              /\ inPoll'[x] = inPoll[x]
          BY <1>1, <1>2, <1>4, <3>2
        <4> QED  BY <1>1, <4>1 DEF PerfInv, PollInv
      <3> QED  BY <3>1, <3>2
    <2> QED  BY <1>1, <2>1 DEF PerfInv, PollInv
  <1>10. ReadInv' /\ LeftInv'
    <2>1. 0 \in Nat /\ 1 \in Nat
      OBVIOUS
    <2> QED  BY <1>1, <1>3, <1>6, <1>7, <2>1, RaiseStep
  <1>11. QuietInv'
    BY <1>1, <1>3 DEF QuietInv
  <1> QED  BY <1>8, <1>9, <1>10, <1>11 DEF PerfInv

(* poll ends and counts its cycles.                                          *)
LEMMA EndPollStep ==
  ASSUME PerfInv, NEW t \in PerfThread, NEW idle \in 0..1, endPoll(t, idle)
  PROVE  PerfInv'
  <1>1. /\ inPoll[t] # NoPoll /\ inPoll' = [inPoll EXCEPT ![t] = NoPoll]
        /\ UNCHANGED <<registeredThreads, globalCounters, statsReader, countedAtStart, polledSince>>
    BY DEF endPoll
  <1>2. /\ threadCounters \in [PerfThread -> TwoCounters]
        /\ \A x \in PerfThread : threadCounters[x].total \in Nat /\ threadCounters[x].active \in Nat
        /\ inPoll \in [PerfThread -> Nat \cup {NoPoll}]
    BY ReaderTypes DEF PerfInv, PerfTypes
  <1>3. t \in registeredThreads /\ polledSince /\ inPoll[t] \in Nat
    BY <1>1, <1>2 DEF PerfInv, PollInv
  <1> DEFINE a == inPoll[t] + idle
             c == [total |-> threadCounters[t].total + a, active |-> threadCounters[t].active]
  <1>4. threadCounters' = [threadCounters EXCEPT ![t] = c]
    <2>1. threadCounters' = [threadCounters EXCEPT ![t] =
                               [threadCounters[t] EXCEPT !.total = threadCounters[t].total + a]]
      BY DEF endPoll, PollCycles
    <2>2. \A r \in TwoCounters : [r EXCEPT !.total = r.total + a]
                                   = [total |-> r.total + a, active |-> r.active]
      BY DEF TwoCounters
    <2>3. threadCounters[t] \in TwoCounters
      BY <1>2
    <2> HIDE DEF a
    <2> QED  BY <2>1, <2>2, <2>3
  <1>0. a \in Nat /\ a >= inPoll[t]
    BY <1>3
  <1> HIDE DEF a
  <1>5. c \in TwoCounters /\ c.total = threadCounters[t].total + a /\ c.active = threadCounters[t].active + 0
    BY <1>0, <1>2 DEF TwoCounters
  <1> HIDE DEF c
  <1>6. threadCounters' \in [PerfThread -> TwoCounters]
    BY <1>2, <1>4, <1>5
  <1>7. /\ \A x \in PerfThread : threadCounters'[x].total = threadCounters[x].total + (IF x = t THEN a ELSE 0)
        /\ \A x \in PerfThread : threadCounters'[x].active = threadCounters[x].active + (IF x = t THEN 0 ELSE 0)
    BY <1>2, <1>4, <1>5
  <1>8. PerfTypes'
    <2>1. inPoll' \in [PerfThread -> Nat \cup {NoPoll}]
      BY <1>1, <1>2
    <2> QED  BY <1>1, <1>6, <2>1 DEF PerfInv, PerfTypes
  <1>9. PollInv'
    <2>1. ASSUME NEW x \in PerfThread
          PROVE  /\ inPoll'[x] # NoPoll => x \in registeredThreads' /\ polledSince'
                 /\ threadCounters'[x].active
                      <= threadCounters'[x].total + (IF inPoll'[x] = NoPoll THEN 0 ELSE inPoll'[x])
      <3>1. CASE x = t
        <4>1. /\ threadCounters'[x].active = threadCounters[x].active + 0
              /\ threadCounters'[x].total = threadCounters[x].total + a
              /\ inPoll'[x] = NoPoll
          BY <1>1, <1>2, <1>7, <3>1
        <4>2. threadCounters[x].active <= threadCounters[x].total + inPoll[x]
          BY <1>1, <3>1 DEF PerfInv, PollInv
        <4> QED  BY <1>0, <1>2, <1>3, <3>1, <4>1, <4>2
      <3>2. CASE x # t
        <4>1. /\ threadCounters'[x].active = threadCounters[x].active
              /\ threadCounters'[x].total = threadCounters[x].total
              /\ inPoll'[x] = inPoll[x]
          BY <1>1, <1>2, <1>4, <3>2
        <4> QED  BY <1>1, <4>1 DEF PerfInv, PollInv
      <3> QED  BY <3>1, <3>2
    <2> QED  BY <1>1, <2>1 DEF PerfInv, PollInv
  <1>10. ReadInv' /\ LeftInv'
    <2>1. 0 \in Nat
      OBVIOUS
    <2> QED  BY <1>0, <1>1, <1>3, <1>6, <1>7, <2>1, RaiseStep
  <1>11. QuietInv'
    BY <1>1, <1>3 DEF QuietInv
  <1> QED  BY <1>8, <1>9, <1>10, <1>11 DEF PerfInv

(* While the mutex is free nothing is left to read.                          *)
LEMMA FreeLeft ==
  ASSUME PerfInv, MutexFree
  PROVE  /\ statsReader.at \in {"idle", "dumped"}
         /\ statsReader.left = {} /\ ActiveLeft = {}
  <1>1. statsReader.at \in {"idle", "dumped"}
    BY ReaderTypes DEF PerfInv, MutexFree
  <1> QED  BY <1>1 DEF PerfInv, LeftInv, ActiveLeft

(* What stays while the mutex is free.                                       *)
LEMMA FreeStep ==
  ASSUME PerfInv, MutexFree, UNCHANGED <<statsReader, countedAtStart, polledSince>>,
         Counted'.total = Counted.total, Counted'.active = Counted.active
  PROVE  LeftInv' /\ ReadInv' /\ QuietInv'
  <1>1. /\ statsReader.at \in {"idle", "dumped"}
        /\ statsReader.left = {} /\ ActiveLeft = {} /\ ActiveLeft' = {}
    BY FreeLeft DEF ActiveLeft
  <1>2. LeftInv'
    BY <1>1 DEF LeftInv
  <1>3. ReadInv'
    <2>1. /\ SumOver(Totals(threadCounters), {}) = 0 /\ SumOver(Actives(threadCounters), {}) = 0
          /\ SumOver(Totals(threadCounters'), {}) = 0 /\ SumOver(Actives(threadCounters'), {}) = 0
      BY SumNone
    <2> QED  BY <1>1, <2>1 DEF PerfInv, ReadInv
  <1>4. QuietInv'
    BY <1>1 DEF PerfInv, QuietInv
  <1> QED  BY <1>2, <1>3, <1>4

(* A thread counts for the first time.                                       *)
LEMMA RegisterStep ==
  ASSUME PerfInv, NEW t \in PerfThread, registerThread(t)
  PROVE  PerfInv'
  <1> DEFINE R == registeredThreads
             T2 == Totals(threadCounters')
             A2 == Actives(threadCounters')
  <1>1. /\ t \notin R /\ MutexFree /\ R' = R \cup {t}
        /\ threadCounters' = [threadCounters EXCEPT ![t] = Zero]
        /\ UNCHANGED <<globalCounters, inPoll, statsReader, countedAtStart, polledSince>>
    BY DEF registerThread
  <1>2. /\ threadCounters \in [PerfThread -> TwoCounters] /\ R \in SUBSET PerfThread
        /\ inPoll \in [PerfThread -> Nat \cup {NoPoll}]
    BY DEF PerfInv, PerfTypes
  <1>3. Zero \in TwoCounters /\ Zero.total = 0 /\ Zero.active = 0
    BY DEF Zero, TwoCounters
  <1>4. /\ threadCounters' \in [PerfThread -> TwoCounters] /\ threadCounters'[t] = Zero
        /\ \A x \in PerfThread : x # t => threadCounters'[x] = threadCounters[x]
    BY <1>1, <1>2, <1>3
  <1>5. PerfTypes'
    BY <1>1, <1>2, <1>4 DEF PerfInv, PerfTypes
  <1>6. PollInv'
    <2>1. ASSUME NEW x \in PerfThread
          PROVE  /\ inPoll'[x] # NoPoll => x \in R' /\ polledSince'
                 /\ threadCounters'[x].active
                      <= threadCounters'[x].total + (IF inPoll'[x] = NoPoll THEN 0 ELSE inPoll'[x])
      <3>1. CASE x = t
        <4>1. inPoll[x] = NoPoll
          BY <1>1, <3>1 DEF PerfInv, PollInv
        <4> QED  BY <1>1, <1>3, <1>4, <3>1, <4>1
      <3>2. CASE x # t
        BY <1>1, <1>4, <3>2 DEF PerfInv, PollInv
      <3> QED  BY <3>1, <3>2
    <2> QED  BY <1>1, <2>1 DEF PerfInv, PollInv
  <1>7. /\ T2 \in [PerfThread -> Nat] /\ A2 \in [PerfThread -> Nat] /\ T2[t] = 0 /\ A2[t] = 0
        /\ \A x \in PerfThread : T2[x] = threadCounters'[x].total /\ A2[x] = threadCounters'[x].active
    BY <1>3, <1>4, SumTypes
  <1>8. /\ SumOver(T2, R) \in Nat /\ SumOver(T2, R \cup {t}) = 0 + SumOver(T2, R)
        /\ SumOver(A2, R) \in Nat /\ SumOver(A2, R \cup {t}) = 0 + SumOver(A2, R)
    <2> HIDE DEF T2, A2
    <2> QED  BY <1>1, <1>2, <1>7, SumWith
  <1>9. SumOver(T2, R) = SumOver(Totals(threadCounters), R) /\ SumOver(A2, R) = SumOver(Actives(threadCounters), R)
    <2>1. /\ \A x \in R : T2[x] \in Nat /\ T2[x] = Totals(threadCounters)[x]
          /\ \A x \in R : A2[x] \in Nat /\ A2[x] = Actives(threadCounters)[x]
      <3>1. \A x \in PerfThread : /\ Totals(threadCounters)[x] = threadCounters[x].total
                                  /\ Actives(threadCounters)[x] = threadCounters[x].active
        BY <1>2, SumTypes
      <3> HIDE DEF T2, A2
      <3> QED  BY <1>1, <1>2, <1>4, <1>7, <3>1
    <2>2. IsFiniteSet(R)
      BY <1>2, PerfAssumption, FS_Subset
    <2> HIDE DEF T2, A2
    <2> QED  BY <2>1, <2>2, SumAgrees
  <1>10. Counted'.total = Counted.total /\ Counted'.active = Counted.active
    <2>1. /\ SumOver(T2, R') = SumOver(Totals(threadCounters), R)
          /\ SumOver(A2, R') = SumOver(Actives(threadCounters), R)
      <3> HIDE DEF T2, A2
      <3> QED  BY <1>1, <1>8, <1>9
    <2> QED  BY <1>1, <2>1, CountedIs, CountedNext
  <1>11. LeftInv' /\ ReadInv' /\ QuietInv'
    BY <1>1, <1>10, FreeStep
  <1> QED  BY <1>5, <1>6, <1>11 DEF PerfInv

(* A thread exits.                                                           *)
LEMMA ExitStep ==
  ASSUME PerfInv, NEW t \in PerfThread, exitCounters(t)
  PROVE  PerfInv'
  <1> DEFINE R == registeredThreads
             T == Totals(threadCounters)
             A == Actives(threadCounters)
             G == globalCounters
             c == threadCounters[t]
  <1>1. /\ t \in R /\ inPoll[t] = NoPoll /\ MutexFree /\ R' = R \ {t}
        /\ UNCHANGED <<threadCounters, inPoll, statsReader, countedAtStart, polledSince>>
    BY DEF exitCounters
  <1>2. /\ threadCounters \in [PerfThread -> TwoCounters] /\ R \in SUBSET PerfThread
        /\ c.total \in Nat /\ c.active \in Nat /\ G.total \in Nat /\ G.active \in Nat
    BY ReaderTypes DEF PerfInv, PerfTypes
  <1>3. G' = [total |-> G.total + c.total, active |-> G.active + c.active]
    BY DEF exitCounters, AddCounters
  <1>4. G'.total = G.total + c.total /\ G'.active = G.active + c.active /\ G' \in TwoCounters
    BY <1>2, <1>3 DEF TwoCounters
  <1>5. PerfTypes'
    BY <1>1, <1>2, <1>4 DEF PerfInv, PerfTypes
  <1>6. c.active <= c.total + 0 /\ G.active <= G.total
    BY <1>1 DEF PerfInv, PollInv
  <1>7. PollInv'
    <2>1. G'.active <= G'.total
      BY <1>2, <1>4, <1>6
    <2> QED  BY <1>1, <2>1 DEF PerfInv, PollInv
  <1>8. /\ T \in [PerfThread -> Nat] /\ A \in [PerfThread -> Nat] /\ T[t] = c.total /\ A[t] = c.active
    BY <1>2, SumTypes
  <1>9. /\ SumOver(T, R \ {t}) \in Nat /\ SumOver(T, R) = T[t] + SumOver(T, R \ {t})
        /\ SumOver(A, R \ {t}) \in Nat /\ SumOver(A, R) = A[t] + SumOver(A, R \ {t})
    <2> HIDE DEF T, A
    <2> QED  BY <1>1, <1>2, <1>8, SumWithout
  <1>10. Counted'.total = Counted.total /\ Counted'.active = Counted.active
    <2>1. /\ Counted.total = G.total + SumOver(T, R) /\ Counted.active = G.active + SumOver(A, R)
      BY CountedIs
    <2>2. /\ Counted'.total = G'.total + SumOver(T, R \ {t})
          /\ Counted'.active = G'.active + SumOver(A, R \ {t})
      BY <1>1, CountedNext
    <2> HIDE DEF T, A, c, G
    <2> QED  BY <1>2, <1>4, <1>8, <1>9, <2>1, <2>2
  <1>11. LeftInv' /\ ReadInv' /\ QuietInv'
    BY <1>1, <1>10, FreeStep
  <1> QED  BY <1>5, <1>7, <1>11 DEF PerfInv

(* What getStats leaves alone while it reads.                                *)
LEMMA ReaderStep ==
  ASSUME PerfInv, UNCHANGED <<registeredThreads, threadCounters, globalCounters, inPoll>>,
         countedAtStart' \in TwoCounters, polledSince' \in BOOLEAN,
         \A t \in PerfThread : inPoll[t] # NoPoll => polledSince',
         NEW at \in {"next", "active", "dumped"}, NEW left \in SUBSET PerfThread,
         NEW thread \in PerfThread \cup {Nobody}, NEW output \in TwoCounters,
         statsReader' = [at |-> at, left |-> left, thread |-> thread, output |-> output]
  PROVE  /\ PerfTypes' /\ PollInv' /\ Counted'.total = Counted.total /\ Counted'.active = Counted.active
         /\ statsReader'.at = at /\ statsReader'.left = left /\ statsReader'.thread = thread
         /\ statsReader'.output = output
  <1>1. PerfTypes'
    BY DEF PerfInv, PerfTypes
  <1>2. PollInv'
    BY DEF PerfInv, PollInv
  <1>3. Counted' = Counted
    BY DEF Counted
  <1> QED  BY <1>1, <1>2, <1>3

(* getStats begins.                                                          *)
LEMMA GetStatsStep ==
  ASSUME PerfInv, getStats
  PROVE  PerfInv'
  <1> DEFINE R == registeredThreads
             T == Totals(threadCounters)
             A == Actives(threadCounters)
  <1>1. /\ statsReader' = [at |-> "next", left |-> R, thread |-> Nobody, output |-> globalCounters]
        /\ countedAtStart' = Counted
        /\ polledSince' = (\E t \in PerfThread : inPoll[t] # NoPoll)
        /\ UNCHANGED <<registeredThreads, threadCounters, globalCounters, inPoll>>
    BY DEF getStats
  <1>2. /\ globalCounters \in TwoCounters /\ R \in SUBSET PerfThread
        /\ threadCounters \in [PerfThread -> TwoCounters]
        /\ globalCounters.total \in Nat /\ globalCounters.active \in Nat
    BY ReaderTypes DEF PerfInv, PerfTypes
  <1>3. SumOver(T, R) \in Nat /\ SumOver(A, R) \in Nat
    BY <1>2, SumTypes
  <1>4. Counted.total = globalCounters.total + SumOver(T, R) /\ Counted.active = globalCounters.active + SumOver(A, R)
    BY CountedIs
  <1>5. Counted \in TwoCounters
    <2>1. Counted = [total |-> Counted.total, active |-> Counted.active]
      BY DEF Counted, AddCounters
    <2>2. Counted.total \in Nat /\ Counted.active \in Nat
      <3> HIDE DEF T, A
      <3> QED  BY <1>2, <1>3, <1>4
    <2> QED  BY <2>1, <2>2 DEF TwoCounters
  <1>6. /\ PerfTypes' /\ PollInv' /\ Counted'.total = Counted.total /\ Counted'.active = Counted.active
        /\ statsReader'.at = "next" /\ statsReader'.left = R /\ statsReader'.thread = Nobody
        /\ statsReader'.output = globalCounters
    <2>1. polledSince' \in BOOLEAN /\ \A t \in PerfThread : inPoll[t] # NoPoll => polledSince'
      BY <1>1
    <2>2. countedAtStart' \in TwoCounters
      BY <1>1, <1>5
    <2>3. "next" \in {"next", "active", "dumped"} /\ Nobody \in PerfThread \cup {Nobody}
      OBVIOUS
    <2> QED  BY <1>1, <1>2, <2>1, <2>2, <2>3, ReaderStep
  <1>7. ActiveLeft' = R
    BY <1>6 DEF ActiveLeft
  <1>8. LeftInv'
    BY <1>1, <1>6, <1>7 DEF LeftInv
  <1>9. ReadInv'
    <2>1. /\ countedAtStart'.total = globalCounters.total + SumOver(T, R)
          /\ countedAtStart'.active = globalCounters.active + SumOver(A, R)
      BY <1>1, <1>4
    <2>2. Totals(threadCounters') = T /\ Actives(threadCounters') = A
      BY <1>1
    <2>3. globalCounters.total + SumOver(T, R) \in Nat /\ globalCounters.active + SumOver(A, R) \in Nat
      <3> HIDE DEF T, A
      <3> QED  BY <1>2, <1>3
    <2>4. \A n \in Nat : n <= n
      OBVIOUS
    <2> HIDE DEF T, A
    <2> QED  BY <1>4, <1>6, <1>7, <2>1, <2>2, <2>3, <2>4 DEF ReadInv
  <1>10. QuietInv'
    <2>1. globalCounters.active + 0 <= globalCounters.total
      BY <1>2 DEF PerfInv, PollInv
    <2> QED  BY <1>1, <1>6, <2>1 DEF QuietInv
  <1> QED  BY <1>6, <1>8, <1>9, <1>10 DEF PerfInv

(* getStats adds the total of a thread.                                      *)
LEMMA AddTotalStep ==
  ASSUME PerfInv, NEW t \in PerfThread, addThreadTotal(t)
  PROVE  PerfInv'
  <1> DEFINE T == Totals(threadCounters)
             A == Actives(threadCounters)
             L == statsReader.left
             out == statsReader.output
             o == [total |-> out.total + threadCounters[t].total, active |-> out.active]
  <1>1. /\ statsReader.at = "next" /\ t \in L
        /\ UNCHANGED <<registeredThreads, threadCounters, globalCounters, inPoll, countedAtStart, polledSince>>
    BY DEF addThreadTotal
  <1>2. /\ L \in SUBSET PerfThread /\ out \in TwoCounters /\ out.total \in Nat /\ out.active \in Nat
        /\ threadCounters[t].total \in Nat /\ threadCounters[t].active \in Nat
        /\ countedAtStart \in TwoCounters /\ polledSince \in BOOLEAN
        /\ threadCounters \in [PerfThread -> TwoCounters]
    BY ReaderTypes DEF PerfInv, PerfTypes
  <1>3. statsReader' = [at |-> "active", left |-> L \ {t}, thread |-> t, output |-> o]
    <2>1. statsReader' = [at |-> "active", left |-> L \ {t}, thread |-> t,
                          output |-> [out EXCEPT !.total = out.total + threadCounters[t].total]]
      BY DEF addThreadTotal
    <2>2. \A r \in TwoCounters : [r EXCEPT !.total = r.total + threadCounters[t].total]
                                   = [total |-> r.total + threadCounters[t].total, active |-> r.active]
      BY DEF TwoCounters
    <2> HIDE DEF out
    <2> QED  BY <1>2, <2>1, <2>2
  <1>4. o \in TwoCounters /\ o.total = out.total + threadCounters[t].total /\ o.active = out.active
    BY <1>2 DEF TwoCounters
  <1> HIDE DEF o, out, L
  <1>5. /\ PerfTypes' /\ PollInv' /\ Counted'.total = Counted.total /\ Counted'.active = Counted.active
        /\ statsReader'.at = "active" /\ statsReader'.left = L \ {t} /\ statsReader'.thread = t
        /\ statsReader'.output = o
    <2>1. \A x \in PerfThread : inPoll[x] # NoPoll => polledSince'
      BY <1>1 DEF PerfInv, PollInv
    <2>2. countedAtStart' \in TwoCounters /\ polledSince' \in BOOLEAN
      BY <1>1, <1>2
    <2>3. "active" \in {"next", "active", "dumped"} /\ t \in PerfThread \cup {Nobody}
          /\ L \ {t} \in SUBSET PerfThread
      BY <1>2
    <2> QED  BY <1>1, <1>3, <1>4, <2>1, <2>2, <2>3, ReaderStep
  <1>6. ActiveLeft = L /\ ActiveLeft' = L
    BY <1>1, <1>5 DEF ActiveLeft, L
  <1>7. LeftInv'
    <2>1. L \subseteq registeredThreads
      BY <1>1, <1>6 DEF PerfInv, LeftInv
    <2> QED  BY <1>1, <1>5, <1>6, <2>1 DEF LeftInv
  <1>8. ReadInv'
    <2>1. T \in [PerfThread -> Nat] /\ T[t] = threadCounters[t].total
      BY <1>2, SumTypes
    <2>2. SumOver(T, L \ {t}) \in Nat /\ SumOver(T, L) = T[t] + SumOver(T, L \ {t})
      <3> HIDE DEF T
      <3> QED  BY <1>1, <1>2, <2>1, SumWithout DEF L
    <2>3. o.total + SumOver(T, L \ {t}) = out.total + SumOver(T, L)
      <3> HIDE DEF T
      <3> QED  BY <1>2, <1>4, <2>1, <2>2
    <2>4. /\ countedAtStart.total <= out.total + SumOver(T, L) /\ out.total + SumOver(T, L) <= Counted.total
          /\ countedAtStart.active <= out.active + SumOver(A, L) /\ out.active + SumOver(A, L) <= Counted.active
      BY <1>1, <1>6 DEF PerfInv, ReadInv, L, out
    <2>5. Totals(threadCounters') = T /\ Actives(threadCounters') = A
      BY <1>1
    <2> HIDE DEF T, A
    <2> QED  BY <1>1, <1>4, <1>5, <1>6, <2>3, <2>4, <2>5 DEF ReadInv
  <1>9. QuietInv'
    <2> SUFFICES ASSUME ~polledSince
                 PROVE  o.active + threadCounters[t].active <= o.total
      BY <1>1, <1>5 DEF QuietInv
    <2>1. inPoll[t] = NoPoll /\ threadCounters[t].active <= threadCounters[t].total + 0
      BY DEF PerfInv, PollInv
    <2>2. out.active + 0 <= out.total
      BY <1>1 DEF PerfInv, QuietInv, out
    <2> QED  BY <1>2, <1>4, <2>1, <2>2
  <1> QED  BY <1>5, <1>7, <1>8, <1>9 DEF PerfInv

(* getStats adds the active cycles of the thread.                            *)
LEMMA AddActiveReadStep ==
  ASSUME PerfInv, addThreadActive
  PROVE  PerfInv'
  <1> DEFINE T == Totals(threadCounters)
             A == Actives(threadCounters)
             L == statsReader.left
             t == statsReader.thread
             out == statsReader.output
             o == [total |-> out.total, active |-> out.active + threadCounters[t].active]
  <1>1. /\ statsReader.at = "active"
        /\ UNCHANGED <<registeredThreads, threadCounters, globalCounters, inPoll, countedAtStart, polledSince>>
    BY DEF addThreadActive
  <1>2. t \in PerfThread /\ t \notin L
    BY <1>1 DEF PerfInv, LeftInv
  <1>3. /\ L \in SUBSET PerfThread /\ out \in TwoCounters /\ out.total \in Nat /\ out.active \in Nat
        /\ threadCounters[t].total \in Nat /\ threadCounters[t].active \in Nat
        /\ countedAtStart \in TwoCounters /\ polledSince \in BOOLEAN
        /\ threadCounters \in [PerfThread -> TwoCounters]
    BY <1>2, ReaderTypes DEF PerfInv, PerfTypes
  <1>4. statsReader' = [at |-> "next", left |-> L, thread |-> Nobody, output |-> o]
    <2> DEFINE n == out.active + threadCounters[t].active
               s1 == [statsReader EXCEPT !.at = "next"]
               s2 == [s1 EXCEPT !.thread = Nobody]
               s3 == [s2 EXCEPT !.output = [s2.output EXCEPT !.active = n]]
    <2>1. statsReader = [at |-> statsReader.at, left |-> L, thread |-> t, output |-> out]
      BY ReaderTypes DEF PerfInv
    <2>2. statsReader' = [statsReader EXCEPT !.at = "next", !.thread = Nobody, !.output.active = n]
      BY DEF addThreadActive
    <2> HIDE DEF n
    <2>3. [statsReader EXCEPT !.at = "next", !.thread = Nobody, !.output.active = n] = s3
      BY Zenon
    <2> DEFINE w == statsReader.at
    <2> HIDE DEF L, out, t, w
    <2>4. s1 = [at |-> "next", left |-> L, thread |-> t, output |-> out]
      BY <2>1
    <2> HIDE DEF s1
    <2>5. s2 = [at |-> "next", left |-> L, thread |-> Nobody, output |-> out]
      BY <2>4
    <2> HIDE DEF s2
    <2>6. [out EXCEPT !.active = n] = [total |-> out.total, active |-> n]
      BY <1>3 DEF TwoCounters
    <2>7. s3 = [at |-> "next", left |-> L, thread |-> Nobody, output |-> [out EXCEPT !.active = n]]
      BY <2>5
    <2> HIDE DEF s3
    <2> QED  BY <2>2, <2>3, <2>6, <2>7 DEF n
  <1>5. o \in TwoCounters /\ o.total = out.total /\ o.active = out.active + threadCounters[t].active
    BY <1>3 DEF TwoCounters
  <1> HIDE DEF o, out, L, t
  <1>6. /\ PerfTypes' /\ PollInv' /\ Counted'.total = Counted.total /\ Counted'.active = Counted.active
        /\ statsReader'.at = "next" /\ statsReader'.left = L /\ statsReader'.thread = Nobody
        /\ statsReader'.output = o
    <2>1. \A x \in PerfThread : inPoll[x] # NoPoll => polledSince'
      BY <1>1 DEF PerfInv, PollInv
    <2>2. countedAtStart' \in TwoCounters /\ polledSince' \in BOOLEAN
      BY <1>1, <1>3
    <2>3. "next" \in {"next", "active", "dumped"} /\ Nobody \in PerfThread \cup {Nobody}
      OBVIOUS
    <2> QED  BY <1>1, <1>3, <1>4, <1>5, <2>1, <2>2, <2>3, ReaderStep
  <1>7. ActiveLeft = L \cup {t} /\ ActiveLeft' = L
    BY <1>1, <1>6 DEF ActiveLeft, L, t
  <1>8. LeftInv'
    <2>1. L \subseteq registeredThreads
      BY <1>1, <1>7 DEF PerfInv, LeftInv
    <2> QED  BY <1>1, <1>6, <1>7, <2>1 DEF LeftInv
  <1>9. ReadInv'
    <2>1. A \in [PerfThread -> Nat] /\ A[t] = threadCounters[t].active
      BY <1>2, <1>3, SumTypes
    <2>2. SumOver(A, L) \in Nat /\ SumOver(A, L \cup {t}) = A[t] + SumOver(A, L)
      <3> HIDE DEF A
      <3>1. t \in PerfThread \ L
        BY <1>2
      <3> QED  BY <1>3, <2>1, <3>1, SumWith
    <2>3. o.active + SumOver(A, L) = out.active + SumOver(A, L \cup {t})
      <3> HIDE DEF A
      <3> QED  BY <1>3, <1>5, <2>1, <2>2
    <2>4. /\ countedAtStart.total <= out.total + SumOver(T, L) /\ out.total + SumOver(T, L) <= Counted.total
          /\ countedAtStart.active <= out.active + SumOver(A, L \cup {t})
          /\ out.active + SumOver(A, L \cup {t}) <= Counted.active
      BY <1>1, <1>7 DEF PerfInv, ReadInv, L, out
    <2>5. Totals(threadCounters') = T /\ Actives(threadCounters') = A
      BY <1>1
    <2> HIDE DEF T, A
    <2> QED  BY <1>1, <1>5, <1>6, <1>7, <2>3, <2>4, <2>5 DEF ReadInv
  <1>10. QuietInv'
    <2> SUFFICES ASSUME ~polledSince PROVE o.active + 0 <= o.total
      BY <1>1, <1>6 DEF QuietInv
    <2>1. out.active + threadCounters[t].active <= out.total
      BY <1>1 DEF PerfInv, QuietInv, out, t
    <2> QED  BY <1>3, <1>5, <2>1
  <1> QED  BY <1>6, <1>8, <1>9, <1>10 DEF PerfInv

(* getStats has read all threads.                                            *)
LEMMA DumpStep ==
  ASSUME PerfInv, dumpStats
  PROVE  PerfInv'
  <1> DEFINE L == statsReader.left
             t == statsReader.thread
             o == statsReader.output
  <1>1. /\ statsReader.at = "next" /\ L = {}
        /\ UNCHANGED <<registeredThreads, threadCounters, globalCounters, inPoll, countedAtStart, polledSince>>
    BY DEF dumpStats
  <1>2. /\ statsReader = [at |-> statsReader.at, left |-> L, thread |-> t, output |-> o]
        /\ L \in SUBSET PerfThread /\ t \in PerfThread \cup {Nobody} /\ o \in TwoCounters
        /\ countedAtStart \in TwoCounters /\ polledSince \in BOOLEAN
    BY ReaderTypes DEF PerfInv, PerfTypes
  <1>3. statsReader' = [at |-> "dumped", left |-> L, thread |-> t, output |-> o]
    <2>1. statsReader' = [statsReader EXCEPT !.at = "dumped"]
      BY DEF dumpStats
    <2> DEFINE w == statsReader.at
    <2> HIDE DEF L, t, o, w
    <2> QED  BY <1>2, <2>1
  <1> HIDE DEF o, L, t
  <1>4. /\ PerfTypes' /\ PollInv' /\ Counted'.total = Counted.total /\ Counted'.active = Counted.active
        /\ statsReader'.at = "dumped" /\ statsReader'.left = L /\ statsReader'.thread = t
        /\ statsReader'.output = o
    <2>1. \A x \in PerfThread : inPoll[x] # NoPoll => polledSince'
      BY <1>1 DEF PerfInv, PollInv
    <2>2. countedAtStart' \in TwoCounters /\ polledSince' \in BOOLEAN
      BY <1>1, <1>2
    <2>3. "dumped" \in {"next", "active", "dumped"}
      OBVIOUS
    <2> QED  BY <1>1, <1>2, <1>3, <2>1, <2>2, <2>3, ReaderStep
  <1>5. ActiveLeft = L /\ ActiveLeft' = L
    BY <1>1, <1>4 DEF ActiveLeft, L
  <1>6. LeftInv'
    BY <1>1, <1>4, <1>5 DEF LeftInv
  <1>7. ReadInv'
    BY <1>1, <1>4, <1>5 DEF PerfInv, ReadInv, L, o
  <1>8. QuietInv'
    BY <1>1, <1>4 DEF PerfInv, QuietInv, o
  <1> QED  BY <1>4, <1>6, <1>7, <1>8 DEF PerfInv

(* getStats reports no cycle twice and loses none, whatever the threads do    *)
(* while it reads, however many there are.                                   *)
THEOREM StatsAreBracketed == PerfInit /\ [][PerfNext]_perfVars => []StatsBracketed
  <1>1. ASSUME PerfInit PROVE PerfInv
    <2>1. Zero \in TwoCounters /\ Zero.total = 0 /\ Zero.active = 0
      BY DEF Zero, TwoCounters
    <2>2. PerfTypes
      BY <1>1, <2>1 DEF PerfInit, PerfTypes
    <2>3. PollInv
      BY <1>1, <2>1 DEF PerfInit, PollInv
    <2>4. LeftInv /\ ReadInv /\ QuietInv
      BY <1>1 DEF PerfInit, LeftInv, ReadInv, QuietInv
    <2> QED  BY <2>2, <2>3, <2>4 DEF PerfInv
  <1>2. ASSUME PerfInv, [PerfNext]_perfVars PROVE PerfInv'
    <2>1. CASE UNCHANGED perfVars
      <3>1. /\ PerfTypes' = PerfTypes /\ PollInv' = PollInv /\ LeftInv' = LeftInv
            /\ ReadInv' = ReadInv /\ QuietInv' = QuietInv
        BY <2>1 DEF perfVars, PerfTypes, PollInv, LeftInv, ReadInv, QuietInv, ActiveLeft, Counted
      <3> QED  BY <1>2, <3>1 DEF PerfInv
    <2>2. CASE PerfNext
      BY <1>2, <2>2, RegisterStep, ExitStep, BeginPollStep, AddActiveStep, EndPollStep,
         AddTotalStep, GetStatsStep, AddActiveReadStep, DumpStep DEF PerfNext
    <2> QED  BY <1>2, <2>1, <2>2
  <1>3. ASSUME PerfInv PROVE StatsBracketed
    <2> SUFFICES ASSUME statsReader.at = "dumped"
                 PROVE  /\ statsReader.output.total \in countedAtStart.total..Counted.total
                        /\ statsReader.output.active \in countedAtStart.active..Counted.active
                        /\ ~polledSince => statsReader.output.total >= statsReader.output.active
      BY DEF StatsBracketed
    <2>1. statsReader.left = {} /\ ActiveLeft = {}
      BY <1>3 DEF PerfInv, LeftInv, ActiveLeft
    <2>2. SumOver(Totals(threadCounters), {}) = 0 /\ SumOver(Actives(threadCounters), {}) = 0
      BY SumNone
    <2>3. /\ countedAtStart.total <= statsReader.output.total + 0
          /\ statsReader.output.total + 0 <= Counted.total
          /\ countedAtStart.active <= statsReader.output.active + 0
          /\ statsReader.output.active + 0 <= Counted.active
      BY <1>3, <2>1, <2>2 DEF PerfInv, ReadInv
    <2>4. /\ statsReader.output.total \in Nat /\ statsReader.output.active \in Nat
          /\ countedAtStart.total \in Nat /\ countedAtStart.active \in Nat
      BY <1>3, ReaderTypes DEF PerfInv
    <2>5. Counted.total \in Nat /\ Counted.active \in Nat
      <3>1. /\ SumOver(Totals(threadCounters), registeredThreads) \in Nat
            /\ SumOver(Actives(threadCounters), registeredThreads) \in Nat
        BY <1>3, SumTypes DEF PerfInv, PerfTypes
      <3>2. globalCounters.total \in Nat /\ globalCounters.active \in Nat
        BY <1>3, ReaderTypes DEF PerfInv
      <3> QED  BY <3>1, <3>2, CountedIs
    <2>6. ~polledSince => statsReader.output.active + 0 <= statsReader.output.total
      BY <1>3 DEF PerfInv, QuietInv
    <2> QED  BY <2>3, <2>4, <2>5, <2>6
  <1> QED  BY <1>1, <1>2, <1>3, PTL

-----------------------------------------------------------------------------
(* LockOrder. *)
(*                                                                           *)
(* Each path of lock and unlock operations takes its locks in the order of   *)
(* Nesting; so whoever waits for a lock holds only locks outside of it, and  *)
(* the thread that waits for the innermost one can go on.                    *)

(* The names of the locks, one step on a lock.                               *)
LockName == {Nesting[i] : i \in 1..12}

LockOp == [op : {"lock", "unlock"}, of : LockName]

(* The locks that a thread holds after k steps of path p.                    *)
HeldAfter(p, k) ==
  {l \in LockName : \E i \in 1..k :
     /\ p[i] = [op |-> "lock", of |-> l]
     /\ \A j \in (i + 1)..k : p[j] # [op |-> "unlock", of |-> l]}

(* Every lock on the path is taken inside the ones held at that moment.      *)
TakenInOrder(p) ==
  \A k \in 1..Len(p) : p[k].op = "lock" =>
    \A l \in HeldAfter(p, k - 1) : Outside(l, p[k].of)

(* Only a lock that is held is given back, and at the end none is held.      *)
GivenBack(p) ==
  /\ \A k \in 1..Len(p) : p[k].op = "unlock" => p[k].of \in HeldAfter(p, k - 1)
  /\ HeldAfter(p, Len(p)) = {}

(* Path p nests its locks, which are all in L.                               *)
Nested(p, L) ==
  /\ p \in Seq(LockOp)
  /\ \A k \in 1..Len(p) : p[k].of \in L
  /\ TakenInOrder(p)
  /\ GivenBack(p)

(* The order of Nesting is strict.                                           *)
LEMMA OutsideRank ==
  /\ \A i, j \in 1..12 : i < j => Outside(Nesting[i], Nesting[j])
  /\ \A i, j \in 1..12 : Nesting[i] = Nesting[j] => i = j
  /\ \A i, j \in 1..12 : Outside(Nesting[i], Nesting[j]) => i < j
<1>1. Len(Nesting) = 12
  BY DEF Nesting
<1>2. \A i, j \in 1..12 : Nesting[i] = Nesting[j] => i = j
  BY DEF Nesting
<1> QED BY <1>1, <1>2 DEF Outside

(* No lock comes before itself.                                              *)
LEMMA OutsideStrict == \A l : ~Outside(l, l)
<1> SUFFICES ASSUME NEW l, Outside(l, l)
             PROVE  FALSE
  OBVIOUS
<1>1. Len(Nesting) = 12
  BY DEF Nesting
<1>2. PICK i, j \in 1..12 : i < j /\ Nesting[i] = l /\ Nesting[j] = l
  BY <1>1 DEF Outside
<1>3. i = j
  BY <1>2, OutsideRank
<1> QED BY <1>2, <1>3

(* A path without locks nests them.                                          *)
LEMMA EmptyNested == Nested(<<>>, {})
BY DEF Nested, TakenInOrder, GivenBack, HeldAfter

(* What is held after a step.                                                *)
LEMMA HeldStep ==
  ASSUME NEW p \in Seq(LockOp), NEW k \in 0..(Len(p) - 1)
  PROVE  /\ p[k + 1].op = "lock" => HeldAfter(p, k + 1) = HeldAfter(p, k) \cup {p[k + 1].of}
         /\ p[k + 1].op = "unlock" => HeldAfter(p, k + 1) = HeldAfter(p, k) \ {p[k + 1].of}
<1>1. k \in Nat /\ k + 1 \in 1..Len(p) /\ p[k + 1] \in LockOp
  OBVIOUS
<1>2. p[k + 1].of \in LockName /\ p[k + 1] = [op |-> p[k + 1].op, of |-> p[k + 1].of]
  BY <1>1 DEF LockOp
<1> DEFINE o == p[k + 1].of
<1>3. CASE p[k + 1].op = "lock"
  <2>1. p[k + 1] = [op |-> "lock", of |-> o]
    BY <1>2, <1>3
  <2>2. \A l : p[k + 1] # [op |-> "unlock", of |-> l]
    BY <2>1
  <2>3. o \in HeldAfter(p, k + 1)
    BY <1>1, <1>2, <2>1 DEF HeldAfter
  <2>4. ASSUME NEW l \in HeldAfter(p, k) PROVE l \in HeldAfter(p, k + 1)
    BY <1>1, <2>2, <2>4 DEF HeldAfter
  <2>5. ASSUME NEW l \in HeldAfter(p, k + 1), l # o PROVE l \in HeldAfter(p, k)
    BY <1>1, <2>1, <2>5 DEF HeldAfter
  <2> QED BY <1>3, <2>3, <2>4, <2>5
<1>4. CASE p[k + 1].op = "unlock"
  <2>1. p[k + 1] = [op |-> "unlock", of |-> o]
    BY <1>2, <1>4
  <2>2. /\ \A l : p[k + 1] # [op |-> "lock", of |-> l]
        /\ \A l : l # o => p[k + 1] # [op |-> "unlock", of |-> l]
    BY <2>1
  <2>3. o \notin HeldAfter(p, k + 1)
    BY <1>1, <2>1, <2>2 DEF HeldAfter
  <2>4. ASSUME NEW l \in HeldAfter(p, k), l # o PROVE l \in HeldAfter(p, k + 1)
    BY <1>1, <2>2, <2>4 DEF HeldAfter
  <2>5. ASSUME NEW l \in HeldAfter(p, k + 1) PROVE l \in HeldAfter(p, k)
    BY <1>1, <2>1, <2>2, <2>5 DEF HeldAfter
  <2> QED BY <1>4, <2>3, <2>4, <2>5
<1> QED BY <1>3, <1>4

(* It depends on these steps alone.                                          *)
LEMMA HeldSame ==
  ASSUME NEW p, NEW r, NEW k \in Nat, \A i \in 1..k : r[i] = p[i]
  PROVE  HeldAfter(r, k) = HeldAfter(p, k)
<1>1. \A i \in 1..k : \A j \in (i + 1)..k : j \in 1..k
  OBVIOUS
<1> QED BY <1>1 DEF HeldAfter

(* One path after the other.                                                 *)
LEMMA SequenceNested ==
  ASSUME NEW p, NEW q, NEW L, NEW M, Nested(p, L), Nested(q, M)
  PROVE  Nested(p \o q, L \cup M)
<1> DEFINE r == p \o q
           n == Len(p)
<1>1. /\ p \in Seq(LockOp) /\ q \in Seq(LockOp) /\ n \in Nat /\ Len(q) \in Nat
      /\ r \in Seq(LockOp) /\ Len(r) = n + Len(q)
      /\ \A i \in 1..n : r[i] = p[i]
      /\ \A i \in 1..Len(q) : r[n + i] = q[i]
  BY DEF Nested
<1> HIDE DEF r
<1>2. ASSUME NEW k \in 0..n
      PROVE  HeldAfter(r, k) = HeldAfter(p, k)
  <2>1. k \in Nat /\ \A i \in 1..k : r[i] = p[i]
    BY <1>1
  <2> QED BY <2>1, HeldSame
<1>3. ASSUME NEW k \in 0..Len(q)
      PROVE  HeldAfter(r, n + k) = HeldAfter(q, k)
  <2>1. ASSUME NEW l \in HeldAfter(r, n + k) PROVE l \in HeldAfter(q, k)
    <3>1. PICK i \in 1..(n + k) : /\ r[i] = [op |-> "lock", of |-> l]
                                  /\ \A j \in (i + 1)..(n + k) : r[j] # [op |-> "unlock", of |-> l]
      BY <2>1 DEF HeldAfter
    <3>2. l \in LockName
      BY DEF HeldAfter
    <3>3. CASE i <= n
      <4>1. l \in HeldAfter(p, n)
        <5>1. i \in 1..n /\ p[i] = [op |-> "lock", of |-> l]
          BY <1>1, <3>1, <3>3
        <5>2. ASSUME NEW j \in (i + 1)..n PROVE p[j] # [op |-> "unlock", of |-> l]
          <6>1. j \in (i + 1)..(n + k) /\ j \in 1..n
            BY <1>1, <3>3
          <6> QED BY <1>1, <3>1, <6>1
        <5> QED BY <3>2, <5>1, <5>2 DEF HeldAfter
      <4> QED BY <4>1 DEF Nested, GivenBack
    <3>4. CASE i > n
      <4>0. i - n \in 1..k /\ i - n \in 1..Len(q) /\ n + (i - n) = i
        BY <1>1, <3>4
      <4>1. i - n \in 1..k /\ q[i - n] = [op |-> "lock", of |-> l]
        BY <1>1, <3>1, <4>0
      <4>2. ASSUME NEW j \in (i - n + 1)..k PROVE q[j] # [op |-> "unlock", of |-> l]
        <5>1. n + j \in (i + 1)..(n + k) /\ j \in 1..Len(q)
          BY <1>1, <3>4
        <5> QED BY <1>1, <3>1, <5>1
      <4> QED BY <3>2, <4>1, <4>2 DEF HeldAfter
    <3> QED BY <1>1, <3>3, <3>4
  <2>2. ASSUME NEW l \in HeldAfter(q, k) PROVE l \in HeldAfter(r, n + k)
    <3>1. PICK i \in 1..k : /\ q[i] = [op |-> "lock", of |-> l]
                            /\ \A j \in (i + 1)..k : q[j] # [op |-> "unlock", of |-> l]
      BY <2>2 DEF HeldAfter
    <3>2. n + i \in 1..(n + k) /\ r[n + i] = [op |-> "lock", of |-> l]
      BY <1>1, <3>1
    <3>3. ASSUME NEW j \in (n + i + 1)..(n + k) PROVE r[j] # [op |-> "unlock", of |-> l]
      <4>1. j - n \in (i + 1)..k /\ j - n \in 1..Len(q) /\ n + (j - n) = j
        BY <1>1
      <4>2. r[j] = q[j - n]
        BY <1>1, <4>1
      <4> QED BY <3>1, <4>1, <4>2
    <3>4. l \in LockName
      BY DEF HeldAfter
    <3> QED BY <3>2, <3>3, <3>4 DEF HeldAfter
  <2> QED BY <2>1, <2>2
<1>4. ASSUME NEW k \in 1..Len(r)
      PROVE  /\ r[k].of \in L \cup M
             /\ r[k].op = "lock" => \A l \in HeldAfter(r, k - 1) : Outside(l, r[k].of)
             /\ r[k].op = "unlock" => r[k].of \in HeldAfter(r, k - 1)
  <2>1. CASE k <= n
    <3>1. k \in 1..n /\ k - 1 \in 0..n
      BY <1>1, <2>1
    <3>2. r[k] = p[k] /\ HeldAfter(r, k - 1) = HeldAfter(p, k - 1)
      BY <1>1, <1>2, <3>1
    <3> QED BY <3>1, <3>2 DEF Nested, TakenInOrder, GivenBack
  <2>2. CASE k > n
    <3>1. k - n \in 1..Len(q) /\ k - n - 1 \in 0..Len(q) /\ n + (k - n) = k
          /\ n + (k - n - 1) = k - 1
      BY <1>1, <2>2
    <3>2. r[k] = q[k - n] /\ HeldAfter(r, k - 1) = HeldAfter(q, k - n - 1)
      BY <1>1, <1>3, <3>1
    <3> QED BY <3>1, <3>2 DEF Nested, TakenInOrder, GivenBack
  <2> QED BY <1>1, <2>1, <2>2
<1>5. HeldAfter(r, Len(r)) = {}
  <2>1. HeldAfter(r, n + Len(q)) = HeldAfter(q, Len(q))
    BY <1>1, <1>3
  <2> QED BY <1>1, <2>1 DEF Nested, GivenBack
<1>6. Nested(r, L \cup M)
  BY <1>1, <1>4, <1>5 DEF Nested, TakenInOrder, GivenBack
<1> QED BY <1>6 DEF r

(* A path inside a lock that comes before all of its locks.                  *)
LEMMA WithNested ==
  ASSUME NEW lock \in LockName, NEW body, NEW L, Nested(body, L),
         \A l \in L : Outside(lock, l)
  PROVE  Nested(With(lock, body), L \cup {lock})
<1> DEFINE r == With(lock, body)
           n == Len(body)
           taken == [op |-> "lock", of |-> lock]
           given == [op |-> "unlock", of |-> lock]
<1>1. /\ body \in Seq(LockOp) /\ n \in Nat
      /\ taken \in LockOp /\ given \in LockOp
      /\ r \in Seq(LockOp) /\ Len(r) = n + 2
      /\ r[1] = taken /\ r[n + 2] = given
      /\ \A i \in 1..n : r[i + 1] = body[i]
  <2>1. body \in Seq(LockOp) /\ n \in Nat
    BY DEF Nested
  <2>2. taken \in LockOp /\ given \in LockOp
    BY DEF LockOp
  <2>3. <<taken>> \in Seq(LockOp) /\ <<given>> \in Seq(LockOp)
    BY <2>2
  <2>4. r = <<taken>> \o body \o <<given>>
    BY DEF With
  <2> QED BY <2>1, <2>2, <2>3, <2>4
<1> HIDE DEF r
<1>2. \A i \in 1..n : body[i].of # lock /\ body[i] # taken /\ body[i] # given
  <2>1. \A i \in 1..n : body[i].of \in L
    BY DEF Nested
  <2>2. \A i \in 1..n : body[i].of # lock
    BY <2>1, OutsideStrict
  <2> QED BY <2>2
<1>3. ASSUME NEW k \in 0..n
      PROVE  HeldAfter(r, k + 1) = HeldAfter(body, k) \cup {lock}
  <2>0. /\ \A i \in 2..(n + 1) : i - 1 \in 1..n /\ r[i] = body[i - 1]
        /\ k \in Nat
    <3>1. \A i \in 2..(n + 1) : i - 1 \in 1..n /\ (i - 1) + 1 = i
      BY <1>1
    <3> QED BY <1>1, <3>1
  <2>1. lock \in HeldAfter(r, k + 1)
    <3>1. \A j \in 2..(k + 1) : r[j] # given
      BY <1>1, <1>2, <2>0
    <3> QED BY <1>1, <2>0, <3>1 DEF HeldAfter
  <2>2. ASSUME NEW l \in HeldAfter(body, k) PROVE l \in HeldAfter(r, k + 1)
    <3>1. PICK i \in 1..k : /\ body[i] = [op |-> "lock", of |-> l]
                            /\ \A j \in (i + 1)..k : body[j] # [op |-> "unlock", of |-> l]
      BY <2>2 DEF HeldAfter
    <3>2. i + 1 \in 1..(k + 1) /\ r[i + 1] = [op |-> "lock", of |-> l]
      BY <1>1, <3>1
    <3>3. \A j \in (i + 2)..(k + 1) : r[j] # [op |-> "unlock", of |-> l]
      <4>1. \A j \in (i + 2)..(k + 1) : j - 1 \in (i + 1)..k /\ j \in 2..(n + 1)
        BY <1>1, <2>0
      <4> QED BY <2>0, <3>1, <4>1
    <3>4. l \in LockName /\ (i + 1) + 1 = i + 2
      BY DEF HeldAfter
    <3> QED BY <3>2, <3>3, <3>4 DEF HeldAfter
  <2>3. ASSUME NEW l \in HeldAfter(r, k + 1), l # lock PROVE l \in HeldAfter(body, k)
    <3>1. PICK i \in 1..(k + 1) : /\ r[i] = [op |-> "lock", of |-> l]
                                  /\ \A j \in (i + 1)..(k + 1) : r[j] # [op |-> "unlock", of |-> l]
      BY <2>3 DEF HeldAfter
    <3>2. i # 1
      BY <1>1, <2>3, <3>1
    <3>3. i - 1 \in 1..k /\ body[i - 1] = [op |-> "lock", of |-> l]
      BY <1>1, <2>0, <3>1, <3>2
    <3>4. \A j \in ((i - 1) + 1)..k : j + 1 \in (i + 1)..(k + 1) /\ j \in 1..n
      BY <1>1, <2>0, <3>2
    <3>5. \A j \in ((i - 1) + 1)..k : body[j] # [op |-> "unlock", of |-> l]
      BY <1>1, <3>1, <3>4
    <3>6. l \in LockName
      BY DEF HeldAfter
    <3> QED BY <3>3, <3>5, <3>6 DEF HeldAfter
  <2> QED BY <2>1, <2>2, <2>3
<1>4. HeldAfter(r, 0) = {}
  BY DEF HeldAfter
<1>5. HeldAfter(r, n + 1) = {lock}
  <2>1. HeldAfter(body, n) = {} /\ n \in 0..n
    BY <1>1 DEF Nested, GivenBack
  <2> QED BY <1>3, <2>1
<1>6. HeldAfter(r, n + 2) = {}
  <2>1. n + 1 \in 0..(Len(r) - 1) /\ (n + 1) + 1 = n + 2
    BY <1>1
  <2>2. r[(n + 1) + 1].op = "unlock" /\ r[(n + 1) + 1].of = lock
    BY <1>1, <2>1
  <2>3. HeldAfter(r, (n + 1) + 1) = HeldAfter(r, n + 1) \ {lock}
    BY <1>1, <2>1, <2>2, HeldStep
  <2> QED BY <1>5, <2>1, <2>3
<1>7. ASSUME NEW k \in 1..(n + 2)
      PROVE  /\ r[k].of \in L \cup {lock}
             /\ r[k].op = "lock" => \A l \in HeldAfter(r, k - 1) : Outside(l, r[k].of)
             /\ r[k].op = "unlock" => r[k].of \in HeldAfter(r, k - 1)
  <2>1. CASE k = 1
    BY <1>1, <1>4, <2>1
  <2>2. CASE k = n + 2
    <3>1. k - 1 = n + 1 /\ r[k] = given
      BY <1>1, <2>2
    <3> QED BY <1>5, <3>1
  <2>3. CASE k # 1 /\ k # n + 2
    <3>1. k - 1 \in 1..n /\ k - 2 \in 0..n /\ (k - 1) + 1 = k /\ (k - 2) + 1 = k - 1
          /\ (k - 1) - 1 = k - 2
      BY <1>1, <2>3
    <3>2. r[k] = body[k - 1] /\ HeldAfter(r, k - 1) = HeldAfter(body, k - 2) \cup {lock}
      BY <1>1, <1>3, <3>1
    <3>3. /\ body[k - 1].of \in L
          /\ body[k - 1].op = "lock" =>
               \A l \in HeldAfter(body, k - 2) : Outside(l, body[k - 1].of)
          /\ body[k - 1].op = "unlock" => body[k - 1].of \in HeldAfter(body, k - 2)
      BY <3>1 DEF Nested, TakenInOrder, GivenBack
    <3> QED BY <3>2, <3>3
  <2> QED BY <2>1, <2>2, <2>3
<1>8. Nested(r, L \cup {lock})
  BY <1>1, <1>6, <1>7 DEF Nested, TakenInOrder, GivenBack
<1> QED BY <1>8 DEF r

(* The positions of the locks in the order.                                  *)
LEMMA LockRanks ==
  /\ Nesting[1] = "sender.bucket" /\ Nesting[2] = "receiver.bucket"
  /\ Nesting[3] = "queueMutex" /\ Nesting[4] = "schedulerMutex"
  /\ Nesting[5] = "receivedMessages.mutex" /\ Nesting[6] = "sender.allocator"
  /\ Nesting[7] = "receiver.allocator" /\ Nesting[8] = "policy.mutex"
  /\ Nesting[9] = "tx.mutex" /\ Nesting[10] = "tx.stats.mutex"
  /\ Nesting[11] = "packetLock" /\ Nesting[12] = "rx.mutex"
BY DEF Nesting

(* What lies inside a lock, by its position.                                 *)
LEMMA InsideOf ==
  ASSUME NEW n \in 1..12, NEW L,
         \A l \in L : \E i \in (n + 1)..12 : Nesting[i] = l
  PROVE  Nesting[n] \in LockName /\ \A l \in L : Outside(Nesting[n], l)
<1>1. Nesting[n] \in LockName
  BY DEF LockName
<1>2. ASSUME NEW l \in L PROVE Outside(Nesting[n], l)
  <2>1. PICK i \in (n + 1)..12 : Nesting[i] = l
    BY <1>2
  <2> QED BY <2>1, OutsideRank
<1> QED BY <1>1, <1>2

(* The locks from position n of the order on.                                *)
From(n) == {Nesting[i] : i \in n..12}

(* A path whose locks all come from position n on.                           *)
Level(p, n) == \E L \in SUBSET From(n) : Nested(p, L)

(* A lock at position n around locks that come after it.                     *)
LEMMA LevelWith ==
  ASSUME NEW n \in 1..12, NEW m \in 1..13, n < m, NEW p, Level(p, m)
  PROVE  Level(With(Nesting[n], p), n)
<1>1. PICK L \in SUBSET From(m) : Nested(p, L)
  BY DEF Level
<1>2. \A l \in L : \E i \in (n + 1)..12 : Nesting[i] = l
  BY DEF From
<1>3. Nesting[n] \in LockName /\ \A l \in L : Outside(Nesting[n], l)
  BY <1>2, InsideOf
<1>4. Nested(With(Nesting[n], p), L \cup {Nesting[n]})
  BY <1>1, <1>3, WithNested
<1>5. L \cup {Nesting[n]} \in SUBSET From(n)
  BY DEF From
<1> QED BY <1>4, <1>5 DEF Level

(* Two paths, one after the other.                                           *)
LEMMA LevelSequence ==
  ASSUME NEW n \in 1..13, NEW m \in 1..13, NEW k \in 1..13, k <= n, k <= m,
         NEW p, NEW q, Level(p, n), Level(q, m)
  PROVE  Level(p \o q, k)
<1>1. PICK L \in SUBSET From(n) : Nested(p, L)
  BY DEF Level
<1>2. PICK M \in SUBSET From(m) : Nested(q, M)
  BY DEF Level
<1>3. L \cup M \in SUBSET From(k)
  BY DEF From
<1> QED BY <1>1, <1>2, <1>3, SequenceNested DEF Level

(* No locks.                                                                 *)
LEMMA LevelEmpty == Level(<<>>, 13)
BY EmptyNested DEF Level

(* The driver's paths and the policy's.                                      *)
LEMMA DriverPaths ==
  /\ Level(allocPacketPath, 11) /\ Level(releasePacketsPath, 11)
  /\ Level(sendPacketPath, 9) /\ Level(getQueuedBytesPath, 10)
  /\ Level(controlPacketPath, 9) /\ Level(policyPath, 8)
<1>1. Level(allocPacketPath, 11) /\ Level(releasePacketsPath, 11)
  <2>1. Level(With(Nesting[11], <<>>), 11)
    BY LevelEmpty, LevelWith
  <2> QED BY <2>1, LockRanks DEF allocPacketPath, releasePacketsPath, Holding
<1>2. Level(getQueuedBytesPath, 10)
  <2>1. Level(With(Nesting[10], <<>>), 10)
    BY LevelEmpty, LevelWith
  <2> QED BY <2>1, LockRanks DEF getQueuedBytesPath, Holding
<1>3. Level(sendPacketPath, 9)
  <2>1. Level(getQueuedBytesPath \o getQueuedBytesPath, 10)
    BY <1>2, LevelSequence
  <2>2. Level(With(Nesting[9], getQueuedBytesPath \o getQueuedBytesPath), 9)
    BY <2>1, LevelWith
  <2>3. With(Nesting[9], getQueuedBytesPath \o getQueuedBytesPath) = sendPacketPath
    BY LockRanks DEF sendPacketPath, getQueuedBytesPath
  <2> QED BY <2>2, <2>3
<1>4. Level(controlPacketPath, 9)
  <2>1. Level(allocPacketPath \o sendPacketPath, 9)
    BY <1>1, <1>3, LevelSequence
  <2>2. Level((allocPacketPath \o sendPacketPath) \o releasePacketsPath, 9)
    BY <1>1, <2>1, LevelSequence
  <2> QED BY <2>2 DEF controlPacketPath
<1>5. Level(policyPath, 8)
  <2>1. Level(With(Nesting[8], <<>>), 8)
    BY LevelEmpty, LevelWith
  <2> QED BY <2>1, LockRanks DEF policyPath, Holding
<1> QED BY <1>1, <1>2, <1>3, <1>4, <1>5

(* A lock of position n alone.                                               *)
LEMMA LevelHolding ==
  ASSUME NEW n \in 1..12
  PROVE  Level(Holding(Nesting[n]), n)
BY LevelEmpty, LevelWith DEF Holding

(* Every call of Sender nests its locks.                                     *)
LEMMA SenderPathsNested ==
  /\ \A c \in DOMAIN SenderPaths : Level(SenderPaths[c], 1)
  /\ Level(trySendPath, 1)
<1> DEFINE bucket(body) == With("sender.bucket", body)
           queue(body) == With("queueMutex", body)
           P == <<Holding("sender.allocator") \o allocPacketPath,
                  bucket(releasePacketsPath),
                  bucket(queue(controlPacketPath \o releasePacketsPath)),
                  bucket(queue(<<>>) \o releasePacketsPath),
                  bucket(queue(<<>>) \o policyPath \o sendPacketPath
                                     \o queue(<<>>) \o releasePacketsPath),
                  policyPath \o bucket(sendPacketPath \o queue(<<>>)),
                  bucket(queue(<<>>)),
                  bucket(With("sender.allocator", releasePacketsPath)),
                  bucket(queue(<<>>) \o controlPacketPath)>>
<1>1. \A p : (\E m \in 2..13 : Level(p, m)) => Level(bucket(p), 1)
  BY LevelWith, LockRanks
<1>2. \A p : (\E m \in 4..13 : Level(p, m)) => Level(queue(p), 3)
  BY LevelWith, LockRanks
<1>3. Level(queue(<<>>), 3)
  BY <1>2, LevelEmpty
<1>4. Level(Holding("sender.allocator"), 6)
  BY LevelHolding, LockRanks
<1>5. Level(With("sender.allocator", releasePacketsPath), 6)
  BY DriverPaths, LevelWith, LockRanks
<1> HIDE DEF bucket, queue
<1>11. Level(P[1], 1)
  BY <1>4, DriverPaths, LevelSequence
<1>12. Level(P[2], 1)
  BY <1>1, DriverPaths
<1>13. Level(P[3], 1)
  <2>1. Level(controlPacketPath \o releasePacketsPath, 9)
    BY DriverPaths, LevelSequence
  <2>2. Level(queue(controlPacketPath \o releasePacketsPath), 3)
    BY <1>2, <2>1
  <2> QED BY <1>1, <2>2
<1>14. Level(P[4], 1)
  <2>1. Level(queue(<<>>) \o releasePacketsPath, 3)
    BY <1>3, DriverPaths, LevelSequence
  <2> QED BY <1>1, <2>1
<1>15. Level(P[5], 1)
  <2>1. Level(queue(<<>>) \o policyPath, 3)
    BY <1>3, DriverPaths, LevelSequence
  <2>2. Level(queue(<<>>) \o policyPath \o sendPacketPath, 3)
    BY <2>1, DriverPaths, LevelSequence
  <2>3. Level(queue(<<>>) \o policyPath \o sendPacketPath \o queue(<<>>), 3)
    BY <1>3, <2>2, LevelSequence
  <2>4. Level(queue(<<>>) \o policyPath \o sendPacketPath \o queue(<<>>)
                \o releasePacketsPath, 3)
    BY <2>3, DriverPaths, LevelSequence
  <2> QED BY <1>1, <2>4
<1>16. Level(P[6], 1)
  <2>1. Level(sendPacketPath \o queue(<<>>), 3)
    BY <1>3, DriverPaths, LevelSequence
  <2>2. Level(bucket(sendPacketPath \o queue(<<>>)), 1)
    BY <1>1, <2>1
  <2> QED BY <2>2, DriverPaths, LevelSequence
<1>17. Level(P[7], 1)
  BY <1>1, <1>3
<1>18. Level(P[8], 1)
  BY <1>1, <1>5
<1>19. Level(P[9], 1)
  <2>1. Level(queue(<<>>) \o controlPacketPath, 3)
    BY <1>3, DriverPaths, LevelSequence
  <2> QED BY <1>1, <2>1
<1>20. /\ DOMAIN SenderPaths = {"allocMessage", "handleDonePacket", "handleResendPacket",
             "handleGrantPacket", "handleUnknownPacket", "sendMessage", "cancelMessage",
             "dropMessage", "checkPingTimeouts"}
       /\ SenderPaths["allocMessage"] = P[1] /\ SenderPaths["handleDonePacket"] = P[2]
       /\ SenderPaths["handleResendPacket"] = P[3] /\ SenderPaths["handleGrantPacket"] = P[4]
       /\ SenderPaths["handleUnknownPacket"] = P[5] /\ SenderPaths["sendMessage"] = P[6]
       /\ SenderPaths["cancelMessage"] = P[7] /\ SenderPaths["dropMessage"] = P[8]
       /\ SenderPaths["checkPingTimeouts"] = P[9]
  BY DEF SenderPaths, bucket, queue
<1>21. \A c \in DOMAIN SenderPaths : Level(SenderPaths[c], 1)
  <2> HIDE DEF P
  <2> QED BY <1>11, <1>12, <1>13, <1>14, <1>15, <1>16, <1>17, <1>18, <1>19, <1>20
<1>22. Level(trySendPath, 1)
  <2>1. Level(getQueuedBytesPath \o sendPacketPath, 9)
    BY DriverPaths, LevelSequence
  <2>2. Level(queue(getQueuedBytesPath \o sendPacketPath), 3)
    BY <1>2, <2>1
  <2>3. Level(bucket(With("sender.allocator", releasePacketsPath)), 1)
    BY <1>1, <1>5
  <2>4. Level(queue(getQueuedBytesPath \o sendPacketPath)
                \o bucket(With("sender.allocator", releasePacketsPath)), 1)
    BY <2>2, <2>3, LevelSequence
  <2> QED BY <2>4 DEF trySendPath, queue, bucket
<1> QED BY <1>21, <1>22

(* Every call of Receiver nests its locks.                                   *)
LEMMA ReceiverPathsNested == \A c \in DOMAIN ReceiverPaths : Level(ReceiverPaths[c], 1)
<1> DEFINE bucket(body) == With("receiver.bucket", body)
           scheduler(body) == With("schedulerMutex", body)
           P == <<bucket(Holding("receiver.allocator") \o policyPath
                           \o scheduler(<<>>) \o scheduler(<<>>)
                           \o Holding("receivedMessages.mutex") \o releasePacketsPath),
                  bucket(releasePacketsPath),
                  bucket(scheduler(<<>>) \o controlPacketPath \o releasePacketsPath),
                  Holding("receivedMessages.mutex"),
                  bucket(controlPacketPath),
                  bucket(scheduler(<<>>) \o With("receiver.allocator", releasePacketsPath)),
                  bucket(scheduler(<<>>) \o scheduler(controlPacketPath)),
                  scheduler(policyPath \o controlPacketPath)>>
<1>1. \A p : (\E m \in 3..13 : Level(p, m)) => Level(bucket(p), 2)
  BY LevelWith, LockRanks
<1>2. \A p : (\E m \in 5..13 : Level(p, m)) => Level(scheduler(p), 4)
  BY LevelWith, LockRanks
<1>3. Level(scheduler(<<>>), 4)
  BY <1>2, LevelEmpty
<1>4. Level(Holding("receiver.allocator"), 7)
  BY LevelHolding, LockRanks
<1>5. Level(With("receiver.allocator", releasePacketsPath), 7)
  BY DriverPaths, LevelWith, LockRanks
<1>6. Level(Holding("receivedMessages.mutex"), 5)
  BY LevelHolding, LockRanks
<1>7. \A p, m : m \in 1..13 /\ Level(p, m) => Level(p, 1)
  BY DEF Level, From
<1> HIDE DEF bucket, scheduler
<1>11. Level(P[1], 1)
  <2>1. Level(Holding("receiver.allocator") \o policyPath, 7)
    BY <1>4, DriverPaths, LevelSequence
  <2>2. Level(Holding("receiver.allocator") \o policyPath \o scheduler(<<>>), 4)
    BY <1>3, <2>1, LevelSequence
  <2>3. Level(Holding("receiver.allocator") \o policyPath \o scheduler(<<>>)
                \o scheduler(<<>>), 4)
    BY <1>3, <2>2, LevelSequence
  <2>4. Level(Holding("receiver.allocator") \o policyPath \o scheduler(<<>>)
                \o scheduler(<<>>) \o Holding("receivedMessages.mutex"), 4)
    BY <1>6, <2>3, LevelSequence
  <2>5. Level(Holding("receiver.allocator") \o policyPath \o scheduler(<<>>)
                \o scheduler(<<>>) \o Holding("receivedMessages.mutex")
                \o releasePacketsPath, 4)
    BY <2>4, DriverPaths, LevelSequence
  <2>6. Level(P[1], 2)
    BY <1>1, <2>5
  <2> QED BY <1>7, <2>6
<1>12. Level(P[2], 1)
  <2>1. Level(P[2], 2)
    BY <1>1, DriverPaths
  <2> QED BY <1>7, <2>1
<1>13. Level(P[3], 1)
  <2>1. Level(scheduler(<<>>) \o controlPacketPath, 4)
    BY <1>3, DriverPaths, LevelSequence
  <2>2. Level(scheduler(<<>>) \o controlPacketPath \o releasePacketsPath, 4)
    BY <2>1, DriverPaths, LevelSequence
  <2>3. Level(P[3], 2)
    BY <1>1, <2>2
  <2> QED BY <1>7, <2>3
<1>14. Level(P[4], 1)
  BY <1>6, <1>7
<1>15. Level(P[5], 1)
  <2>1. Level(P[5], 2)
    BY <1>1, DriverPaths
  <2> QED BY <1>7, <2>1
<1>16. Level(P[6], 1)
  <2>1. Level(scheduler(<<>>) \o With("receiver.allocator", releasePacketsPath), 4)
    BY <1>3, <1>5, LevelSequence
  <2>2. Level(P[6], 2)
    BY <1>1, <2>1
  <2> QED BY <1>7, <2>2
<1>17. Level(P[7], 1)
  <2>1. Level(scheduler(controlPacketPath), 4)
    BY <1>2, DriverPaths
  <2>2. Level(scheduler(<<>>) \o scheduler(controlPacketPath), 4)
    BY <1>3, <2>1, LevelSequence
  <2>3. Level(P[7], 2)
    BY <1>1, <2>2
  <2> QED BY <1>7, <2>3
<1>18. Level(P[8], 1)
  <2>1. Level(policyPath \o controlPacketPath, 8)
    BY DriverPaths, LevelSequence
  <2>2. Level(P[8], 4)
    BY <1>2, <2>1
  <2> QED BY <1>7, <2>2
<1>20. /\ DOMAIN ReceiverPaths = {"handleDataPacket", "handleBusyPacket", "handlePingPacket",
             "receiveMessage", "acknowledge", "dropMessage", "checkResendTimeouts",
             "trySendGrants"}
       /\ ReceiverPaths["handleDataPacket"] = P[1] /\ ReceiverPaths["handleBusyPacket"] = P[2]
       /\ ReceiverPaths["handlePingPacket"] = P[3] /\ ReceiverPaths["receiveMessage"] = P[4]
       /\ ReceiverPaths["acknowledge"] = P[5] /\ ReceiverPaths["dropMessage"] = P[6]
       /\ ReceiverPaths["checkResendTimeouts"] = P[7] /\ ReceiverPaths["trySendGrants"] = P[8]
  BY DEF ReceiverPaths, bucket, scheduler
<1>21. \A c \in DOMAIN ReceiverPaths : Level(ReceiverPaths[c], 1)
  <2> HIDE DEF P
  <2> QED BY <1>11, <1>12, <1>13, <1>14, <1>15, <1>16, <1>17, <1>18, <1>20
<1> QED BY <1>21

(* So does every call that poll makes to the driver.                         *)
LEMMA DriverCallsNested == \A c \in DOMAIN DriverCalls : Level(DriverCalls[c], 1)
<1>1. Level(Holding("rx.mutex"), 12) /\ Level(Holding("packetLock"), 11)
      /\ Level(Holding("tx.stats.mutex"), 10)
  BY LevelHolding, LockRanks
<1>2. Level(Holding("rx.mutex") \o Holding("packetLock"), 1)
  BY <1>1, LevelSequence
<1>3. Level(With("tx.mutex", Holding("tx.stats.mutex")), 9)
  BY <1>1, LevelWith, LockRanks
<1>4. Level(With("tx.mutex", Holding("tx.stats.mutex")), 1)
  BY <1>3 DEF Level, From
<1>5. /\ DOMAIN DriverCalls = {"receivePackets", "uncork"}
      /\ DriverCalls["receivePackets"] = Holding("rx.mutex") \o Holding("packetLock")
      /\ DriverCalls["uncork"] = With("tx.mutex", Holding("tx.stats.mutex"))
  BY DEF DriverCalls
<1> QED BY <1>2, <1>4, <1>5

(* Every call nests its locks, and uses no other ones.                       *)
LEMMA PathsNested ==
  \A p \in Paths :
    /\ Nested(p, LockName)
    /\ \A i \in 1..Len(p) : p[i].of \in Locks
<1>1. ASSUME NEW p, Level(p, 1) PROVE Nested(p, LockName)
  <2>1. PICK L \in SUBSET From(1) : Nested(p, L)
    BY <1>1 DEF Level
  <2>2. L \subseteq LockName
    BY DEF From, LockName
  <2> QED BY <2>1, <2>2 DEF Nested
<1>2. \A p \in Paths : Level(p, 1)
  BY SenderPathsNested, ReceiverPathsNested, DriverCallsNested DEF Paths
<1>3. ASSUME NEW p \in Paths, NEW i \in 1..Len(p) PROVE p[i].of \in Locks
  <2>1. {p[j] : j \in 1..Len(p)} \in {{r[j] : j \in 1..Len(r)} : r \in Paths}
    OBVIOUS
  <2>2. p[i] \in UNION {{r[j] : j \in 1..Len(r)} : r \in Paths}
    BY <2>1
  <2> QED BY <2>2 DEF Locks
<1> QED BY <1>1, <1>2, <1>3

-----------------------------------------------------------------------------
LocksTypeOK ==
  /\ flag \in [Locks -> BOOLEAN]
  /\ path \in [LockThread -> Paths \cup {<<>>}]
  /\ step \in [LockThread -> Nat]
  /\ \A t \in LockThread : step[t] <= Len(path[t])

(* What a path, the empty one included, tells of a thread.                   *)
LEMMA PathFacts ==
  ASSUME NEW p \in Paths \cup {<<>>}
  PROVE  /\ p \in Seq(LockOp) /\ TakenInOrder(p) /\ GivenBack(p) /\ Len(p) \in Nat
         /\ \A i \in 1..Len(p) : p[i].of \in Locks /\ p[i].of \in LockName
                                   /\ p[i].op \in {"lock", "unlock"}
<1>1. CASE p \in Paths
  <2>1. Nested(p, LockName) /\ \A i \in 1..Len(p) : p[i].of \in Locks
    BY <1>1, PathsNested
  <2>2. p \in Seq(LockOp)
    BY <2>1 DEF Nested
  <2>3. \A i \in 1..Len(p) : p[i].op \in {"lock", "unlock"} /\ p[i].of \in LockName
    <3>1. \A i \in 1..Len(p) : p[i] \in LockOp
      BY <2>2
    <3> QED BY <3>1 DEF LockOp
  <2>4. TakenInOrder(p) /\ GivenBack(p) /\ Len(p) \in Nat
    BY <2>1, <2>2 DEF Nested
  <2> QED BY <2>1, <2>2, <2>3, <2>4
<1>2. CASE p = <<>>
  <2>1. Nested(p, {}) /\ Len(p) = 0
    BY <1>2, EmptyNested
  <2> QED BY <2>1 DEF Nested
<1> QED BY <1>1, <1>2

(* The locks a thread holds are those of its path so far.                    *)
LEMMA HeldIsPath ==
  ASSUME NEW p \in Paths \cup {<<>>}, NEW k \in Nat, k <= Len(p)
  PROVE  HeldAfter(p, k) =
           {l \in Locks : \E i \in 1..k :
              /\ p[i] = [op |-> "lock", of |-> l]
              /\ \A j \in (i + 1)..k : p[j] # [op |-> "unlock", of |-> l]}
<1>1. Len(p) \in Nat /\ \A i \in 1..Len(p) : p[i].of \in Locks /\ p[i].of \in LockName
  BY PathFacts
<1>2. \A i \in 1..k : i \in 1..Len(p)
  BY <1>1
<1>3. ASSUME NEW l, NEW i \in 1..k, p[i] = [op |-> "lock", of |-> l]
      PROVE  l \in Locks /\ l \in LockName
  BY <1>1, <1>2, <1>3
<1> QED BY <1>3 DEF HeldAfter

(* A call starts with no lock held, as the one before it ended.              *)
LEMMA NoneHeld ==
  ASSUME NEW p \in Paths \cup {<<>>}
  PROVE  HeldAfter(p, 0) = {} /\ HeldAfter(p, Len(p)) = {}
BY PathFacts DEF HeldAfter, GivenBack

(* What the locks held are in a state of the right type.                     *)
LEMMA HeldNow ==
  ASSUME LocksTypeOK, NEW t \in LockThread
  PROVE  /\ Held(t) = HeldAfter(path[t], step[t])
         /\ path[t] \in Paths \cup {<<>>} /\ step[t] \in Nat /\ Len(path[t]) \in Nat
         /\ ~InCall(t) => Held(t) = {}
         /\ InCall(t) => /\ NextStep(t).of \in Locks /\ NextStep(t).of \in LockName
                         /\ NextStep(t).op \in {"lock", "unlock"}
                         /\ NextStep(t).op = "unlock" => NextStep(t).of \in Held(t)
                         /\ NextStep(t).op = "lock" =>
                              \A l \in Held(t) : Outside(l, NextStep(t).of)
<1> DEFINE p == path[t]
           k == step[t]
<1>1. p \in Paths \cup {<<>>} /\ k \in Nat /\ k <= Len(p)
  BY DEF LocksTypeOK
<1>2. Len(p) \in Nat
  BY <1>1, PathFacts
<1>3. Held(t) = HeldAfter(p, k)
  BY <1>1, HeldIsPath DEF Held
<1>4. ASSUME ~InCall(t) PROVE Held(t) = {}
  <2>1. k = Len(p)
    BY <1>1, <1>2, <1>4 DEF InCall
  <2> QED BY <1>1, <1>3, <2>1, NoneHeld
<1>5. ASSUME InCall(t)
      PROVE  /\ NextStep(t).of \in Locks /\ NextStep(t).of \in LockName
             /\ NextStep(t).op \in {"lock", "unlock"}
             /\ NextStep(t).op = "unlock" => NextStep(t).of \in Held(t)
             /\ NextStep(t).op = "lock" => \A l \in Held(t) : Outside(l, NextStep(t).of)
  <2>1. k + 1 \in 1..Len(p) /\ (k + 1) - 1 = k /\ NextStep(t) = p[k + 1]
    BY <1>1, <1>2, <1>5 DEF InCall, NextStep
  <2>2. /\ TakenInOrder(p) /\ GivenBack(p)
        /\ p[k + 1].of \in Locks /\ p[k + 1].of \in LockName
        /\ p[k + 1].op \in {"lock", "unlock"}
    BY <1>1, <2>1, PathFacts
  <2>3. p[k + 1].op = "lock" => \A l \in HeldAfter(p, k) : Outside(l, p[k + 1].of)
    BY <2>1, <2>2 DEF TakenInOrder
  <2>4. p[k + 1].op = "unlock" => p[k + 1].of \in HeldAfter(p, k)
    BY <2>1, <2>2 DEF GivenBack
  <2> QED BY <1>3, <2>1, <2>2, <2>3, <2>4
<1> QED BY <1>1, <1>2, <1>3, <1>4, <1>5

(* A step of thread t leaves the locks of the others alone.                  *)
LEMMA OthersHeld ==
  ASSUME LocksTypeOK, NEW t \in LockThread, NEW u \in LockThread, u # t,
         path'[u] = path[u], step'[u] = step[u]
  PROVE  Held(u)' = Held(u)
BY DEF Held

(* What thread t holds after its step.                                       *)
LEMMA HeldLater ==
  ASSUME NEW t \in LockThread, path[t] \in Paths \cup {<<>>}, step[t] \in Nat,
         step[t] + 1 <= Len(path[t]), path'[t] = path[t], step'[t] = step[t] + 1
  PROVE  Held(t)' = HeldAfter(path[t], step[t] + 1)
<1> DEFINE p == path[t]
           k == step[t] + 1
<1>1. Held(t)' = {l \in Locks : \E i \in 1..k :
                    /\ p[i] = [op |-> "lock", of |-> l]
                    /\ \A j \in (i + 1)..k : p[j] # [op |-> "unlock", of |-> l]}
  BY DEF Held
<1>2. p \in Paths \cup {<<>>} /\ k \in Nat /\ k <= Len(p)
  OBVIOUS
<1> HIDE DEF p, k
<1>3. HeldAfter(p, k) = Held(t)'
  BY <1>1, <1>2, HeldIsPath
<1> QED BY <1>3 DEF p, k

LocksInv == LocksTypeOK /\ MutualExclusion

(* Taking a lock whose flag is clear.                                        *)
LEMMA LockStepInv ==
  ASSUME LocksInv, NEW t \in LockThread, lockStep(t)
  PROVE  LocksInv'
<1> DEFINE l == NextStep(t).of
<1>0. /\ InCall(t) /\ NextStep(t).op = "lock" /\ ~flag[l]
      /\ flag' = [flag EXCEPT ![l] = TRUE]
      /\ step' = [step EXCEPT ![t] = @ + 1] /\ path' = path
  BY DEF lockStep, testAndSet
<1>1. LocksTypeOK /\ MutualExclusion
  BY DEF LocksInv
<1>2. /\ path[t] \in Paths \cup {<<>>} /\ step[t] \in Nat /\ Len(path[t]) \in Nat
      /\ l \in Locks /\ Held(t) = HeldAfter(path[t], step[t])
  BY <1>0, <1>1, HeldNow
<1>3. step[t] + 1 <= Len(path[t]) /\ step[t] \in 0..(Len(path[t]) - 1)
  BY <1>0, <1>2 DEF InCall
<1>4. LocksTypeOK'
  <2>1. flag' \in [Locks -> BOOLEAN]
    BY <1>0, <1>1 DEF LocksTypeOK
  <2>2. step' \in [LockThread -> Nat] /\ step'[t] = step[t] + 1
        /\ \A u \in LockThread : u # t => step'[u] = step[u]
    BY <1>0, <1>1, <1>2 DEF LocksTypeOK
  <2> QED BY <1>0, <1>1, <1>3, <2>1, <2>2 DEF LocksTypeOK
<1>5. Held(t)' = Held(t) \cup {l}
  <2>1. Held(t)' = HeldAfter(path[t], step[t] + 1)
    <3>1. path'[t] = path[t] /\ step'[t] = step[t] + 1
      BY <1>0, <1>1 DEF LocksTypeOK
    <3> QED BY <1>2, <1>3, <3>1, HeldLater
  <2>2. path[t] \in Seq(LockOp)
    BY <1>2, PathFacts
  <2>3. HeldAfter(path[t], step[t] + 1) = HeldAfter(path[t], step[t]) \cup {l}
    BY <1>0, <1>3, <2>2, HeldStep DEF NextStep
  <2> QED BY <1>2, <2>1, <2>3
<1>6. \A u \in LockThread : u # t => Held(u)' = Held(u)
  <2>1. ASSUME NEW u \in LockThread, u # t PROVE path'[u] = path[u] /\ step'[u] = step[u]
    BY <1>0, <1>1, <2>1 DEF LocksTypeOK
  <2> QED BY <1>1, <2>1, OthersHeld
<1>7. \A u \in LockThread : l \notin Held(u)
  BY <1>0, <1>1, <1>2 DEF MutualExclusion
<1>8. MutualExclusion'
  <2>1. \A u, v \in LockThread : u # v => Held(u)' \cap Held(v)' = {}
    BY <1>1, <1>5, <1>6, <1>7 DEF MutualExclusion
  <2>2. ASSUME NEW k \in Locks PROVE flag'[k] <=> \E u \in LockThread : k \in Held(u)'
    <3>1. CASE k = l
      BY <1>0, <1>1, <1>2, <1>5, <3>1 DEF LocksTypeOK
    <3>2. CASE k # l
      <4>1. flag'[k] = flag[k]
        BY <1>0, <1>1, <3>2 DEF LocksTypeOK
      <4>2. \A u \in LockThread : k \in Held(u)' <=> k \in Held(u)
        BY <1>5, <1>6, <3>2
      <4> QED BY <1>1, <4>1, <4>2 DEF MutualExclusion
    <3> QED BY <3>1, <3>2
  <2> QED BY <2>1, <2>2 DEF MutualExclusion
<1> QED BY <1>4, <1>8 DEF LocksInv

(* Giving back a lock, which the thread holds.                               *)
LEMMA UnlockStepInv ==
  ASSUME LocksInv, NEW t \in LockThread, unlockStep(t)
  PROVE  LocksInv'
<1> DEFINE l == NextStep(t).of
<1>0. /\ InCall(t) /\ NextStep(t).op = "unlock"
      /\ flag' = [flag EXCEPT ![l] = FALSE]
      /\ step' = [step EXCEPT ![t] = @ + 1] /\ path' = path
  BY DEF unlockStep
<1>1. LocksTypeOK /\ MutualExclusion
  BY DEF LocksInv
<1>2. /\ path[t] \in Paths \cup {<<>>} /\ step[t] \in Nat /\ Len(path[t]) \in Nat
      /\ l \in Locks /\ Held(t) = HeldAfter(path[t], step[t]) /\ l \in Held(t)
  BY <1>0, <1>1, HeldNow
<1>3. step[t] + 1 <= Len(path[t]) /\ step[t] \in 0..(Len(path[t]) - 1)
  BY <1>0, <1>2 DEF InCall
<1>4. LocksTypeOK'
  <2>1. flag' \in [Locks -> BOOLEAN]
    BY <1>0, <1>1 DEF LocksTypeOK
  <2>2. step' \in [LockThread -> Nat] /\ step'[t] = step[t] + 1
        /\ \A u \in LockThread : u # t => step'[u] = step[u]
    BY <1>0, <1>1, <1>2 DEF LocksTypeOK
  <2> QED BY <1>0, <1>1, <1>3, <2>1, <2>2 DEF LocksTypeOK
<1>5. Held(t)' = Held(t) \ {l}
  <2>1. Held(t)' = HeldAfter(path[t], step[t] + 1)
    <3>1. path'[t] = path[t] /\ step'[t] = step[t] + 1
      BY <1>0, <1>1 DEF LocksTypeOK
    <3> QED BY <1>2, <1>3, <3>1, HeldLater
  <2>2. path[t] \in Seq(LockOp)
    BY <1>2, PathFacts
  <2>3. HeldAfter(path[t], step[t] + 1) = HeldAfter(path[t], step[t]) \ {l}
    BY <1>0, <1>3, <2>2, HeldStep DEF NextStep
  <2> QED BY <1>2, <2>1, <2>3
<1>6. \A u \in LockThread : u # t => Held(u)' = Held(u)
  <2>1. ASSUME NEW u \in LockThread, u # t PROVE path'[u] = path[u] /\ step'[u] = step[u]
    BY <1>0, <1>1, <2>1 DEF LocksTypeOK
  <2> QED BY <1>1, <2>1, OthersHeld
<1>7. \A u \in LockThread : u # t => l \notin Held(u)
  BY <1>1, <1>2 DEF MutualExclusion
<1>8. MutualExclusion'
  <2>1. \A u, v \in LockThread : u # v => Held(u)' \cap Held(v)' = {}
    BY <1>1, <1>5, <1>6 DEF MutualExclusion
  <2>2. ASSUME NEW k \in Locks PROVE flag'[k] <=> \E u \in LockThread : k \in Held(u)'
    <3>1. CASE k = l
      <4>1. ~flag'[k]
        BY <1>0, <1>1, <3>1 DEF LocksTypeOK
      <4>2. \A u \in LockThread : k \notin Held(u)'
        BY <1>5, <1>6, <1>7, <3>1
      <4> QED BY <4>1, <4>2
    <3>2. CASE k # l
      <4>1. flag'[k] = flag[k]
        BY <1>0, <1>1, <3>2 DEF LocksTypeOK
      <4>2. \A u \in LockThread : k \in Held(u)' <=> k \in Held(u)
        BY <1>5, <1>6, <3>2
      <4> QED BY <1>1, <4>1, <4>2 DEF MutualExclusion
    <3> QED BY <3>1, <3>2
  <2> QED BY <2>1, <2>2 DEF MutualExclusion
<1> QED BY <1>4, <1>8 DEF LocksInv

(* A thread that starts a call holds nothing, before and after.              *)
LEMMA StartCallInv ==
  ASSUME LocksInv, NEW t \in LockThread, NEW p \in Paths, startCall(t, p)
  PROVE  LocksInv'
<1>0. /\ ~InCall(t) /\ flag' = flag
      /\ path' = [path EXCEPT ![t] = p] /\ step' = [step EXCEPT ![t] = 0]
  BY DEF startCall
<1>1. LocksTypeOK /\ MutualExclusion
  BY DEF LocksInv
<1>2. /\ path'[t] = p /\ step'[t] = 0
      /\ \A u \in LockThread : u # t => path'[u] = path[u] /\ step'[u] = step[u]
  BY <1>0, <1>1 DEF LocksTypeOK
<1>3. LocksTypeOK'
  <2>1. Len(p) \in Nat
    BY PathFacts
  <2>2. path' \in [LockThread -> Paths \cup {<<>>}] /\ step' \in [LockThread -> Nat]
    BY <1>0, <1>1 DEF LocksTypeOK
  <2>3. \A u \in LockThread : step'[u] <= Len(path'[u])
    BY <1>1, <1>2, <2>1 DEF LocksTypeOK
  <2> QED BY <1>0, <1>1, <2>2, <2>3 DEF LocksTypeOK
<1>4. Held(t) = {} /\ Held(t)' = {}
  <2>1. Held(t) = {}
    BY <1>0, <1>1, HeldNow
  <2>2. Held(t)' = {}
    BY <1>2 DEF Held
  <2> QED BY <2>1, <2>2
<1>5. \A u \in LockThread : Held(u)' = Held(u)
  BY <1>1, <1>2, <1>4, OthersHeld
<1>6. MutualExclusion'
  BY <1>0, <1>1, <1>5 DEF MutualExclusion
<1> QED BY <1>3, <1>6 DEF LocksInv

(* Of the threads that spin, one on the innermost lock waits for a thread    *)
(* that can move on.                                                         *)
LEMMA SomeThreadMoves ==
  ASSUME LocksInv, \E t \in LockThread : InCall(t)
  PROVE  \E t \in LockThread : InCall(t) /\ (NextStep(t).op = "lock" => ~flag[NextStep(t).of])
<1> DEFINE Spins(t) == InCall(t) /\ NextStep(t).op = "lock" /\ flag[NextStep(t).of]
<1>0. LocksTypeOK /\ MutualExclusion
  BY DEF LocksInv
<1> SUFFICES ASSUME \A t \in LockThread : InCall(t) => Spins(t)
             PROVE  FALSE
  OBVIOUS
<1> DEFINE R == {n \in 0..11 : \E t \in LockThread : Spins(t) /\ Nesting[12 - n] = NextStep(t).of}
<1>1. \A t \in LockThread : Spins(t) =>
        \E n \in R : Nesting[12 - n] = NextStep(t).of
  <2> SUFFICES ASSUME NEW t \in LockThread, Spins(t)
               PROVE  \E n \in R : Nesting[12 - n] = NextStep(t).of
    OBVIOUS
  <2>1. NextStep(t).of \in LockName
    BY <1>0, HeldNow
  <2>2. PICK i \in 1..12 : Nesting[i] = NextStep(t).of
    BY <2>1 DEF LockName
  <2>3. 12 - i \in 0..11 /\ 12 - (12 - i) = i
    OBVIOUS
  <2> QED BY <2>2, <2>3
<1>2. R # {} /\ R \in SUBSET Nat
  <2>1. PICK t \in LockThread : InCall(t)
    OBVIOUS
  <2>2. \E n \in R : Nesting[12 - n] = NextStep(t).of
    BY <1>1, <2>1
  <2>3. R \in SUBSET Nat
    OBVIOUS
  <2> HIDE DEF R
  <2> QED BY <2>2, <2>3
<1>3. PICK n \in R : \A m \in R : n <= m
  BY <1>2, LeastNat
<1>4. PICK t \in LockThread : Spins(t) /\ Nesting[12 - n] = NextStep(t).of
  OBVIOUS
<1> DEFINE l == NextStep(t).of
<1>5. l \in Locks
  BY <1>0, <1>4, HeldNow
<1>6. PICK u \in LockThread : l \in Held(u)
  BY <1>0, <1>4, <1>5 DEF MutualExclusion
<1>7. Spins(u)
  <2>1. InCall(u)
    BY <1>0, <1>6, HeldNow
  <2> QED BY <2>1
<1>8. Outside(l, NextStep(u).of)
  BY <1>0, <1>6, <1>7, HeldNow
<1>9. PICK m \in R : Nesting[12 - m] = NextStep(u).of
  BY <1>1, <1>7
<1>10. 12 - n \in 1..12 /\ 12 - m \in 1..12 /\ n \in Nat /\ m \in Nat
  OBVIOUS
<1>11. 12 - n < 12 - m
  BY <1>4, <1>8, <1>9, <1>10, OutsideRank
<1>12. n <= m
  BY <1>3
<1> QED BY <1>10, <1>11, <1>12

(* For any number of threads, the locks exclude, a thread takes them only in *)
(* the order of Nesting, and whenever threads are inside calls of Sender and *)
(* Receiver one of them can take its next step: they never deadlock.         *)
THEOREM LocksNeverDeadlock == LocksInit /\ [][LocksNext]_lockVars => []NoLockCycle
<1>1. LocksInit => LocksInv
  <2> SUFFICES ASSUME LocksInit PROVE LocksInv
    OBVIOUS
  <2>1. LocksTypeOK
    BY DEF LocksInit, LocksTypeOK
  <2>2. ASSUME NEW t \in LockThread PROVE Held(t) = {}
    <3>1. step[t] = 0
      BY DEF LocksInit
    <3> QED BY <3>1 DEF Held
  <2>3. MutualExclusion
    BY <2>2 DEF LocksInit, MutualExclusion
  <2> QED BY <2>1, <2>3 DEF LocksInv
<1>2. LocksInv /\ [LocksNext]_lockVars => LocksInv'
  <2> SUFFICES ASSUME LocksInv, [LocksNext]_lockVars
               PROVE  LocksInv'
    OBVIOUS
  <2>1. CASE LocksNext
    BY <2>1, LockStepInv, UnlockStepInv, StartCallInv DEF LocksNext
  <2>2. CASE UNCHANGED lockVars
    <3>1. flag' = flag /\ path' = path /\ step' = step
      BY <2>2 DEF lockVars
    <3>2. \A t \in LockThread : Held(t)' = Held(t)
      BY <3>1 DEF Held
    <3> QED BY <3>1, <3>2 DEF LocksInv, LocksTypeOK, MutualExclusion
  <2> QED BY <2>1, <2>2
<1>3. LocksInv => NoLockCycle
  BY SomeThreadMoves, HeldNow DEF LocksInv, NoLockCycle
<1> QED BY <1>1, <1>2, <1>3, PTL

-----------------------------------------------------------------------------
(* The components together. *)

(* A step of MCComponents is a step of one component, or of none.            *)
LEMMA StepsOfComponents ==
  [Next]_vars =>
    /\ [PoolNext]_poolVars /\ [TubNext]_tubVars /\ [FakeNext]_fakeVars
    /\ [DebugNext]_debugVars /\ [ThreadIdNext]_threadIdVars
  <1> SUFFICES ASSUME [Next]_vars
               PROVE  /\ [PoolNext]_poolVars /\ [TubNext]_tubVars /\ [FakeNext]_fakeVars
                      /\ [DebugNext]_debugVars /\ [ThreadIdNext]_threadIdVars
    OBVIOUS
  <1>1. PoolNext \/ UNCHANGED poolVars
    BY Zenon DEF Next, vars, utilityVars
  <1>2. TubNext \/ UNCHANGED tubVars
    BY Zenon DEF Next, vars, utilityVars
  <1>3. FakeNext \/ UNCHANGED fakeVars
    BY Zenon DEF Next, vars, driverSideVars
  <1>4. DebugNext \/ UNCHANGED debugVars
    BY Zenon DEF Next, vars, structureVars
  <1>5. ThreadIdNext \/ UNCHANGED threadIdVars
    BY Zenon DEF Next, vars, utilityVars
  <1> QED  BY <1>1, <1>2, <1>3, <1>4, <1>5, Zenon

(* Each block of a pool, each object in a Tub and each packet of a fake       *)
(* driver has one owner, for any number of them.                              *)
THEOREM EverythingIsOwnedOnce == Spec => []OwnedOnce
  <1>1. Spec => Init /\ [][Next]_vars
    BY PTL DEF Spec
  <1>2. Init => PoolInit /\ TubInit /\ FakeInit
    BY DEF Init
  <1>3. PoolExact /\ TubBalanced /\ FakePacketsOwned => OwnedOnce
    BY DEF OwnedOnce
  <1> QED  BY <1>1, <1>2, <1>3, StepsOfComponents, PoolStaysExact, TubsBalanced,
              FakePacketsStayOwned, PTL

(* The cache of isLogging, the text of a policy and the names of threads give *)
(* no stale answers, for any policies, files and threads.                     *)
THEOREM AnswersAreNotStale == Spec => []NoStaleAnswers
  <1>1. Spec => Init /\ [][Next]_vars
    BY PTL DEF Spec
  <1>2. Init => DebugInit /\ ThreadIdInit
    BY DEF Init
  <1>3. (CacheFresh /\ PolicyRoundTrip) /\ NamesOwn => NoStaleAnswers
    BY DEF NoStaleAnswers
  <1> QED  BY <1>1, <1>2, <1>3, StepsOfComponents, LogsAsThePolicySays, ThreadNamesOwn, PTL
=============================================================================
