----------------------------- MODULE DpdkProofs -----------------------------
(***************************************************************************)
(* Proofs about the DPDK driver, for any sizes of the pools and queues and   *)
(* any number of threads: first its counters of Packets and the cork, then   *)
(* the reference counts of the mbufs.                                        *)
(***************************************************************************)
EXTENDS DpdkDriver, IntrusiveListTheorems, FiniteSetTheorems

(* The Packets that hold an mbuf, in a pool of Packets.                      *)
MbufPackets(pool) == {p \in DpdkPacket : pool[p].bufType = "MBUF"}

(* The first unused Packet is one.                                           *)
LEMMA NextPacketFree ==
  ASSUME InUse # DpdkPacket
  PROVE  NextPacket \in DpdkPacket /\ packetPool[NextPacket].bufType = "NONE"
  <1> DEFINE U == DpdkPacket \ InUse
  <1>1. U \in SUBSET Nat /\ U # {}
    BY DpdkAssumption DEF DpdkPacket, InUse
  <1>2. NextPacket \in U
    <2>1. PICK x \in U : \A y \in U : x <= y
      <3> HIDE DEF U
      <3> QED  BY <1>1, LeastNat
    <2> QED  BY <2>1 DEF NextPacket
  <1> QED  BY <1>2 DEF InUse

(* A Packet that starts or stops to hold an mbuf is counted once.            *)
LEMMA CountPackets ==
  ASSUME NEW pool, pool = [p \in DpdkPacket |-> pool[p]], NEW p \in DpdkPacket, NEW rec
  PROVE  LET new == MbufPackets([pool EXCEPT ![p] = rec])
             old == MbufPackets(pool)
         IN  /\ Cardinality(old) \in Nat
             /\ rec.bufType # "MBUF" /\ pool[p].bufType # "MBUF" => new = old
             /\ rec.bufType = "MBUF" /\ pool[p].bufType # "MBUF"
                  => Cardinality(new) = Cardinality(old) + 1
             /\ rec.bufType # "MBUF" /\ pool[p].bufType = "MBUF"
                  => Cardinality(new) = Cardinality(old) - 1
  <1> DEFINE new == MbufPackets([pool EXCEPT ![p] = rec])
             old == MbufPackets(pool)
  <1>1. IsFiniteSet(DpdkPacket)
    <2>1. MaxPackets \in Int
      BY DpdkAssumption
    <2> QED  BY <2>1, FS_Interval DEF DpdkPacket
  <1>2. IsFiniteSet(old) /\ IsFiniteSet(new) /\ Cardinality(old) \in Nat /\ Cardinality(new) \in Nat
    <2>1. old \subseteq DpdkPacket /\ new \subseteq DpdkPacket
      BY DEF MbufPackets
    <2> HIDE DEF old, new
    <2> QED  BY <1>1, <2>1, FS_Subset, FS_CardinalityType
  <1>3. rec.bufType # "MBUF" /\ pool[p].bufType # "MBUF" => new = old
    BY DEF MbufPackets
  <1>4. ASSUME rec.bufType = "MBUF", pool[p].bufType # "MBUF"
        PROVE  Cardinality(new) = Cardinality(old) + 1
    <2>1. new = old \cup {p} /\ p \notin old
      BY <1>4 DEF MbufPackets
    <2> HIDE DEF old, new
    <2> QED  BY <1>2, <2>1, FS_AddElement
  <1>5. ASSUME rec.bufType # "MBUF", pool[p].bufType = "MBUF"
        PROVE  Cardinality(new) = Cardinality(old) - 1
    <2>1. new = old \ {p} /\ p \in old
      BY <1>5 DEF MbufPackets
    <2> HIDE DEF old, new
    <2> QED  BY <1>2, <2>1, FS_RemoveElement
  <1> QED  BY <1>2, <1>3, <1>4, <1>5

(* The inductive invariant: there is a Packet at every place of the pool.    *)
CountInv ==
  /\ packetPool = [p \in DpdkPacket |-> packetPool[p]]
  /\ ealInit => mbufsOutstanding = Cardinality(MbufPackets(packetPool))

(* No Packet is in use at first.                                             *)
LEMMA CountInvInit == DpdkInit => CountInv
  <1> SUFFICES ASSUME DpdkInit PROVE CountInv
    OBVIOUS
  <1>1. packetPool = [p \in DpdkPacket |-> packetPool[p]]
    BY DEF DpdkInit
  <1>2. MbufPackets(packetPool) = {}
    BY DEF DpdkInit, MbufPackets, Unused
  <1>3. ealInit => mbufsOutstanding = 0
    BY DEF DpdkInit
  <1> QED  BY <1>1, <1>2, <1>3, FS_EmptySet DEF CountInv

(* allocPacket and receivePackets count an mbuf that a Packet gets,           *)
(* releasePackets one that it gives back, and nothing else changes either.    *)
LEMMA CountInvNext == CountInv /\ [DpdkNext]_dpdkVars => CountInv'
  <1> SUFFICES ASSUME CountInv, [DpdkNext]_dpdkVars PROVE CountInv'
    OBVIOUS
  <1> DEFINE counted == Cardinality(MbufPackets(packetPool))
  <1>0. /\ packetPool = [p \in DpdkPacket |-> packetPool[p]]
        /\ ealInit => mbufsOutstanding = counted
    BY DEF CountInv
  <1>1. ASSUME UNCHANGED <<packetPool, mbufsOutstanding, ealInit>> PROVE CountInv'
    BY <1>0, <1>1 DEF CountInv
  <1>2. ASSUME NEW p \in DpdkPacket, NEW rec, packetPool' = [packetPool EXCEPT ![p] = rec],
               UNCHANGED ealInit,
               mbufsOutstanding' = IF rec.bufType = "MBUF" THEN mbufsOutstanding + 1
                                   ELSE IF packetPool[p].bufType = "MBUF" THEN mbufsOutstanding - 1
                                   ELSE mbufsOutstanding,
               rec.bufType = "MBUF" => packetPool[p].bufType # "MBUF"
        PROVE  CountInv'
    <2>1. packetPool' = [q \in DpdkPacket |-> packetPool'[q]]
      BY <1>0, <1>2
    <2>2. /\ rec.bufType # "MBUF" /\ packetPool[p].bufType # "MBUF"
               => Cardinality(MbufPackets(packetPool')) = counted
          /\ rec.bufType = "MBUF" /\ packetPool[p].bufType # "MBUF"
               => Cardinality(MbufPackets(packetPool')) = counted + 1
          /\ rec.bufType # "MBUF" /\ packetPool[p].bufType = "MBUF"
               => Cardinality(MbufPackets(packetPool')) = counted - 1
      BY <1>0, <1>2, CountPackets
    <2> QED  BY <1>0, <1>2, <2>1, <2>2 DEF CountInv
  <1>3. \A m, from : MbufPacket(m, from).bufType = "MBUF"
    BY DEF MbufPacket
  <1>4. \A from : OverflowPacket(from).bufType # "MBUF"
    BY DEF OverflowPacket
  <1>5. Unused.bufType # "MBUF"
    BY DEF Unused
  <1>6. CASE allocPacket
    <2>1. NextPacket \in DpdkPacket /\ packetPool[NextPacket].bufType = "NONE"
      BY <1>6, NextPacketFree DEF allocPacket
    <2>2. \/ /\ packetPool' = [packetPool EXCEPT ![NextPacket] = MbufPacket(NextMbuf, "alloc")]
             /\ mbufsOutstanding' = mbufsOutstanding + 1
          \/ /\ packetPool' = [packetPool EXCEPT ![NextPacket] = OverflowPacket("alloc")]
             /\ UNCHANGED mbufsOutstanding
      BY <1>6 DEF allocPacket
    <2>3. UNCHANGED ealInit
      BY <1>6 DEF allocPacket, configVars
    <2> HIDE DEF NextPacket, NextMbuf
    <2> QED  BY <1>2, <1>3, <1>4, <2>1, <2>2, <2>3
  <1>7. ASSUME NEW p \in DpdkPacket, releasePacket(p) PROVE CountInv'
    <2>1. /\ packetPool' = [packetPool EXCEPT ![p] = Unused]
          /\ mbufsOutstanding' = IF packetPool[p].bufType = "MBUF" THEN mbufsOutstanding - 1
                                 ELSE mbufsOutstanding
          /\ UNCHANGED ealInit
      BY <1>7 DEF releasePacket, ReleasesMbuf, configVars
    <2> QED  BY <1>2, <1>5, <2>1
  <1>8. ASSUME NEW t \in DriverThread, receivePacket(t) PROVE CountInv'
    <2> DEFINE f == Head(thread[t].burst)
    <2>1. UNCHANGED ealInit
      BY <1>8 DEF receivePacket, configVars
    <2>2. CASE UNCHANGED <<packetPool, mbufsOutstanding>>
      BY <1>1, <2>1, <2>2
    <2>3. CASE /\ InUse # DpdkPacket
               /\ \/ /\ packetPool' = [packetPool EXCEPT ![NextPacket] = MbufPacket(f.mbuf, "receive")]
                     /\ mbufsOutstanding' = mbufsOutstanding + 1
                  \/ /\ packetPool' = [packetPool EXCEPT ![NextPacket] = OverflowPacket("receive")]
                     /\ UNCHANGED mbufsOutstanding
      <3>1. NextPacket \in DpdkPacket /\ packetPool[NextPacket].bufType = "NONE"
        BY <2>3, NextPacketFree
      <3> HIDE DEF NextPacket, f
      <3> QED  BY <1>2, <1>3, <1>4, <2>1, <2>3, <3>1
    <2> QED  BY <1>8, <2>2, <2>3 DEF receivePacket
  <1>9. ASSUME NEW t \in DriverThread,
               \/ cork(t) \/ uncork(t) \/ uncorkFlush(t)
               \/ txBufferPacket(t) \/ txFlushPackets(t) \/ receiveBurst(t, 2)
        PROVE  CountInv'
    BY <1>1, <1>9 DEF cork, uncork, uncorkFlush, txBufferPacket, txFlushPackets, receiveBurst, configVars
  <1>10. ASSUME NEW t \in DriverThread, NEW p \in DpdkPacket, NEW priority,
                sendUnresolved(t, p) \/ sendLoopback(t, p, priority) \/ sendPacket(t, p, priority)
         PROVE  CountInv'
    BY <1>1, <1>10 DEF sendUnresolved, sendLoopback, sendPacket, configVars
  <1>11. CASE nicTransmit
    BY <1>1, <1>11 DEF nicTransmit, configVars
  <1>12. ASSUME NEW kind, nicReceive(kind) PROVE CountInv'
    BY <1>1, <1>12 DEF nicReceive, configVars
  <1>13. CASE UNCHANGED dpdkVars
    BY <1>1, <1>13 DEF dpdkVars
  <1> QED  BY <1>6, <1>7, <1>8, <1>9, <1>10, <1>11, <1>12, <1>13 DEF DpdkNext

(* mbufsOutstanding is the number of mbufs that Packets hold, for any sizes   *)
(* of the pools and any interleaving of sends, receives and releases.         *)
THEOREM OutstandingStaysExact == DpdkInit /\ [][DpdkNext]_dpdkVars => []OutstandingExact
  <1>1. CountInv => OutstandingExact
    <2>1. {p \in InUse : packetPool[p].bufType = "MBUF"} = MbufPackets(packetPool)
      BY DEF InUse, MbufPackets
    <2> QED  BY <2>1 DEF CountInv, OutstandingExact, Count
  <1> QED  BY <1>1, CountInvInit, CountInvNext, PTL

(* What a thread is doing is a record of these fields.                       *)
IsCall(r) ==
  \E pc, mbuf, priority, packet, burst :
    r = [pc |-> pc, mbuf |-> mbuf, priority |-> priority, packet |-> packet, burst |-> burst]

(* Changing a field of such a record changes that field.                     *)
LEMMA CallFields ==
  ASSUME NEW r, IsCall(r), NEW x
  PROVE  /\ IsCall([r EXCEPT !.pc = x]) /\ [r EXCEPT !.pc = x].pc = x
         /\ IsCall([r EXCEPT !.mbuf = x]) /\ [r EXCEPT !.mbuf = x].pc = r.pc
         /\ IsCall([r EXCEPT !.priority = x])
         /\ IsCall([r EXCEPT !.packet = x])
         /\ IsCall([r EXCEPT !.burst = x])
  <1>1. PICK pc, mbuf, priority, packet, burst :
          r = [pc |-> pc, mbuf |-> mbuf, priority |-> priority, packet |-> packet, burst |-> burst]
    BY DEF IsCall
  <1>2. [r EXCEPT !.pc = x] = [pc |-> x, mbuf |-> mbuf, priority |-> priority,
                               packet |-> packet, burst |-> burst]
    BY <1>1
  <1>3. [r EXCEPT !.mbuf = x] = [pc |-> pc, mbuf |-> x, priority |-> priority,
                                 packet |-> packet, burst |-> burst]
    BY <1>1
  <1>4. [r EXCEPT !.priority = x] = [pc |-> pc, mbuf |-> mbuf, priority |-> x,
                                     packet |-> packet, burst |-> burst]
    BY <1>1
  <1>5. [r EXCEPT !.packet = x] = [pc |-> pc, mbuf |-> mbuf, priority |-> priority,
                                   packet |-> x, burst |-> burst]
    BY <1>1
  <1>6. [r EXCEPT !.burst = x] = [pc |-> pc, mbuf |-> mbuf, priority |-> priority,
                                  packet |-> packet, burst |-> x]
    BY <1>1
  <1>7. [r EXCEPT !.pc = x].pc = x /\ [r EXCEPT !.mbuf = x].pc = r.pc
    BY <1>1
  <1>8. IsCall([r EXCEPT !.pc = x])
    BY <1>2, Zenon DEF IsCall
  <1>9. IsCall([r EXCEPT !.mbuf = x])
    BY <1>3, Zenon DEF IsCall
  <1>10. IsCall([r EXCEPT !.priority = x])
    BY <1>4, Zenon DEF IsCall
  <1>11. IsCall([r EXCEPT !.packet = x])
    BY <1>5, Zenon DEF IsCall
  <1>12. IsCall([r EXCEPT !.burst = x])
    BY <1>6, Zenon DEF IsCall
  <1> QED  BY <1>7, <1>8, <1>9, <1>10, <1>11, <1>12, Zenon

(* ... and so does changing several.                                         *)
LEMMA CallChanges ==
  ASSUME NEW r, IsCall(r), NEW x, NEW y, NEW z, NEW u
  PROVE  /\ IsCall([r EXCEPT !.pc = x, !.mbuf = y]) /\ [r EXCEPT !.pc = x, !.mbuf = y].pc = x
         /\ IsCall([r EXCEPT !.pc = x, !.burst = y])
         /\ IsCall([r EXCEPT !.pc = x, !.mbuf = y, !.priority = z, !.packet = u])
  <1> DEFINE a == [r EXCEPT !.pc = x]
             b == [a EXCEPT !.mbuf = y]
             c == [b EXCEPT !.priority = z]
             d == [c EXCEPT !.packet = u]
             e == [a EXCEPT !.burst = y]
  <1>1. IsCall(a) /\ a.pc = x
    BY CallFields
  <1>2. IsCall(b) /\ b.pc = x
    <2> HIDE DEF a
    <2> QED  BY <1>1, CallFields
  <1>3. IsCall(c)
    <2> HIDE DEF b
    <2> QED  BY <1>2, CallFields
  <1>4. IsCall(d)
    <2> HIDE DEF c
    <2> QED  BY <1>3, CallFields
  <1>5. IsCall(e)
    <2> HIDE DEF a
    <2> QED  BY <1>1, CallFields
  <1>6. /\ [r EXCEPT !.pc = x, !.mbuf = y] = b
        /\ [r EXCEPT !.pc = x, !.burst = y] = e
        /\ [r EXCEPT !.pc = x, !.mbuf = y, !.priority = z, !.packet = u] = d
    BY Zenon
  <1> HIDE DEF b, d, e
  <1> QED  BY <1>2, <1>4, <1>5, <1>6

(* A thread outside of all calls has such a record too.                      *)
LEMMA IdleCall == IsCall(Idle)
  BY Zenon DEF IsCall, Idle

(* The inductive invariant of corking: corked counts the threads between      *)
(* their cork() and uncork(), and NothingStranded.                            *)
CorkInv ==
  /\ thread = [t \in DriverThread |-> thread[t]]
  /\ \A t \in DriverThread : IsCall(thread[t])
  /\ IsFiniteSet(corking) /\ corked = Cardinality(corking)
  /\ NothingStranded

(* Some call that will flush the transmit buffer is under way.               *)
Flushing(th) == \E t \in DriverThread : th[t].pc \in {"uncork", "txFlush"}

(* Nothing is buffered and nobody has corked at first.                       *)
LEMMA CorkInvInit == DpdkInit => CorkInv
  <1> SUFFICES ASSUME DpdkInit PROVE CorkInv
    OBVIOUS
  <1>1. corking = {} /\ corked = 0 /\ txBuffer = <<>>
    BY DEF DpdkInit
  <1>2. thread = [t \in DriverThread |-> thread[t]]
    BY DEF DpdkInit
  <1>3. \A t \in DriverThread : IsCall(thread[t])
    <2>1. \A t \in DriverThread : thread[t] = Idle
      BY DEF DpdkInit
    <2> QED  BY <2>1, IdleCall
  <1> QED  BY <1>1, <1>2, <1>3, FS_EmptySet DEF CorkInv, NothingStranded

(* A flush empties the transmit buffer.                                      *)
LEMMA FlushEmpties == ASSUME NEW frames, NEW bytes, Flush(frames, bytes) PROVE txBuffer' = <<>>
  BY DEF Flush

(* The last uncork() flushes itself, and a sendPacket that finds the driver   *)
(* uncorked flushes before its call ends.                                    *)
LEMMA CorkInvNext == CorkInv /\ [DpdkNext]_dpdkVars => CorkInv'
  <1> SUFFICES ASSUME CorkInv, [DpdkNext]_dpdkVars PROVE CorkInv'
    OBVIOUS
  <1>0. /\ thread = [t \in DriverThread |-> thread[t]]
        /\ \A t \in DriverThread : IsCall(thread[t])
        /\ IsFiniteSet(corking) /\ corked = Cardinality(corking) /\ corked \in Nat
        /\ corked = 0 /\ txBuffer # <<>> => Flushing(thread)
    BY FS_CardinalityType DEF CorkInv, NothingStranded, Flushing
  <1>a. ASSUME thread' = [t \in DriverThread |-> thread'[t]],
               \A t \in DriverThread : IsCall(thread'[t]),
               IsFiniteSet(corking'), corked' = Cardinality(corking'),
               corked' = 0 /\ txBuffer' # <<>> => Flushing(thread')
        PROVE  CorkInv'
    BY <1>a DEF CorkInv, NothingStranded, Flushing
  <1>1. ASSUME UNCHANGED <<thread, txBuffer, corked, corking>> PROVE CorkInv'
    BY <1>0, <1>1, <1>a
  (* Threads outside a call that flushes may do what they like.              *)
  <1>2. ASSUME NEW t \in DriverThread, NEW rec, IsCall(rec), thread[t].pc \notin {"uncork", "txFlush"},
               thread' = [thread EXCEPT ![t] = rec], UNCHANGED <<txBuffer, corked, corking>>
        PROVE  CorkInv'
    <2>1. Flushing(thread) => Flushing(thread')
      BY <1>0, <1>2 DEF Flushing
    <2> QED  BY <1>0, <1>2, <1>a, <2>1
  <1>3. ASSUME NEW t \in DriverThread, cork(t) PROVE CorkInv'
    <2>1. /\ t \notin corking /\ corked' = corked + 1 /\ corking' = corking \cup {t}
          /\ thread' = thread
      BY <1>3 DEF cork
    <2>2. IsFiniteSet(corking') /\ Cardinality(corking') = corked + 1
      BY <1>0, <2>1, FS_AddElement
    <2> QED  BY <1>0, <1>a, <2>1, <2>2
  <1>4. ASSUME NEW t \in DriverThread, uncork(t) PROVE CorkInv'
    <2>1. /\ t \in corking /\ corked' = corked - 1 /\ corking' = corking \ {t}
          /\ thread' = IF corked = 1 THEN [thread EXCEPT ![t].pc = "uncork"] ELSE thread
          /\ txBuffer' = txBuffer
      BY <1>4 DEF uncork, LastUncork
    <2>2. IsFiniteSet(corking') /\ Cardinality(corking') = corked - 1
      BY <1>0, <2>1, FS_RemoveElement
    <2> DEFINE rec == [thread[t] EXCEPT !.pc = "uncork"]
    <2>3. IsCall(rec) /\ rec.pc = "uncork"
      BY <1>0, CallFields
    <2>4. thread' = IF corked = 1 THEN [thread EXCEPT ![t] = rec] ELSE thread
      BY <2>1
    <2> HIDE DEF rec
    <2>5. /\ thread' = [u \in DriverThread |-> thread'[u]]
          /\ \A u \in DriverThread : IsCall(thread'[u])
          /\ corked = 1 => Flushing(thread')
      BY <1>0, <2>3, <2>4 DEF Flushing
    <2> QED  BY <1>0, <1>a, <2>1, <2>2, <2>5
  <1>5. ASSUME NEW t \in DriverThread, uncorkFlush(t) PROVE CorkInv'
    <2>1. txBuffer' = <<>> /\ UNCHANGED <<corked, corking>> /\ thread' = [thread EXCEPT ![t] = Idle]
      BY <1>5, FlushEmpties DEF uncorkFlush
    <2> QED  BY <1>0, <1>a, <2>1, IdleCall
  <1>6. ASSUME NEW t \in DriverThread, txBufferPacket(t) PROVE CorkInv'
    <2>1. UNCHANGED <<corked, corking>>
      BY <1>6 DEF txBufferPacket
    <2>2. thread' = [thread EXCEPT ![t] = [@ EXCEPT !.pc = "txFlush", !.mbuf = NoBuf]]
      BY <1>6 DEF txBufferPacket
    <2> DEFINE rec == [thread[t] EXCEPT !.pc = "txFlush", !.mbuf = NoBuf]
    <2>3. IsCall(rec) /\ rec.pc = "txFlush"
      BY <1>0, CallChanges
    <2>4. thread' = [thread EXCEPT ![t] = rec]
      BY <2>2
    <2> HIDE DEF rec
    <2>5. /\ thread' = [u \in DriverThread |-> thread'[u]]
          /\ \A u \in DriverThread : IsCall(thread'[u])
          /\ Flushing(thread')
      BY <1>0, <2>3, <2>4 DEF Flushing
    <2> QED  BY <1>0, <1>a, <2>1, <2>5
  <1>7. ASSUME NEW t \in DriverThread, txFlushPackets(t) PROVE CorkInv'
    <2>1. UNCHANGED <<corked, corking>> /\ thread' = [thread EXCEPT ![t] = Idle]
      BY <1>7 DEF txFlushPackets
    <2>2. corked < 1 => txBuffer' = <<>>
      BY <1>7, FlushEmpties DEF txFlushPackets
    <2> QED  BY <1>0, <1>a, <2>1, <2>2, IdleCall
  <1>8. ASSUME NEW t \in DriverThread, receiveBurst(t, 2) PROVE CorkInv'
    <2> DEFINE l == Smaller(Len(loopbackRing), 2 \div 2)
               n == Smaller(Len(rxQueue), 2 - l)
               got == [i \in 1..l |-> [mbuf |-> loopbackRing[i], kind |-> "HOMA"]]
                        \o SubSeq(rxQueue, 1, n)
    <2>1. thread[t].pc = "idle" /\ UNCHANGED <<txBuffer, corked, corking>>
      BY <1>8 DEF receiveBurst, txVars
    <2>2. thread' = [thread EXCEPT ![t].pc = "rx", ![t].burst = got]
      BY <1>8 DEF receiveBurst
    <2> HIDE DEF got
    <2> DEFINE rec == [thread[t] EXCEPT !.pc = "rx", !.burst = got]
    <2>3. thread' = [thread EXCEPT ![t] = rec]
      BY <1>0, <2>2
    <2>4. IsCall(rec)
      <3> HIDE DEF got
      <3> QED  BY <1>0, CallChanges
    <2> HIDE DEF rec
    <2> QED  BY <1>2, <2>1, <2>3, <2>4
  <1>9. ASSUME NEW t \in DriverThread, receivePacket(t) PROVE CorkInv'
    <2>1. thread[t].pc = "rx" /\ UNCHANGED <<txBuffer, corked, corking>>
      BY <1>9 DEF receivePacket, txVars
    <2> DEFINE rest == Tail(thread[t].burst)
               rec  == IF rest = <<>> THEN Idle ELSE [thread[t] EXCEPT !.burst = rest]
    <2>2. thread' = [thread EXCEPT ![t] = rec]
      BY <1>9 DEF receivePacket
    <2>3. IsCall(rec)
      BY <1>0, CallFields, IdleCall
    <2> HIDE DEF rec
    <2> QED  BY <1>2, <2>1, <2>2, <2>3
  <1>10. ASSUME NEW t \in DriverThread, NEW p, NEW priority, sendPacket(t, p, priority) PROVE CorkInv'
    <2>1. thread[t].pc = "idle" /\ UNCHANGED <<txBuffer, corked, corking>>
      BY <1>10 DEF sendPacket, Calls, txVars
    <2> DEFINE rec == [Idle EXCEPT !.pc = "tx", !.mbuf = SendMbuf(p), !.priority = priority,
                        !.packet = p]
    <2>2. thread' = [thread EXCEPT ![t] = rec]
      BY <1>10 DEF sendPacket
    <2>3. IsCall(rec)
      <3> HIDE DEF Idle
      <3> QED  BY IdleCall, CallChanges
    <2> HIDE DEF rec
    <2> QED  BY <1>2, <2>1, <2>2, <2>3
  <1>11. ASSUME NEW t \in DriverThread, NEW p, NEW priority,
                sendUnresolved(t, p) \/ sendLoopback(t, p, priority)
         PROVE  CorkInv'
    BY <1>1, <1>11 DEF sendUnresolved, sendLoopback, txVars
  <1>12. ASSUME NEW p, allocPacket \/ releasePacket(p) PROVE CorkInv'
    BY <1>1, <1>12 DEF allocPacket, releasePacket, txVars
  <1>13. ASSUME NEW kind, nicTransmit \/ nicReceive(kind) PROVE CorkInv'
    BY <1>1, <1>13 DEF nicTransmit, nicReceive, txVars
  <1>14. CASE UNCHANGED dpdkVars
    BY <1>1, <1>14 DEF dpdkVars
  <1> QED  BY <1>3, <1>4, <1>5, <1>6, <1>7, <1>8, <1>9, <1>10, <1>11, <1>12, <1>13, <1>14 DEF DpdkNext

(* No frame stays in the transmit buffer of a driver that is not corked,      *)
(* whatever order any number of threads call sendPacket and uncork in.        *)
THEOREM NothingStaysStranded == DpdkInit /\ [][DpdkNext]_dpdkVars => []NothingStranded
  <1>1. CorkInv => NothingStranded
    BY DEF CorkInv
  <1> QED  BY <1>1, CorkInvInit, CorkInvNext, PTL

-----------------------------------------------------------------------------
(* The references to the mbufs.                                              *)
(*                                                                           *)
(* The inductive invariant CountsOK says for every mbuf that its count is no *)
(* smaller than the number of places that refer to it.  Every step of the    *)
(* driver moves one reference at a time: it takes it from a place, which     *)
(* leaves the reference in the hands of the call under way (InHand), and     *)
(* then gives it to another place or frees it.  Each way to take, give and   *)
(* free a reference is one lemma.                                            *)

(* Two subsets of a finite set that differ in one element at most.           *)
LEMMA OneChanges ==
  ASSUME NEW D, IsFiniteSet(D), NEW A \in SUBSET D, NEW B \in SUBSET D, NEW x,
         A \ {x} = B \ {x}
  PROVE  /\ Cardinality(A) \in Nat /\ Cardinality(B) \in Nat
         /\ Cardinality(B) = Cardinality(A) - (IF x \in A THEN 1 ELSE 0)
                                            + (IF x \in B THEN 1 ELSE 0)
  <1>1. /\ IsFiniteSet(A) /\ IsFiniteSet(B)
        /\ Cardinality(A) \in Nat /\ Cardinality(B) \in Nat
    BY FS_Subset, FS_CardinalityType
  <1>2. CASE x \in A /\ x \in B
    <2>1. A = B
      BY <1>2
    <2> QED  BY <1>1, <1>2, <2>1
  <1>3. CASE x \in A /\ x \notin B
    <2>1. B = A \ {x}
      BY <1>3
    <2> QED  BY <1>1, <1>3, <2>1, FS_RemoveElement
  <1>4. CASE x \notin A /\ x \in B
    <2>1. B = A \cup {x}
      BY <1>4
    <2> QED  BY <1>1, <1>4, <2>1, FS_AddElement
  <1>5. CASE x \notin A /\ x \notin B
    <2>1. A = B
      BY <1>5
    <2> QED  BY <1>1, <1>5, <2>1
  <1> QED  BY <1>2, <1>3, <1>4, <1>5

(* A set has members exactly when its cardinality is not 0.                  *)
LEMMA CountsSome ==
  ASSUME NEW A, IsFiniteSet(A)
  PROVE  Cardinality(A) \in Nat /\ (Cardinality(A) > 0 <=> A # {})
  BY FS_EmptySet, FS_CardinalityType

(* How many fields of f refer to m.                                          *)
Refs(D, f, m) == Cardinality({d \in D : f[d].mbuf = m})

(* Changing one of them.                                                     *)
LEMMA RefsChange ==
  ASSUME NEW D, IsFiniteSet(D), NEW f, f = [d \in D |-> f[d]], NEW x \in D, NEW rec,
         NEW m
  PROVE  /\ Refs(D, f, m) \in Nat /\ Refs(D, [f EXCEPT ![x] = rec], m) \in Nat
         /\ Refs(D, [f EXCEPT ![x] = rec], m) =
              Refs(D, f, m) - (IF f[x].mbuf = m THEN 1 ELSE 0)
                            + (IF rec.mbuf = m THEN 1 ELSE 0)
  <1> DEFINE g == [f EXCEPT ![x] = rec]
             A == {d \in D : f[d].mbuf = m}
             B == {d \in D : g[d].mbuf = m}
  <1>1. A \in SUBSET D /\ B \in SUBSET D /\ A \ {x} = B \ {x}
    OBVIOUS
  <1>2. (x \in A <=> f[x].mbuf = m) /\ (x \in B <=> rec.mbuf = m)
    OBVIOUS
  <1>3. Refs(D, f, m) = Cardinality(A) /\ Refs(D, g, m) = Cardinality(B)
    BY DEF Refs
  <1> HIDE DEF A, B, g
  <1>4. /\ Cardinality(A) \in Nat /\ Cardinality(B) \in Nat
        /\ Cardinality(B) = Cardinality(A) - (IF x \in A THEN 1 ELSE 0)
                                           + (IF x \in B THEN 1 ELSE 0)
    BY <1>1, OneChanges
  <1>5. Refs(D, g, m) = Refs(D, f, m) - (IF f[x].mbuf = m THEN 1 ELSE 0)
                            + (IF rec.mbuf = m THEN 1 ELSE 0)
    BY <1>2, <1>3, <1>4
  <1> QED  BY <1>3, <1>4, <1>5 DEF g

(* The positions of a sequence are finitely many.                            *)
LEMMA PositionsFinite == \A n \in Nat : IsFiniteSet(1..n)
  BY FS_Interval

(* An appended frame counts once more.                                      *)
LEMMA OccurrencesAppend ==
  ASSUME NEW T, NEW s \in Seq(T), NEW e \in T, NEW m
  PROVE  /\ Occurrences(s, m) \in Nat
         /\ Occurrences(Append(s, e), m) = Occurrences(s, m) + (IF e.mbuf = m THEN 1 ELSE 0)
  <1> DEFINE n == Len(s)
             t == Append(s, e)
             D == 1..(n + 1)
             A == {i \in 1..Len(s) : s[i].mbuf = m}
             B == {i \in 1..Len(t) : t[i].mbuf = m}
  <1>1. n \in Nat /\ Len(t) = n + 1 /\ t[n + 1] = e /\ \A i \in 1..n : t[i] = s[i]
    OBVIOUS
  <1>2. IsFiniteSet(D)
    BY <1>1, PositionsFinite
  <1>3. /\ A \in SUBSET D /\ B \in SUBSET D
        /\ n + 1 \notin A /\ (n + 1 \in B <=> e.mbuf = m)
    BY <1>1
  <1>a. A \ {n + 1} = B \ {n + 1}
    BY <1>1
  <1>4. Occurrences(s, m) = Cardinality(A) /\ Occurrences(t, m) = Cardinality(B)
    BY DEF Occurrences, Count
  <1> HIDE DEF A, B, D, t
  <1>5. /\ Cardinality(A) \in Nat
        /\ Cardinality(B) = Cardinality(A) - (IF n + 1 \in A THEN 1 ELSE 0)
                                           + (IF n + 1 \in B THEN 1 ELSE 0)
    BY <1>2, <1>3, <1>a, OneChanges
  <1>6. Occurrences(t, m) = Occurrences(s, m) + (IF e.mbuf = m THEN 1 ELSE 0)
    BY <1>3, <1>4, <1>5
  <1> QED  BY <1>4, <1>5, <1>6 DEF t

(* The positions that are left when the first l are taken away.              *)
LeftOf(A, l, n) == {i \in 1..(n - l) : l + i \in A}

(* Taking the first l of n positions never adds one and drops those taken.  *)
LEMMA PositionsLeft ==
  ASSUME NEW n \in Nat, NEW l \in 0..n, NEW A \in SUBSET (1..n)
  PROVE  /\ Cardinality(A) \in Nat /\ Cardinality(LeftOf(A, l, n)) \in Nat
         /\ Cardinality(LeftOf(A, l, n)) <= Cardinality(A)
         /\ \A j \in A : j <= l => Cardinality(LeftOf(A, l, n)) + 1 <= Cardinality(A)
  <1> DEFINE B == LeftOf(A, l, n)
  <1> USE DEF LeftOf
  <1>1. IsFiniteSet(A) /\ Cardinality(A) \in Nat
    BY PositionsFinite, FS_Subset, FS_CardinalityType
  <1> DEFINE f == [i \in B |-> l + i]
  <1>2. ASSUME NEW C \in SUBSET A, \A i \in B : l + i \in C
        PROVE  IsFiniteSet(B) /\ Cardinality(B) <= Cardinality(C) /\ IsFiniteSet(C)
    <2>1. f \in Injection(B, C)
      BY <1>2 DEF Injection, IsInjective
    <2>2. IsFiniteSet(C)
      BY <1>1, FS_Subset
    <2> HIDE DEF f, B
    <2> QED  BY <2>1, <2>2, FS_Injection
  <1>3. \A i \in B : l + i \in A
    OBVIOUS
  <1> HIDE DEF B
  <1>4. IsFiniteSet(B) /\ Cardinality(B) <= Cardinality(A) /\ Cardinality(B) \in Nat
    BY <1>2, <1>3, FS_CardinalityType
  <1>5. ASSUME NEW j \in A, j <= l PROVE Cardinality(B) + 1 <= Cardinality(A)
    <2> DEFINE C == A \ {j}
    <2>1. C \in SUBSET A /\ \A i \in B : l + i \in C
      BY <1>3, <1>5 DEF B
    <2>2. Cardinality(C) = Cardinality(A) - 1
      BY <1>1, FS_RemoveElement
    <2> HIDE DEF C
    <2>3. Cardinality(B) <= Cardinality(C)
      BY <1>2, <2>1
    <2> QED  BY <1>1, <1>4, <2>2, <2>3
  <1> QED  BY <1>1, <1>4, <1>5 DEF B

(* What is left of the frames of a queue.                                    *)
LEMMA OccurrencesLeft ==
  ASSUME NEW T, NEW s \in Seq(T), NEW l \in 0..Len(s), NEW m
  PROVE  LET r == SubSeq(s, l + 1, Len(s))
         IN  /\ r \in Seq(T) /\ Occurrences(s, m) \in Nat /\ Occurrences(r, m) \in Nat
             /\ Occurrences(r, m) <= Occurrences(s, m)
             /\ \A j \in 1..l : s[j].mbuf = m => Occurrences(r, m) + 1 <= Occurrences(s, m)
  <1> DEFINE n == Len(s)
             r == SubSeq(s, l + 1, n)
             A == {i \in 1..n : s[i].mbuf = m}
             B == {i \in 1..Len(r) : r[i].mbuf = m}
  <1> SUFFICES /\ r \in Seq(T) /\ Occurrences(s, m) \in Nat /\ Occurrences(r, m) \in Nat
               /\ Occurrences(r, m) <= Occurrences(s, m)
               /\ \A j \in 1..l : s[j].mbuf = m => Occurrences(r, m) + 1 <= Occurrences(s, m)
    OBVIOUS
  <1>1. n \in Nat /\ l \in 0..n /\ r \in Seq(T) /\ Len(r) = n - l
        /\ \A i \in 1..(n - l) : r[i] = s[l + i]
    OBVIOUS
  <1>2. A \in SUBSET (1..n) /\ B = LeftOf(A, l, n)
    BY <1>1 DEF LeftOf
  <1>3. \A j \in 1..l : s[j].mbuf = m => j \in A /\ j <= l
    BY <1>1
  <1>4. Occurrences(s, m) = Cardinality(A) /\ Occurrences(r, m) = Cardinality(B)
    BY DEF Occurrences, Count
  <1> HIDE DEF A, B, r, n
  <1>5. /\ Cardinality(A) \in Nat /\ Cardinality(B) \in Nat
        /\ Cardinality(B) <= Cardinality(A)
        /\ \A j \in A : j <= l => Cardinality(B) + 1 <= Cardinality(A)
    BY <1>1, <1>2, PositionsLeft
  <1> QED  BY <1>1, <1>3, <1>4, <1>5

(* The places of m in the loopback ring.                                     *)
InRing(s, m) == Cardinality({i \in 1..Len(s) : s[i] = m})

(* What is left of the ring.                                                 *)
LEMMA RingLeft ==
  ASSUME NEW T, NEW s \in Seq(T), NEW l \in 0..Len(s), NEW m
  PROVE  LET r == SubSeq(s, l + 1, Len(s))
         IN  /\ r \in Seq(T) /\ InRing(s, m) \in Nat /\ InRing(r, m) \in Nat
             /\ InRing(r, m) <= InRing(s, m)
             /\ \A j \in 1..l : s[j] = m => InRing(r, m) + 1 <= InRing(s, m)
  <1> DEFINE n == Len(s)
             r == SubSeq(s, l + 1, n)
             A == {i \in 1..n : s[i] = m}
             B == {i \in 1..Len(r) : r[i] = m}
  <1> SUFFICES /\ r \in Seq(T) /\ InRing(s, m) \in Nat /\ InRing(r, m) \in Nat
               /\ InRing(r, m) <= InRing(s, m)
               /\ \A j \in 1..l : s[j] = m => InRing(r, m) + 1 <= InRing(s, m)
    OBVIOUS
  <1>1. n \in Nat /\ l \in 0..n /\ r \in Seq(T) /\ Len(r) = n - l
        /\ \A i \in 1..(n - l) : r[i] = s[l + i]
    OBVIOUS
  <1>2. A \in SUBSET (1..n) /\ B = LeftOf(A, l, n)
    BY <1>1 DEF LeftOf
  <1>3. \A j \in 1..l : s[j] = m => j \in A /\ j <= l
    BY <1>1
  <1>4. InRing(s, m) = Cardinality(A) /\ InRing(r, m) = Cardinality(B)
    BY DEF InRing
  <1> HIDE DEF A, B, r, n
  <1>5. /\ Cardinality(A) \in Nat /\ Cardinality(B) \in Nat
        /\ Cardinality(B) <= Cardinality(A)
        /\ \A j \in A : j <= l => Cardinality(B) + 1 <= Cardinality(A)
    BY <1>1, <1>2, PositionsLeft
  <1> QED  BY <1>1, <1>3, <1>4, <1>5

(* An mbuf appended to the loopback ring counts once more.                  *)
LEMMA RingAppend ==
  ASSUME NEW T, NEW s \in Seq(T), NEW e \in T, NEW m
  PROVE  /\ InRing(s, m) \in Nat
         /\ InRing(Append(s, e), m) = InRing(s, m) + (IF e = m THEN 1 ELSE 0)
  <1> DEFINE n == Len(s)
             t == Append(s, e)
             D == 1..(n + 1)
             A == {i \in 1..Len(s) : s[i] = m}
             B == {i \in 1..Len(t) : t[i] = m}
  <1>1. n \in Nat /\ Len(t) = n + 1 /\ t[n + 1] = e /\ \A i \in 1..n : t[i] = s[i]
    OBVIOUS
  <1>2. IsFiniteSet(D)
    BY <1>1, PositionsFinite
  <1>3. /\ A \in SUBSET D /\ B \in SUBSET D
        /\ n + 1 \notin A /\ (n + 1 \in B <=> e = m)
    BY <1>1
  <1>a. A \ {n + 1} = B \ {n + 1}
    BY <1>1
  <1>4. InRing(s, m) = Cardinality(A) /\ InRing(t, m) = Cardinality(B)
    BY DEF InRing
  <1> HIDE DEF A, B, D, t
  <1>5. /\ Cardinality(A) \in Nat
        /\ Cardinality(B) = Cardinality(A) - (IF n + 1 \in A THEN 1 ELSE 0)
                                           + (IF n + 1 \in B THEN 1 ELSE 0)
    BY <1>2, <1>3, <1>a, OneChanges
  <1>6. InRing(t, m) = InRing(s, m) + (IF e = m THEN 1 ELSE 0)
    BY <1>3, <1>4, <1>5
  <1> QED  BY <1>4, <1>5, <1>6 DEF t

(* Where something occurs, and where nothing does.                           *)
LEMMA OccursSomewhere ==
  ASSUME NEW T, NEW s \in Seq(T), NEW m
  PROVE  /\ Occurrences(s, m) \in Nat /\ InRing(s, m) \in Nat
         /\ Occurrences(s, m) > 0 <=> \E i \in 1..Len(s) : s[i].mbuf = m
         /\ InRing(s, m) > 0 <=> \E i \in 1..Len(s) : s[i] = m
  <1> DEFINE A == {i \in 1..Len(s) : s[i].mbuf = m}
             B == {i \in 1..Len(s) : s[i] = m}
  <1>1. IsFiniteSet(A) /\ IsFiniteSet(B)
    <2>1. IsFiniteSet(1..Len(s))
      BY PositionsFinite
    <2>2. A \in SUBSET (1..Len(s)) /\ B \in SUBSET (1..Len(s))
      OBVIOUS
    <2> HIDE DEF A, B
    <2> QED  BY <2>1, <2>2, FS_Subset
  <1>2. Occurrences(s, m) = Cardinality(A) /\ InRing(s, m) = Cardinality(B)
    BY DEF Occurrences, Count, InRing
  <1>3. /\ A # {} <=> \E i \in 1..Len(s) : s[i].mbuf = m
        /\ B # {} <=> \E i \in 1..Len(s) : s[i] = m
    OBVIOUS
  <1> HIDE DEF A, B
  <1> QED  BY <1>1, <1>2, <1>3, CountsSome

(* The places of m in the NIC's queue.                                       *)
InNic(q, m) == Cardinality({f \in q : f.mbuf = m})

(* The NIC gives up one frame when it has sent it.                          *)
LEMMA NicRemove ==
  ASSUME NEW q, IsFiniteSet(q), NEW f \in q, NEW m
  PROVE  /\ IsFiniteSet(q \ {f}) /\ InNic(q, m) \in Nat
         /\ InNic(q \ {f}, m) = InNic(q, m) - (IF f.mbuf = m THEN 1 ELSE 0)
         /\ InNic(q \ {f}, m) \in Nat
  <1> DEFINE A == {g \in q : g.mbuf = m}
             B == {g \in q \ {f} : g.mbuf = m}
  <1>1. A \in SUBSET q /\ B \in SUBSET q /\ A \ {f} = B \ {f} /\ f \notin B
        /\ (f \in A <=> f.mbuf = m)
    OBVIOUS
  <1>2. InNic(q, m) = Cardinality(A) /\ InNic(q \ {f}, m) = Cardinality(B)
    BY DEF InNic
  <1> HIDE DEF A, B
  <1>3. /\ Cardinality(A) \in Nat /\ Cardinality(B) \in Nat
        /\ Cardinality(B) = Cardinality(A) - (IF f \in A THEN 1 ELSE 0)
                                           + (IF f \in B THEN 1 ELSE 0)
    BY <1>1, OneChanges
  <1> QED  BY <1>1, <1>2, <1>3, FS_RemoveElement

(* A flush: frames up to the k-th go to the NIC, the others are freed.       *)
Later(frames, k, m) == Cardinality({i \in (k + 1)..Len(frames) : frames[i].mbuf = m})

(* A flush splits the transmit buffer between the NIC and the frames to free. *)
LEMMA FlushCounts ==
  ASSUME NEW T, NEW s \in Seq(T), NEW k \in 0..Len(s), NEW q, IsFiniteSet(q), NEW m
  PROVE  LET r == q \cup ToSet(SubSeq(s, 1, k))
         IN  /\ IsFiniteSet(r)
             /\ InNic(r, m) \in Nat /\ InNic(q, m) \in Nat /\ Later(s, k, m) \in Nat
             /\ Occurrences(s, m) \in Nat
             /\ InNic(r, m) + Later(s, k, m) <= InNic(q, m) + Occurrences(s, m)
  <1> DEFINE p == SubSeq(s, 1, k)
             r == q \cup ToSet(p)
             A == {i \in 1..Len(s) : s[i].mbuf = m}
             E == {i \in 1..k : s[i].mbuf = m}
             L == {i \in (k + 1)..Len(s) : s[i].mbuf = m}
             Q == {g \in q : g.mbuf = m}
             N == {g \in ToSet(p) : g.mbuf = m}
             R == {g \in r : g.mbuf = m}
  <1> SUFFICES /\ IsFiniteSet(r)
               /\ InNic(r, m) \in Nat /\ InNic(q, m) \in Nat /\ Later(s, k, m) \in Nat
               /\ Occurrences(s, m) \in Nat
               /\ InNic(r, m) + Later(s, k, m) <= InNic(q, m) + Occurrences(s, m)
    OBVIOUS
  <1>1. Len(p) = k /\ \A i \in 1..k : p[i] = s[i]
    OBVIOUS
  <1>2. ToSet(p) = {s[i] : i \in 1..k}
    <2>1. ToSet(p) = {p[i] : i \in 1..k}
      <3>1. DOMAIN p = 1..k
        OBVIOUS
      <3> HIDE DEF p
      <3> QED  BY <3>1, Zenon DEF ToSet
    <2> HIDE DEF p
    <2> QED  BY <1>1, <2>1
  <1>3. IsFiniteSet(1..Len(s)) /\ IsFiniteSet(1..k)
    BY PositionsFinite
  <1>4. /\ A = E \cup L /\ E \cap L = {}
        /\ E \in SUBSET (1..Len(s)) /\ L \in SUBSET (1..Len(s))
    OBVIOUS
  <1>5. R = Q \cup N
    OBVIOUS
  <1>6. /\ IsFiniteSet(E) /\ IsFiniteSet(L)
        /\ Cardinality(E) \in Nat /\ Cardinality(L) \in Nat
        /\ Cardinality(A) = Cardinality(E) + Cardinality(L)
    <2> HIDE DEF A, E, L
    <2>1. IsFiniteSet(E) /\ IsFiniteSet(L)
      BY <1>3, <1>4, FS_Subset
    <2>2. Cardinality(E) \in Nat /\ Cardinality(L) \in Nat
      BY <2>1, FS_CardinalityType
    <2>3. Cardinality(A) = Cardinality(E) + Cardinality(L) - Cardinality({})
      BY <1>4, <2>1, FS_Union
    <2> QED  BY <2>1, <2>2, <2>3, FS_EmptySet
  <1> DEFINE f == [i \in E |-> s[i]]
             h == [i \in 1..k |-> s[i]]
  <1>7. f \in Surjection(E, N)
    BY <1>2 DEF Surjection
  <1>8. h \in Surjection(1..k, ToSet(p))
    BY <1>2 DEF Surjection
  <1>9. IsFiniteSet(N) /\ Cardinality(N) <= Cardinality(E)
    <2> HIDE DEF f, E, N
    <2> QED  BY <1>6, <1>7, FS_Surjection
  <1>10. IsFiniteSet(r)
    <2>1. IsFiniteSet(ToSet(p))
      <3> HIDE DEF h, p
      <3> QED  BY <1>3, <1>8, FS_Surjection
    <2> HIDE DEF p
    <2> QED  BY <2>1, FS_Union
  <1>11. /\ IsFiniteSet(Q) /\ Cardinality(Q) \in Nat /\ Cardinality(N) \in Nat
         /\ Cardinality(R) \in Nat /\ Cardinality(R) <= Cardinality(Q) + Cardinality(N)
    <2>1. Q \in SUBSET q
      OBVIOUS
    <2> HIDE DEF Q, N, R
    <2>2. IsFiniteSet(Q)
      BY <2>1, FS_Subset
    <2>3. /\ IsFiniteSet(R)
          /\ Cardinality(R) = Cardinality(Q) + Cardinality(N) - Cardinality(Q \cap N)
      BY <1>5, <1>9, <2>2, FS_Union
    <2>4. IsFiniteSet(Q \cap N)
      BY <2>2, FS_Intersection
    <2> QED  BY <1>9, <2>2, <2>3, <2>4, FS_CardinalityType
  <1>12. /\ InNic(r, m) = Cardinality(R) /\ InNic(q, m) = Cardinality(Q)
         /\ Later(s, k, m) = Cardinality(L) /\ Occurrences(s, m) = Cardinality(A)
    BY DEF InNic, Later, Occurrences, Count
  <1> HIDE DEF r, A, E, L, Q, N, R
  <1>13. InNic(r, m) + Later(s, k, m) <= InNic(q, m) + Occurrences(s, m)
    BY <1>6, <1>9, <1>11, <1>12
  <1>14. Occurrences(s, m) \in Nat
    BY <1>6, <1>12
  <1> QED  BY <1>6, <1>10, <1>11, <1>12, <1>13, <1>14

-----------------------------------------------------------------------------
(* The mbufs. *)

(* The state of an mbuf is a record of these fields.                         *)
IsMbuf(r) ==
  \E n, a, l, p :
    n \in Nat /\ r = [refcnt |-> n, attached |-> a, length |-> l, priority |-> p]

(* What is in the buffer of two mbufs is the same.                           *)
SameContents(r, q) ==
  r.attached = q.attached /\ r.length = q.length /\ r.priority = q.priority

(* Changing the reference count keeps the contents.                          *)
LEMMA RefcntField ==
  ASSUME NEW r, IsMbuf(r), NEW x \in Nat
  PROVE  /\ r.refcnt \in Nat /\ IsMbuf([r EXCEPT !.refcnt = x]) /\ [r EXCEPT !.refcnt = x].refcnt = x
         /\ [r EXCEPT !.refcnt = x].attached = r.attached
         /\ [r EXCEPT !.refcnt = x].length = r.length
         /\ [r EXCEPT !.refcnt = x].priority = r.priority
  <1>1. PICK n, a, l, p :
          n \in Nat /\ r = [refcnt |-> n, attached |-> a, length |-> l, priority |-> p]
    BY DEF IsMbuf
  <1>2. [r EXCEPT !.refcnt = x] = [refcnt |-> x, attached |-> a, length |-> l, priority |-> p]
    BY <1>1
  <1>3. x \in Nat
    OBVIOUS
  <1>4. IsMbuf([r EXCEPT !.refcnt = x])
    BY <1>2, <1>3, Zenon DEF IsMbuf
  <1>5. r.refcnt \in Nat /\ [r EXCEPT !.refcnt = x].refcnt = x
    BY <1>1, <1>2
  <1>6. /\ [r EXCEPT !.refcnt = x].attached = r.attached
        /\ [r EXCEPT !.refcnt = x].length = r.length
        /\ [r EXCEPT !.refcnt = x].priority = r.priority
    BY <1>1, <1>2
  <1> QED  BY <1>4, <1>5, <1>6

(* Changing what it shares.                                                  *)
LEMMA AttachedField ==
  ASSUME NEW r, IsMbuf(r), NEW x
  PROVE  /\ r.refcnt \in Nat /\ IsMbuf([r EXCEPT !.attached = x]) /\ [r EXCEPT !.attached = x].attached = x
         /\ [r EXCEPT !.attached = x].refcnt = r.refcnt
  <1>1. PICK n, a, l, p :
          n \in Nat /\ r = [refcnt |-> n, attached |-> a, length |-> l, priority |-> p]
    BY DEF IsMbuf
  <1>2. [r EXCEPT !.attached = x] = [refcnt |-> n, attached |-> x, length |-> l, priority |-> p]
    BY <1>1
  <1>3. n \in Nat
    BY <1>1
  <1>4. IsMbuf([r EXCEPT !.attached = x])
    BY <1>2, <1>3, Zenon DEF IsMbuf
  <1>5. r.refcnt \in Nat /\ [r EXCEPT !.attached = x].attached = x
    BY <1>1, <1>2
  <1>6. /\ [r EXCEPT !.attached = x].refcnt = r.refcnt
    BY <1>1, <1>2
  <1> QED  BY <1>4, <1>5, <1>6

(* Changing the header.                                                      *)
LEMMA PriorityField ==
  ASSUME NEW r, IsMbuf(r), NEW x
  PROVE  /\ r.refcnt \in Nat /\ IsMbuf([r EXCEPT !.priority = x]) /\ [r EXCEPT !.priority = x].priority = x
         /\ [r EXCEPT !.priority = x].refcnt = r.refcnt
         /\ [r EXCEPT !.priority = x].attached = r.attached
  <1>1. PICK n, a, l, p :
          n \in Nat /\ r = [refcnt |-> n, attached |-> a, length |-> l, priority |-> p]
    BY DEF IsMbuf
  <1>2. [r EXCEPT !.priority = x] = [refcnt |-> n, attached |-> a, length |-> l, priority |-> x]
    BY <1>1
  <1>3. n \in Nat
    BY <1>1
  <1>4. IsMbuf([r EXCEPT !.priority = x])
    BY <1>2, <1>3, Zenon DEF IsMbuf
  <1>5. r.refcnt \in Nat /\ [r EXCEPT !.priority = x].priority = x
    BY <1>1, <1>2
  <1>6. /\ [r EXCEPT !.priority = x].refcnt = r.refcnt
        /\ [r EXCEPT !.priority = x].attached = r.attached
    BY <1>1, <1>2
  <1> QED  BY <1>4, <1>5, <1>6

(* Changing the length.                                                      *)
LEMMA LengthField ==
  ASSUME NEW r, IsMbuf(r), NEW x
  PROVE  /\ r.refcnt \in Nat /\ IsMbuf([r EXCEPT !.length = x]) /\ [r EXCEPT !.length = x].length = x
         /\ [r EXCEPT !.length = x].refcnt = r.refcnt
         /\ [r EXCEPT !.length = x].attached = r.attached
         /\ [r EXCEPT !.length = x].priority = r.priority
  <1>1. PICK n, a, l, p :
          n \in Nat /\ r = [refcnt |-> n, attached |-> a, length |-> l, priority |-> p]
    BY DEF IsMbuf
  <1>2. [r EXCEPT !.length = x] = [refcnt |-> n, attached |-> a, length |-> x, priority |-> p]
    BY <1>1
  <1>3. n \in Nat
    BY <1>1
  <1>4. IsMbuf([r EXCEPT !.length = x])
    BY <1>2, <1>3, Zenon DEF IsMbuf
  <1>5. r.refcnt \in Nat /\ [r EXCEPT !.length = x].length = x
    BY <1>1, <1>2
  <1>6. /\ [r EXCEPT !.length = x].refcnt = r.refcnt
        /\ [r EXCEPT !.length = x].attached = r.attached
        /\ [r EXCEPT !.length = x].priority = r.priority
    BY <1>1, <1>2
  <1> QED  BY <1>4, <1>5, <1>6

(* Every record of an mbuf has a count.                                      *)
LEMMA RefcntType == ASSUME NEW r, IsMbuf(r) PROVE r.refcnt \in Nat
  BY DEF IsMbuf

(* The headers of a frame that is sent.                                      *)
Header(r, x, y) == [r EXCEPT !.priority = x, !.length = y]

(* Writing the header leaves the references alone.                          *)
LEMMA HeaderChange ==
  ASSUME NEW r, IsMbuf(r), NEW x, NEW y
  PROVE  /\ IsMbuf(Header(r, x, y)) /\ Header(r, x, y).refcnt = r.refcnt
         /\ Header(r, x, y).attached = r.attached
         /\ Header(r, x, y).priority = x /\ Header(r, x, y).length = y
  <1> DEFINE h1 == [r EXCEPT !.priority = x]
             h == [h1 EXCEPT !.length = y]
  <1>1. h = Header(r, x, y)
    BY Zenon DEF Header
  <1>2. IsMbuf(h1) /\ h1.refcnt = r.refcnt /\ h1.attached = r.attached /\ h1.priority = x
    BY PriorityField
  <1>3. /\ IsMbuf(h) /\ h.refcnt = r.refcnt /\ h.attached = r.attached
        /\ h.priority = x /\ h.length = y
    <2> HIDE DEF h1
    <2> QED  BY <1>2, LengthField
  <1> HIDE DEF h
  <1> QED  BY <1>1, <1>3

(* A clone of it.                                                            *)
CloneOf(r, x) == [r EXCEPT !.refcnt = 1, !.attached = x]

(* A clone starts with one reference.                                       *)
LEMMA CloneRecord ==
  ASSUME NEW r, IsMbuf(r), NEW x
  PROVE  IsMbuf(CloneOf(r, x)) /\ CloneOf(r, x).refcnt = 1 /\ CloneOf(r, x).attached = x
  <1> DEFINE c1 == [r EXCEPT !.refcnt = 1]
             c == [c1 EXCEPT !.attached = x]
  <1>1. c = CloneOf(r, x)
    BY Zenon DEF CloneOf
  <1>2. IsMbuf(c1) /\ c1.refcnt = 1
    <2>1. 1 \in Nat
      OBVIOUS
    <2> QED  BY <2>1, RefcntField
  <1>3. IsMbuf(c) /\ c.refcnt = 1 /\ c.attached = x
    <2> HIDE DEF c1
    <2> QED  BY <1>2, AttachedField
  <1> HIDE DEF c
  <1> QED  BY <1>1, <1>3

(* An mbuf in the pool, and one that was just allocated.                     *)
LEMMA FrameRecords ==
  /\ IsMbuf(FreeMbuf) /\ FreeMbuf.refcnt = 0 /\ FreeMbuf.attached = NoBuf
  /\ \A l : /\ IsMbuf(Frame(l)) /\ Frame(l).refcnt = 1 /\ Frame(l).attached = NoBuf
            /\ Frame(l).length = l
  <1>1. IsMbuf(FreeMbuf)
    BY Zenon DEF IsMbuf, FreeMbuf
  <1>2. \A l : IsMbuf(Frame(l))
    BY Zenon DEF IsMbuf, Frame
  <1>3. /\ FreeMbuf.refcnt = 0 /\ FreeMbuf.attached = NoBuf
        /\ \A l : Frame(l).refcnt = 1 /\ Frame(l).attached = NoBuf /\ Frame(l).length = l
    BY DEF FreeMbuf, Frame
  <1> QED  BY <1>1, <1>2, <1>3

(* The pool of mbufs f, and how many of them share the buffer of m.          *)
MbufOK(r) == IsMbuf(r) /\ (r.refcnt = 0 => r.attached = NoBuf)

(* The pool is a function of well-formed mbufs.                             *)
MbufsOK(f) ==
  /\ f = [m \in Mbuf |-> f[m]]
  /\ \A m \in Mbuf : MbufOK(f[m])

(* The mbufs that are attached to m.                                        *)
Clones(f, m) == Cardinality({n \in Mbuf : f[n].attached = m})

(* The pool is finite and NoBuf is outside it.                              *)
LEMMA MbufFinite == IsFiniteSet(Mbuf) /\ NoBuf \notin Mbuf /\ Mbuf \in SUBSET Nat
  BY DpdkAssumption, PositionsFinite DEF Mbuf

(* Changing one mbuf.                                                        *)
Put(f, k, rec) == [f EXCEPT ![k] = rec]

(* Changing one mbuf changes the number of clones by that mbuf alone.       *)
LEMMA ClonesChange ==
  ASSUME NEW f, MbufsOK(f), NEW k \in Mbuf, NEW rec, MbufOK(rec)
  PROVE  /\ MbufsOK(Put(f, k, rec))
         /\ \A m \in Mbuf :
              /\ Put(f, k, rec)[m] = IF m = k THEN rec ELSE f[m]
              /\ Clones(f, m) \in Nat /\ Clones(Put(f, k, rec), m) \in Nat
              /\ Clones(Put(f, k, rec), m) =
                   Clones(f, m) - (IF f[k].attached = m THEN 1 ELSE 0)
                                + (IF rec.attached = m THEN 1 ELSE 0)
  <1> DEFINE g == Put(f, k, rec)
  <1>1. f = [m \in Mbuf |-> f[m]]
    BY DEF MbufsOK
  <1>2. \A m \in Mbuf : g[m] = IF m = k THEN rec ELSE f[m]
    BY <1>1 DEF Put
  <1>3. MbufsOK(g)
    <2>1. g = [m \in Mbuf |-> g[m]]
      BY <1>1 DEF Put
    <2> HIDE DEF g
    <2> QED  BY <1>2, <2>1 DEF MbufsOK
  <1>4. ASSUME NEW m \in Mbuf
        PROVE  /\ Clones(f, m) \in Nat /\ Clones(g, m) \in Nat
               /\ Clones(g, m) = Clones(f, m) - (IF f[k].attached = m THEN 1 ELSE 0)
                                              + (IF rec.attached = m THEN 1 ELSE 0)
    <2> DEFINE A == {n \in Mbuf : f[n].attached = m}
               B == {n \in Mbuf : g[n].attached = m}
    <2> HIDE DEF g
    <2>1. A \in SUBSET Mbuf /\ B \in SUBSET Mbuf /\ A \ {k} = B \ {k}
      BY <1>2
    <2>2. (k \in A <=> f[k].attached = m) /\ (k \in B <=> rec.attached = m)
      BY <1>2
    <2>3. Clones(f, m) = Cardinality(A) /\ Clones(g, m) = Cardinality(B)
      BY DEF Clones
    <2> HIDE DEF A, B
    <2>4. /\ Cardinality(A) \in Nat /\ Cardinality(B) \in Nat
          /\ Cardinality(B) = Cardinality(A) - (IF k \in A THEN 1 ELSE 0)
                                             + (IF k \in B THEN 1 ELSE 0)
      BY <2>1, OneChanges, MbufFinite
    <2> QED  BY <2>2, <2>3, <2>4
  <1> QED  BY <1>2, <1>3, <1>4

(* Giving up one reference to k.                                             *)
LEMMA DropLemma ==
  ASSUME NEW f, MbufsOK(f), NEW k \in Mbuf, f[k].refcnt >= 1
  PROVE  /\ MbufsOK(Drop(f, k))
         /\ \A m \in Mbuf :
              /\ f[m].refcnt \in Nat
              /\ Drop(f, k)[m].refcnt = f[m].refcnt - (IF m = k THEN 1 ELSE 0)
              /\ Drop(f, k)[m].refcnt > 0 => SameContents(Drop(f, k)[m], f[m])
         /\ \A m \in Mbuf :
              /\ Clones(f, m) \in Nat /\ Clones(Drop(f, k), m) \in Nat
              /\ Clones(Drop(f, k), m) =
                   Clones(f, m) - (IF f[k].refcnt = 1 /\ f[k].attached = m THEN 1 ELSE 0)
  <1> DEFINE rec == IF f[k].refcnt = 1 THEN FreeMbuf ELSE [f[k] EXCEPT !.refcnt = f[k].refcnt - 1]
             g == Put(f, k, rec)
  <1>1. Drop(f, k) = g
    BY Zenon DEF Drop, Put
  <1>2. IsMbuf(f[k]) /\ f[k].refcnt \in Nat
    BY RefcntType DEF MbufsOK, MbufOK
  <1>3. /\ IsMbuf(rec) /\ rec.refcnt = f[k].refcnt - 1
        /\ f[k].refcnt = 1 => rec.attached = NoBuf
        /\ f[k].refcnt # 1 => SameContents(rec, f[k])
    <2>1. CASE f[k].refcnt = 1
      <3>1. rec = FreeMbuf
        BY <2>1
      <3> QED  BY <2>1, <3>1, FrameRecords
    <2>2. CASE f[k].refcnt # 1
      <3> DEFINE n == f[k].refcnt - 1
      <3>1. rec = [f[k] EXCEPT !.refcnt = n] /\ n \in Nat
        BY <1>2, <2>2
      <3> HIDE DEF n, rec
      <3>2. IsMbuf(rec) /\ rec.refcnt = n /\ SameContents(rec, f[k])
        BY <1>2, <3>1, RefcntField DEF SameContents
      <3> QED  BY <2>2, <3>2 DEF n
    <2> QED  BY <2>1, <2>2
  <1>4. \A m \in Mbuf : IsMbuf(f[m]) /\ f[m].refcnt \in Nat
    BY RefcntType DEF MbufsOK, MbufOK
  <1> HIDE DEF rec
  <1>5. MbufOK(rec)
    BY <1>2, <1>3 DEF MbufOK
  <1>6. /\ MbufsOK(g)
        /\ \A m \in Mbuf :
             /\ g[m] = IF m = k THEN rec ELSE f[m]
             /\ Clones(f, m) \in Nat /\ Clones(g, m) \in Nat
             /\ Clones(g, m) = Clones(f, m) - (IF f[k].attached = m THEN 1 ELSE 0)
                                            + (IF rec.attached = m THEN 1 ELSE 0)
    BY <1>5, ClonesChange
  <1> HIDE DEF g
  <1>7. ASSUME NEW m \in Mbuf
        PROVE  /\ g[m].refcnt = f[m].refcnt - (IF m = k THEN 1 ELSE 0)
               /\ g[m].refcnt > 0 => SameContents(g[m], f[m])
    BY <1>2, <1>3, <1>4, <1>6 DEF SameContents
  <1>8. ASSUME NEW m \in Mbuf
        PROVE  /\ Clones(f, m) \in Nat /\ Clones(g, m) \in Nat
               /\ Clones(g, m) =
                    Clones(f, m) - (IF f[k].refcnt = 1 /\ f[k].attached = m THEN 1 ELSE 0)
    BY <1>3, <1>6, MbufFinite DEF SameContents
  <1> QED  BY <1>1, <1>4, <1>6, <1>7, <1>8

(* Every mbuf has a reference for each of its clones.                        *)
ClonesCounted(f) == \A m \in Mbuf : f[m].refcnt >= Clones(f, m)

(* rte_pktmbuf_free costs k a reference and no other mbuf one that is needed, *)
(* although the buffer that a clone shares may lose one as well.              *)
LEMMA FreedLemma ==
  ASSUME NEW f, MbufsOK(f), ClonesCounted(f), NEW k \in Mbuf,
         f[k].refcnt >= Clones(f, k) + 1
  PROVE  /\ MbufsOK(Freed(f, k))
         /\ \A m \in Mbuf :
              /\ f[m].refcnt \in Nat /\ Freed(f, k)[m].refcnt \in Nat
              /\ Clones(f, m) \in Nat /\ Clones(Freed(f, k), m) \in Nat
              /\ Freed(f, k)[m].refcnt - Clones(Freed(f, k), m)
                   >= f[m].refcnt - Clones(f, m) - (IF m = k THEN 1 ELSE 0)
              /\ Freed(f, k)[m].refcnt <= f[m].refcnt
              /\ Freed(f, k)[m].refcnt > 0 => SameContents(Freed(f, k)[m], f[m])
  <1> DEFINE a == f[k].attached
             g == Drop(f, k)
             h == Drop(g, a)
             last == f[k].refcnt = 1
  <1>0. \A m \in Mbuf : f[m].refcnt \in Nat /\ Clones(f, m) \in Nat
    <2>1. \A m \in Mbuf : MbufOK(f[m])
      BY DEF MbufsOK
    <2>2. ASSUME NEW m \in Mbuf PROVE Clones(f, m) \in Nat
      <3> DEFINE A == {n \in Mbuf : f[n].attached = m}
      <3>1. A \in SUBSET Mbuf
        OBVIOUS
      <3> HIDE DEF A
      <3>2. Cardinality(A) \in Nat
        BY <3>1, MbufFinite, FS_Subset, FS_CardinalityType
      <3> QED  BY <3>2 DEF Clones, A
    <2> QED  BY <2>1, <2>2, RefcntType DEF MbufOK
  <1>1. f[k].refcnt >= 1
    BY <1>0
  <1>2. /\ MbufsOK(g)
        /\ \A m \in Mbuf :
             /\ g[m].refcnt = f[m].refcnt - (IF m = k THEN 1 ELSE 0)
             /\ g[m].refcnt > 0 => SameContents(g[m], f[m])
        /\ \A m \in Mbuf :
             /\ Clones(g, m) \in Nat
             /\ Clones(g, m) = Clones(f, m) - (IF last /\ a = m THEN 1 ELSE 0)
    BY <1>1, DropLemma
  <1>3. \A m \in Mbuf : g[m].refcnt \in Nat /\ g[m].refcnt <= f[m].refcnt
    BY <1>0, <1>1, <1>2
  <1>4. CASE ~last \/ a = NoBuf \/ a \notin Mbuf
    <2>1. Freed(f, k) = g
      <3>1. CASE ~last \/ a = NoBuf
        BY <3>1 DEF Freed
      <3>2. CASE last /\ a # NoBuf /\ a \notin Mbuf
        <4>1. Freed(f, k) = h
          BY <3>2 DEF Freed
        <4>2. g = [m \in Mbuf |-> g[m]]
          BY <1>2 DEF MbufsOK
        <4> HIDE DEF g
        <4>3. h = g
          BY <3>2, <4>2 DEF Drop
        <4> QED  BY <4>1, <4>3
      <3> QED  BY <1>4, <3>1, <3>2
    <2>2. \A m \in Mbuf : Clones(g, m) = Clones(f, m)
      BY <1>0, <1>2, <1>4, MbufFinite
    <2> HIDE DEF g
    <2> QED  BY <1>0, <1>2, <1>3, <2>1, <2>2
  <1>5. CASE last /\ a \in Mbuf
    <2>1. Freed(f, k) = h
      BY <1>5, MbufFinite DEF Freed
    <2>2. Clones(f, a) >= 1
      BY <1>0, <1>2, <1>5
    <2>3. a # k
      BY <1>0, <1>5, <2>2
    <2>4. g[a].refcnt >= 1 /\ f[a].refcnt >= 1
      BY <1>0, <1>2, <1>5, <2>2, <2>3 DEF ClonesCounted
    <2> HIDE DEF g, a
    <2>5. /\ MbufsOK(h)
          /\ \A m \in Mbuf :
               /\ h[m].refcnt = g[m].refcnt - (IF m = a THEN 1 ELSE 0)
               /\ h[m].refcnt > 0 => SameContents(h[m], g[m])
          /\ \A m \in Mbuf :
               /\ Clones(h, m) \in Nat /\ Clones(g, m) \in Nat
               /\ Clones(h, m) = Clones(g, m) - (IF g[a].refcnt = 1 /\ g[a].attached = m THEN 1 ELSE 0)
      BY <1>2, <1>5, <2>4, DropLemma
    <2> HIDE DEF h, last
    <2>6. ASSUME NEW m \in Mbuf
          PROVE  /\ h[m].refcnt \in Nat /\ h[m].refcnt <= f[m].refcnt
                 /\ h[m].refcnt - Clones(h, m)
                      >= f[m].refcnt - Clones(f, m) - (IF m = k THEN 1 ELSE 0)
      <3>1. h[m].refcnt = f[m].refcnt - (IF m = k THEN 1 ELSE 0) - (IF m = a THEN 1 ELSE 0)
        BY <1>0, <1>2, <2>5
      <3>2. Clones(h, m) <= Clones(f, m) - (IF m = a THEN 1 ELSE 0)
        BY <1>0, <1>2, <1>5, <2>5
      <3>3. h[m].refcnt \in Nat
        BY <1>0, <1>1, <2>3, <2>4, <3>1
      <3>4. Clones(h, m) \in Nat /\ Clones(f, m) \in Nat /\ f[m].refcnt \in Nat
        BY <1>0, <2>5
      <3> QED  BY <3>1, <3>2, <3>3, <3>4
    <2>7. ASSUME NEW m \in Mbuf, h[m].refcnt > 0 PROVE SameContents(h[m], f[m])
      <3>1. g[m].refcnt > 0
        BY <1>3, <2>5, <2>7
      <3> QED  BY <1>2, <2>5, <2>7, <3>1 DEF SameContents
    <2> QED  BY <1>0, <2>1, <2>5, <2>6, <2>7
  <1> QED  BY <1>4, <1>5

(* The frames that a flush frees are no clones, and each of their mbufs has   *)
(* as many references as it has frames.                                       *)
Freeable(frames, k) ==
  /\ \A i \in (k + 1)..Len(frames) : mbufs[frames[i].mbuf].attached = NoBuf
  /\ \A m \in Mbuf : Later(frames, k, m) <= mbufs[m].refcnt

(* Freeing the frames a NIC did not take lowers their counts, no others.    *)
LEMMA FreedAfterLemma ==
  ASSUME MbufsOK(mbufs), NEW T, NEW frames \in Seq(T), NEW k \in 0..Len(frames),
         Freeable(frames, k)
  PROVE  /\ MbufsOK(FreedAfter(frames, k))
         /\ \A m \in Mbuf :
              /\ mbufs[m].refcnt \in Nat /\ Later(frames, k, m) \in Nat
              /\ FreedAfter(frames, k)[m].refcnt = mbufs[m].refcnt - Later(frames, k, m)
              /\ Clones(FreedAfter(frames, k), m) = Clones(mbufs, m)
              /\ FreedAfter(frames, k)[m].refcnt > 0
                   => SameContents(FreedAfter(frames, k)[m], mbufs[m])
  <1> DEFINE g == FreedAfter(frames, k)
  <1>1. \A m \in Mbuf : MbufOK(mbufs[m]) /\ IsMbuf(mbufs[m]) /\ mbufs[m].refcnt \in Nat
    BY RefcntType DEF MbufsOK, MbufOK
  <1>2. /\ g = [m \in Mbuf |-> g[m]]
        /\ \A m \in Mbuf : g[m] = IF Later(frames, k, m) = mbufs[m].refcnt THEN FreeMbuf
                                  ELSE [mbufs[m] EXCEPT !.refcnt = mbufs[m].refcnt - Later(frames, k, m)]
    BY DEF FreedAfter, Later
  <1>3. ASSUME NEW m \in Mbuf
        PROVE  /\ Later(frames, k, m) \in Nat
               /\ Later(frames, k, m) > 0 => \E i \in (k + 1)..Len(frames) : frames[i].mbuf = m
    <2> DEFINE A == {i \in (k + 1)..Len(frames) : frames[i].mbuf = m}
    <2>1. A \in SUBSET (1..Len(frames)) /\ IsFiniteSet(1..Len(frames))
      BY PositionsFinite
    <2>2. A # {} => \E i \in (k + 1)..Len(frames) : frames[i].mbuf = m
      OBVIOUS
    <2>3. Later(frames, k, m) = Cardinality(A)
      BY DEF Later
    <2> HIDE DEF A
    <2>4. IsFiniteSet(A)
      BY <2>1, FS_Subset
    <2> QED  BY <2>2, <2>3, <2>4, CountsSome
  <1> HIDE DEF g
  <1>4. ASSUME NEW m \in Mbuf
        PROVE  /\ MbufOK(g[m]) /\ g[m].refcnt = mbufs[m].refcnt - Later(frames, k, m)
               /\ g[m].attached = mbufs[m].attached
               /\ g[m].refcnt > 0 => SameContents(g[m], mbufs[m])
    <2>1. mbufs[m].refcnt \in Nat /\ Later(frames, k, m) \in Nat
          /\ Later(frames, k, m) <= mbufs[m].refcnt
      BY <1>1, <1>3 DEF Freeable
    <2>2. CASE Later(frames, k, m) = mbufs[m].refcnt
      <3>1. g[m] = FreeMbuf
        BY <1>2, <2>2
      <3>2. mbufs[m].attached = NoBuf
        <4>1. CASE mbufs[m].refcnt = 0
          BY <1>1, <4>1 DEF MbufOK
        <4>2. CASE mbufs[m].refcnt > 0
          BY <1>3, <2>2, <4>2 DEF Freeable
        <4> QED  BY <2>1, <4>1, <4>2
      <3> QED  BY <2>1, <2>2, <3>1, <3>2, FrameRecords DEF MbufOK
    <2>3. CASE Later(frames, k, m) # mbufs[m].refcnt
      <3> DEFINE n == mbufs[m].refcnt - Later(frames, k, m)
      <3>1. n \in Nat /\ n > 0 /\ g[m] = [mbufs[m] EXCEPT !.refcnt = n]
        BY <1>2, <2>1, <2>3
      <3> HIDE DEF n
      <3>2. IsMbuf(g[m]) /\ g[m].refcnt = n /\ SameContents(g[m], mbufs[m])
        BY <1>1, <3>1, RefcntField DEF SameContents
      <3> QED  BY <3>1, <3>2 DEF MbufOK, n, SameContents
    <2> QED  BY <2>2, <2>3
  <1>5. MbufsOK(g)
    BY <1>2, <1>4 DEF MbufsOK
  <1>6. ASSUME NEW m \in Mbuf PROVE Clones(g, m) = Clones(mbufs, m)
    <2>1. {n \in Mbuf : g[n].attached = m} = {n \in Mbuf : mbufs[n].attached = m}
      BY <1>4
    <2> QED  BY <2>1 DEF Clones
  <1> QED  BY <1>1, <1>3, <1>4, <1>5, <1>6 DEF g

(* An empty queue refers to no mbuf.                                         *)
LEMMA EmptyQueue == \A m : Occurrences(<<>>, m) = 0 /\ InRing(<<>>, m) = 0
  <1> SUFFICES ASSUME NEW m PROVE Occurrences(<<>>, m) = 0 /\ InRing(<<>>, m) = 0
    OBVIOUS
  <1> DEFINE none == <<>>
  <1>1. 1..Len(none) = {}
    OBVIOUS
  <1>2. {i \in 1..Len(none) : none[i].mbuf = m} = {} /\ {i \in 1..Len(none) : none[i] = m} = {}
    BY <1>1
  <1>3. Cardinality({}) = 0
    BY FS_EmptySet
  <1> HIDE DEF none
  <1>4. Occurrences(none, m) = 0 /\ InRing(none, m) = 0
    BY <1>2, <1>3, Zenon DEF Occurrences, InRing, Count
  <1> QED  BY <1>4 DEF none

-----------------------------------------------------------------------------
(* Who holds an mbuf. *)

(* The length of a frame with its header, and the frames of the two queues. *)
FrameLength == PACKET_HDR_LEN + payloadLength
TxFrame == [mbuf : Mbuf, priority : Priorities]
RxFrame == [mbuf : Mbuf, kind : FrameKind]

(* The threads with m in the burst that they work on.                        *)
InBursts(th, m) == Cardinality({t \in DriverThread : Occurrences(th[t].burst, m) > 0})

(* The types of Packets, of what threads are doing, and of the queues.       *)
PacketOK(r) ==
  \/ r.bufType = "MBUF" /\ r.mbuf \in Mbuf
  \/ r.bufType # "MBUF" /\ r.mbuf = NoBuf

(* The pool of Packets is a function of well-formed Packets.                *)
PacketsOK(pool) == pool = [p \in DpdkPacket |-> pool[p]] /\ \A p \in DpdkPacket : PacketOK(pool[p])

(* A thread holds an mbuf only within sendPacket and a burst, of distinct
   mbufs, only within receivePackets.                                       *)
CallOK(r) ==
  /\ IsCall(r)
  /\ IF r.pc = "tx" THEN r.mbuf \in Mbuf /\ r.priority \in Priorities ELSE r.mbuf = NoBuf
  /\ r.burst \in Seq(RxFrame) /\ (r.pc = "rx" <=> Len(r.burst) > 0)
  /\ \A i, j \in 1..Len(r.burst) : r.burst[i].mbuf = r.burst[j].mbuf => i = j

(* Every thread's call is well formed.                                      *)
CallsOK(th) == th = [t \in DriverThread |-> th[t]] /\ \A t \in DriverThread : CallOK(th[t])

(* The types of the four queues.                                            *)
QueuesOK(tx, nic, ring, rx) ==
  /\ tx \in Seq(TxFrame) /\ nic \in SUBSET TxFrame /\ IsFiniteSet(nic)
  /\ ring \in Seq(Mbuf) /\ rx \in Seq(RxFrame)

(* All references to m but those of its clones.                              *)
Held(pool, th, tx, nic, ring, rx, m) ==
  Refs(DpdkPacket, pool, m) + Occurrences(tx, m) + InNic(nic, m)
    + InRing(ring, m) + Occurrences(rx, m) + Refs(DriverThread, th, m) + InBursts(th, m)

(* An mbuf that waits to be sent is no clone and as sendPacket left it.      *)
Kept(f, m, priority) ==
  f[m].attached = NoBuf /\ f[m].priority = priority /\ f[m].length = FrameLength

(* What waits to be sent, wherever it waits, is kept.                       *)
TxKept(f, th, tx, nic) ==
  /\ \A t \in DriverThread : th[t].pc = "tx" => Kept(f, th[t].mbuf, th[t].priority)
  /\ \A i \in 1..Len(tx) : Kept(f, tx[i].mbuf, tx[i].priority)
  /\ \A q \in nic : Kept(f, q.mbuf, q.priority)

(* The Packets that the application allocated hold no clones.                *)
AllocWhole(f, pool) ==
  \A p \in DpdkPacket : pool[p].bufType = "MBUF" /\ pool[p].from = "alloc"
                          => f[pool[p].mbuf].attached = NoBuf

(* A frame that was received has a single reference.                         *)
RxOnce(f, th, ring, rx) ==
  \A m \in Mbuf : InRing(ring, m) + Occurrences(rx, m) + InBursts(th, m) > 0 => f[m].refcnt <= 1

(* A reference count covers the clones and all the places that hold the mbuf. *)
Counted(f, pool, th, tx, nic, ring, rx) ==
  \A m \in Mbuf : f[m].refcnt >= Clones(f, m) + Held(pool, th, tx, nic, ring, rx, m)

(* The inductive invariant of the reference counts.                          *)
CountsOK(f, pool, th, tx, nic, ring, rx) ==
  /\ MbufsOK(f) /\ PacketsOK(pool) /\ CallsOK(th) /\ QueuesOK(tx, nic, ring, rx)
  /\ Counted(f, pool, th, tx, nic, ring, rx)
  /\ TxKept(f, th, tx, nic) /\ AllocWhole(f, pool) /\ RxOnce(f, th, ring, rx)

(* The same with one more reference to k, which is in the hands of the call   *)
(* under way.                                                                 *)
InHand(f, pool, th, tx, nic, ring, rx, k) ==
  /\ CountsOK(f, pool, th, tx, nic, ring, rx)
  /\ k \in Mbuf /\ f[k].refcnt >= Clones(f, k) + Held(pool, th, tx, nic, ring, rx, k) + 1

(* The numbers of references.                                                *)
LEMMA CountTypes ==
  ASSUME NEW f, NEW pool, NEW th, NEW tx, NEW nic, NEW ring, NEW rx, MbufsOK(f),
         PacketsOK(pool), CallsOK(th), QueuesOK(tx, nic, ring, rx), NEW m \in Mbuf
  PROVE  /\ f[m].refcnt \in Nat /\ Clones(f, m) \in Nat
         /\ Refs(DpdkPacket, pool, m) \in Nat /\ Refs(DriverThread, th, m) \in Nat
         /\ Occurrences(tx, m) \in Nat /\ Occurrences(rx, m) \in Nat
         /\ InNic(nic, m) \in Nat /\ InRing(ring, m) \in Nat /\ InBursts(th, m) \in Nat
         /\ Held(pool, th, tx, nic, ring, rx, m) \in Nat
  <1>1. IsFiniteSet(DpdkPacket) /\ IsFiniteSet(DriverThread)
    BY DpdkAssumption, PositionsFinite DEF DpdkPacket
  <1>2. ASSUME NEW D, IsFiniteSet(D), NEW A \in SUBSET D PROVE Cardinality(A) \in Nat
    BY <1>2, FS_Subset, FS_CardinalityType
  <1>3. Clones(f, m) \in Nat
    <2>1. {n \in Mbuf : f[n].attached = m} \in SUBSET Mbuf
      OBVIOUS
    <2> QED  BY <1>2, <2>1, MbufFinite DEF Clones
  <1>4. Refs(DpdkPacket, pool, m) \in Nat
    <2>1. {d \in DpdkPacket : pool[d].mbuf = m} \in SUBSET DpdkPacket
      OBVIOUS
    <2> QED  BY <1>1, <1>2, <2>1 DEF Refs
  <1>5. Refs(DriverThread, th, m) \in Nat
    <2>1. {d \in DriverThread : th[d].mbuf = m} \in SUBSET DriverThread
      OBVIOUS
    <2> QED  BY <1>1, <1>2, <2>1 DEF Refs
  <1>6. InBursts(th, m) \in Nat
    <2>1. {d \in DriverThread : Occurrences(th[d].burst, m) > 0} \in SUBSET DriverThread
      OBVIOUS
    <2> QED  BY <1>1, <1>2, <2>1 DEF InBursts
  <1>7. InNic(nic, m) \in Nat
    <2>1. {g \in nic : g.mbuf = m} \in SUBSET nic
      OBVIOUS
    <2> QED  BY <1>2, <2>1 DEF InNic, QueuesOK
  <1>8. Occurrences(tx, m) \in Nat /\ Occurrences(rx, m) \in Nat /\ InRing(ring, m) \in Nat
    <2>1. tx \in Seq(TxFrame) /\ ring \in Seq(Mbuf) /\ rx \in Seq(RxFrame)
      BY DEF QueuesOK
    <2>2. Occurrences(tx, m) \in Nat
      BY <2>1, OccursSomewhere
    <2>3. Occurrences(rx, m) \in Nat
      BY <2>1, OccursSomewhere
    <2>4. InRing(ring, m) \in Nat
      BY <2>1, OccursSomewhere
    <2> QED  BY <2>2, <2>3, <2>4
  <1>9. f[m].refcnt \in Nat
    BY RefcntType DEF MbufsOK, MbufOK
  <1> QED  BY <1>3, <1>4, <1>5, <1>6, <1>7, <1>8, <1>9 DEF Held

(* The mbuf in a call.                                                       *)
LEMMA CallTypes ==
  ASSUME NEW r, CallOK(r)
  PROVE  /\ IF r.pc = "tx" THEN r.mbuf \in Mbuf /\ r.priority \in Priorities ELSE r.mbuf = NoBuf
         /\ r.burst \in Seq(RxFrame) /\ (r.pc = "rx" <=> Len(r.burst) > 0)
  BY Zenon DEF CallOK

(* The mbufs that wait to be sent are mbufs.                                 *)
LEMMA FrameTypes ==
  ASSUME NEW th, CallsOK(th), NEW tx, NEW nic, NEW ring, NEW rx, QueuesOK(tx, nic, ring, rx)
  PROVE  /\ \A t \in DriverThread : th[t].pc = "tx" => th[t].mbuf \in Mbuf
         /\ \A i \in 1..Len(tx) : tx[i].mbuf \in Mbuf
         /\ \A q \in nic : q.mbuf \in Mbuf
         /\ \A i \in 1..Len(ring) : ring[i] \in Mbuf
         /\ \A i \in 1..Len(rx) : rx[i].mbuf \in Mbuf
  <1>1. \A q \in TxFrame : q.mbuf \in Mbuf
    BY DEF TxFrame
  <1>2. \A q \in RxFrame : q.mbuf \in Mbuf
    BY DEF RxFrame
  <1>3. \A t \in DriverThread : th[t].pc = "tx" => th[t].mbuf \in Mbuf
    <2> SUFFICES ASSUME NEW t \in DriverThread, th[t].pc = "tx" PROVE th[t].mbuf \in Mbuf
      OBVIOUS
    <2>1. CallOK(th[t])
      BY DEF CallsOK
    <2> QED  BY <2>1, CallTypes
  <1>4. tx \in Seq(TxFrame) /\ nic \in SUBSET TxFrame /\ ring \in Seq(Mbuf) /\ rx \in Seq(RxFrame)
    BY DEF QueuesOK
  <1>5. /\ \A i \in 1..Len(tx) : tx[i] \in TxFrame
        /\ \A i \in 1..Len(ring) : ring[i] \in Mbuf
        /\ \A i \in 1..Len(rx) : rx[i] \in RxFrame
    BY <1>4
  <1> QED  BY <1>1, <1>2, <1>3, <1>4, <1>5

(* Whatever has an mbuf is counted.                                          *)
LEMMA HeldPlaces ==
  ASSUME NEW pool, NEW th, NEW tx, NEW nic, NEW ring, NEW rx, NEW f, MbufsOK(f),
         PacketsOK(pool), CallsOK(th), QueuesOK(tx, nic, ring, rx)
  PROVE  /\ \A t \in DriverThread : th[t].pc = "tx" =>
              th[t].mbuf \in Mbuf /\ Held(pool, th, tx, nic, ring, rx, th[t].mbuf) > 0
         /\ \A i \in 1..Len(tx) :
              tx[i].mbuf \in Mbuf /\ Held(pool, th, tx, nic, ring, rx, tx[i].mbuf) > 0
         /\ \A q \in nic : q.mbuf \in Mbuf /\ Held(pool, th, tx, nic, ring, rx, q.mbuf) > 0
         /\ \A p \in DpdkPacket : pool[p].bufType = "MBUF" =>
              pool[p].mbuf \in Mbuf /\ Held(pool, th, tx, nic, ring, rx, pool[p].mbuf) > 0
  <1>1. \A m \in Mbuf :
         /\ Refs(DpdkPacket, pool, m) \in Nat /\ Refs(DriverThread, th, m) \in Nat
         /\ Occurrences(tx, m) \in Nat /\ Occurrences(rx, m) \in Nat
         /\ InNic(nic, m) \in Nat /\ InRing(ring, m) \in Nat /\ InBursts(th, m) \in Nat
    BY CountTypes
  <1>2. IsFiniteSet(DpdkPacket) /\ IsFiniteSet(DriverThread) /\ IsFiniteSet(nic)
    BY DpdkAssumption, PositionsFinite DEF DpdkPacket, QueuesOK
  <1>3. ASSUME NEW D, IsFiniteSet(D), NEW g, NEW d \in D PROVE Refs(D, g, g[d].mbuf) > 0
    <2> DEFINE A == {e \in D : g[e].mbuf = g[d].mbuf}
    <2>1. A \in SUBSET D /\ A # {}
      OBVIOUS
    <2>2. Cardinality(A) > 0
      <3> HIDE DEF A
      <3> QED  BY <1>3, <2>1, FS_Subset, CountsSome
    <2> QED  BY <2>2 DEF Refs
  <1>4. ASSUME NEW t \in DriverThread, th[t].pc = "tx"
        PROVE  th[t].mbuf \in Mbuf /\ Held(pool, th, tx, nic, ring, rx, th[t].mbuf) > 0
    <2>1. th[t].mbuf \in Mbuf /\ Refs(DriverThread, th, th[t].mbuf) > 0
      BY <1>2, <1>3, <1>4, FrameTypes
    <2> QED  BY <1>1, <2>1 DEF Held
  <1>5. ASSUME NEW i \in 1..Len(tx)
        PROVE  tx[i].mbuf \in Mbuf /\ Held(pool, th, tx, nic, ring, rx, tx[i].mbuf) > 0
    <2>1. tx[i].mbuf \in Mbuf /\ tx \in Seq(TxFrame)
      BY FrameTypes DEF QueuesOK
    <2>2. Occurrences(tx, tx[i].mbuf) > 0
      BY <2>1, OccursSomewhere
    <2> QED  BY <1>1, <2>1, <2>2 DEF Held
  <1>6. ASSUME NEW q \in nic
        PROVE  q.mbuf \in Mbuf /\ Held(pool, th, tx, nic, ring, rx, q.mbuf) > 0
    <2> DEFINE A == {g \in nic : g.mbuf = q.mbuf}
    <2>1. A \in SUBSET nic /\ A # {}
      OBVIOUS
    <2>2. Cardinality(A) > 0
      <3> HIDE DEF A
      <3> QED  BY <1>2, <2>1, FS_Subset, CountsSome
    <2>3. InNic(nic, q.mbuf) > 0 /\ q.mbuf \in Mbuf
      BY <2>2, FrameTypes DEF InNic
    <2> QED  BY <1>1, <2>3 DEF Held
  <1>7. ASSUME NEW p \in DpdkPacket, pool[p].bufType = "MBUF"
        PROVE  pool[p].mbuf \in Mbuf /\ Held(pool, th, tx, nic, ring, rx, pool[p].mbuf) > 0
    <2>1. pool[p].mbuf \in Mbuf
      BY <1>7 DEF PacketsOK, PacketOK
    <2>2. Refs(DpdkPacket, pool, pool[p].mbuf) > 0
      BY <1>2, <1>3
    <2> QED  BY <1>1, <2>1, <2>2 DEF Held
  <1> QED  BY <1>4, <1>5, <1>6, <1>7

(* An mbuf without references other than those of Packets is nowhere else.   *)
LEMMA NowhereElse ==
  ASSUME NEW f, NEW pool, NEW th, NEW tx, NEW nic, NEW ring, NEW rx,
         CountsOK(f, pool, th, tx, nic, ring, rx), NEW k \in Mbuf,
         f[k].refcnt <= Refs(DpdkPacket, pool, k)
  PROVE  /\ f[k].refcnt = Refs(DpdkPacket, pool, k) /\ Clones(f, k) = 0
         /\ Held(pool, th, tx, nic, ring, rx, k) = Refs(DpdkPacket, pool, k)
         /\ InRing(ring, k) = 0 /\ Occurrences(rx, k) = 0 /\ InBursts(th, k) = 0
         /\ \A t \in DriverThread : th[t].mbuf # k
         /\ \A i \in 1..Len(tx) : tx[i].mbuf # k
         /\ \A q \in nic : q.mbuf # k
  <1>1. /\ f[k].refcnt \in Nat /\ Clones(f, k) \in Nat
        /\ Refs(DpdkPacket, pool, k) \in Nat /\ Refs(DriverThread, th, k) \in Nat
        /\ Occurrences(tx, k) \in Nat /\ Occurrences(rx, k) \in Nat
        /\ InNic(nic, k) \in Nat /\ InRing(ring, k) \in Nat /\ InBursts(th, k) \in Nat
    BY CountTypes DEF CountsOK
  <1>2. f[k].refcnt >= Clones(f, k) + Held(pool, th, tx, nic, ring, rx, k)
    BY DEF CountsOK, Counted
  <1>3. /\ f[k].refcnt = Refs(DpdkPacket, pool, k) /\ Clones(f, k) = 0
        /\ Refs(DriverThread, th, k) = 0 /\ Occurrences(tx, k) = 0 /\ InNic(nic, k) = 0
        /\ InRing(ring, k) = 0 /\ Occurrences(rx, k) = 0 /\ InBursts(th, k) = 0
        /\ Held(pool, th, tx, nic, ring, rx, k) = Refs(DpdkPacket, pool, k)
    <2>1. ASSUME NEW r \in Nat, NEW c \in Nat, NEW p \in Nat, NEW a \in Nat, NEW b \in Nat,
                 NEW d \in Nat, NEW e \in Nat, NEW g \in Nat, NEW h \in Nat,
                 r <= p, r >= c + (p + a + b + d + e + g + h)
          PROVE  /\ r = p /\ c = 0 /\ a = 0 /\ b = 0 /\ d = 0 /\ e = 0 /\ g = 0 /\ h = 0
                 /\ p + a + b + d + e + g + h = p
      BY <2>1
    <2>2. f[k].refcnt >= Clones(f, k) + (Refs(DpdkPacket, pool, k) + Occurrences(tx, k) + InNic(nic, k)
            + InRing(ring, k) + Occurrences(rx, k) + Refs(DriverThread, th, k) + InBursts(th, k))
      BY <1>2 DEF Held
    <2>3. /\ f[k].refcnt = Refs(DpdkPacket, pool, k) /\ Clones(f, k) = 0
          /\ Refs(DriverThread, th, k) = 0 /\ Occurrences(tx, k) = 0 /\ InNic(nic, k) = 0
          /\ InRing(ring, k) = 0 /\ Occurrences(rx, k) = 0 /\ InBursts(th, k) = 0
      BY <1>1, <2>1, <2>2
    <2> QED  BY <1>1, <2>3 DEF Held
  <1>4. \A i \in 1..Len(tx) : tx[i].mbuf # k
    <2>1. tx \in Seq(TxFrame)
      BY DEF CountsOK, QueuesOK
    <2>2. Occurrences(tx, k) > 0 <=> \E i \in 1..Len(tx) : tx[i].mbuf = k
      BY <2>1, OccursSomewhere
    <2> QED  BY <1>3, <2>2
  <1>5. \A q \in nic : q.mbuf # k
    <2> DEFINE A == {g \in nic : g.mbuf = k}
    <2>1. A \in SUBSET nic /\ IsFiniteSet(nic)
      BY DEF CountsOK, QueuesOK
    <2>2. Cardinality(A) = 0
      BY <1>3 DEF InNic
    <2>3. A = {}
      <3> HIDE DEF A
      <3> QED  BY <2>1, <2>2, FS_Subset, FS_EmptySet
    <2> QED  BY <2>3
  <1>6. \A t \in DriverThread : th[t].mbuf # k
    <2> DEFINE A == {t \in DriverThread : th[t].mbuf = k}
    <2>1. A \in SUBSET DriverThread /\ IsFiniteSet(DriverThread)
      BY DpdkAssumption
    <2>2. Cardinality(A) = 0
      BY <1>3 DEF Refs
    <2>3. A = {}
      <3> HIDE DEF A
      <3> QED  BY <2>1, <2>2, FS_Subset, FS_EmptySet
    <2> QED  BY <2>3
  <1> QED  BY <1>3, <1>4, <1>5, <1>6

(* An mbuf that nothing else refers to is written: it may get references.    *)
LEMMA WriteLemma ==
  ASSUME NEW f, NEW pool, NEW th, NEW tx, NEW nic, NEW ring, NEW rx,
         CountsOK(f, pool, th, tx, nic, ring, rx), NEW k \in Mbuf,
         f[k].refcnt <= Refs(DpdkPacket, pool, k), f[k].attached = NoBuf,
         NEW rec, MbufOK(rec), rec.attached = NoBuf,
         rec.refcnt >= Refs(DpdkPacket, pool, k)
  PROVE  /\ CountsOK(Put(f, k, rec), pool, th, tx, nic, ring, rx)
         /\ rec.refcnt >= Refs(DpdkPacket, pool, k) + 1
              => InHand(Put(f, k, rec), pool, th, tx, nic, ring, rx, k)
  <1> DEFINE g == Put(f, k, rec)
  <1>1. MbufsOK(f) /\ PacketsOK(pool) /\ CallsOK(th) /\ QueuesOK(tx, nic, ring, rx)
    BY DEF CountsOK
  <1>2. /\ MbufsOK(g)
        /\ \A m \in Mbuf : g[m] = IF m = k THEN rec ELSE f[m]
        /\ \A m \in Mbuf : Clones(g, m) = Clones(f, m) /\ Clones(f, m) \in Nat
    <2>1. /\ MbufsOK(g)
          /\ \A m \in Mbuf :
              /\ g[m] = IF m = k THEN rec ELSE f[m]
              /\ Clones(f, m) \in Nat
              /\ Clones(g, m) = Clones(f, m) - (IF f[k].attached = m THEN 1 ELSE 0)
                                             + (IF rec.attached = m THEN 1 ELSE 0)
      BY <1>1, ClonesChange
    <2> HIDE DEF g
    <2> QED  BY <2>1, MbufFinite
  <1>3. /\ Clones(f, k) = 0
        /\ Held(pool, th, tx, nic, ring, rx, k) = Refs(DpdkPacket, pool, k)
        /\ InRing(ring, k) = 0 /\ Occurrences(rx, k) = 0 /\ InBursts(th, k) = 0
        /\ \A t \in DriverThread : th[t].mbuf # k
        /\ \A i \in 1..Len(tx) : tx[i].mbuf # k
        /\ \A q \in nic : q.mbuf # k
    BY NowhereElse
  <1>4. Refs(DpdkPacket, pool, k) \in Nat
    BY <1>1, CountTypes
  <1> HIDE DEF g
  <1>5. Counted(g, pool, th, tx, nic, ring, rx)
    <2>1. Counted(f, pool, th, tx, nic, ring, rx)
      BY DEF CountsOK
    <2> QED  BY <1>2, <1>3, <1>4, <2>1 DEF Counted
  <1>6. TxKept(g, th, tx, nic)
    <2>1. TxKept(f, th, tx, nic)
      BY DEF CountsOK
    <2>2. /\ \A t \in DriverThread : th[t].pc = "tx" => th[t].mbuf \in Mbuf
          /\ \A i \in 1..Len(tx) : tx[i].mbuf \in Mbuf
          /\ \A q \in nic : q.mbuf \in Mbuf
      BY <1>1, FrameTypes
    <2> QED  BY <1>2, <1>3, <2>1, <2>2 DEF TxKept, Kept
  <1>7. AllocWhole(g, pool)
    <2>1. AllocWhole(f, pool)
      BY DEF CountsOK
    <2>2. \A p \in DpdkPacket : pool[p].bufType = "MBUF" => pool[p].mbuf \in Mbuf
      BY <1>1 DEF PacketsOK, PacketOK
    <2> QED  BY <1>2, <2>1, <2>2 DEF AllocWhole
  <1>8. RxOnce(g, th, ring, rx)
    <2>1. RxOnce(f, th, ring, rx)
      BY DEF CountsOK
    <2> QED  BY <1>2, <1>3, <2>1 DEF RxOnce
  <1>9. CountsOK(g, pool, th, tx, nic, ring, rx)
    BY <1>1, <1>2, <1>5, <1>6, <1>7, <1>8 DEF CountsOK
  <1>10. ASSUME rec.refcnt >= Refs(DpdkPacket, pool, k) + 1
         PROVE  InHand(g, pool, th, tx, nic, ring, rx, k)
    BY <1>2, <1>3, <1>4, <1>9, <1>10 DEF InHand
  <1> QED  BY <1>9, <1>10 DEF g

(* Changing one Packet changes what it holds.                                *)
LEMMA HeldPacket ==
  ASSUME NEW pool, NEW th, NEW tx, NEW nic, NEW ring, NEW rx, NEW f, MbufsOK(f),
         PacketsOK(pool), CallsOK(th), QueuesOK(tx, nic, ring, rx),
         NEW q \in DpdkPacket, NEW rec, PacketOK(rec)
  PROVE  /\ PacketsOK(Put(pool, q, rec))
         /\ \A p \in DpdkPacket : Put(pool, q, rec)[p] = IF p = q THEN rec ELSE pool[p]
         /\ \A m \in Mbuf :
              /\ Held(pool, th, tx, nic, ring, rx, m) \in Nat
              /\ Held(Put(pool, q, rec), th, tx, nic, ring, rx, m) \in Nat
              /\ Held(Put(pool, q, rec), th, tx, nic, ring, rx, m) =
                   Held(pool, th, tx, nic, ring, rx, m) - (IF pool[q].mbuf = m THEN 1 ELSE 0)
                                                        + (IF rec.mbuf = m THEN 1 ELSE 0)
  <1> DEFINE new == Put(pool, q, rec)
  <1>1. pool = [p \in DpdkPacket |-> pool[p]]
    BY DEF PacketsOK
  <1>2. new = [pool EXCEPT ![q] = rec]
    BY DEF Put
  <1>3. new = [p \in DpdkPacket |-> new[p]] /\ \A p \in DpdkPacket : new[p] = IF p = q THEN rec ELSE pool[p]
    BY <1>1, <1>2
  <1> HIDE DEF new
  <1>4. PacketsOK(new)
    BY <1>3 DEF PacketsOK
  <1>5. IsFiniteSet(DpdkPacket)
    BY DpdkAssumption, PositionsFinite DEF DpdkPacket
  <1>6. ASSUME NEW m \in Mbuf
        PROVE  /\ Held(pool, th, tx, nic, ring, rx, m) \in Nat
               /\ Held(new, th, tx, nic, ring, rx, m) \in Nat
               /\ Held(new, th, tx, nic, ring, rx, m) =
                    Held(pool, th, tx, nic, ring, rx, m) - (IF pool[q].mbuf = m THEN 1 ELSE 0)
                                                         + (IF rec.mbuf = m THEN 1 ELSE 0)
    <2>1. /\ Refs(DpdkPacket, pool, m) \in Nat
          /\ Refs(DpdkPacket, new, m) = Refs(DpdkPacket, pool, m)
               - (IF pool[q].mbuf = m THEN 1 ELSE 0) + (IF rec.mbuf = m THEN 1 ELSE 0)
      BY <1>1, <1>2, <1>5, RefsChange
    <2>2. /\ Refs(DriverThread, th, m) \in Nat
          /\ Occurrences(tx, m) \in Nat /\ Occurrences(rx, m) \in Nat
          /\ InNic(nic, m) \in Nat /\ InRing(ring, m) \in Nat /\ InBursts(th, m) \in Nat
          /\ Held(pool, th, tx, nic, ring, rx, m) \in Nat
      BY CountTypes
    <2>3. Held(new, th, tx, nic, ring, rx, m) \in Nat
      BY <1>4, CountTypes
    <2> QED  BY <2>1, <2>2, <2>3 DEF Held
  <1> QED  BY <1>3, <1>4, <1>6 DEF new

(* A reference to k that a call has passes to a Packet.                      *)
LEMMA GivePacket ==
  ASSUME NEW f, NEW pool, NEW th, NEW tx, NEW nic, NEW ring, NEW rx, NEW k,
         InHand(f, pool, th, tx, nic, ring, rx, k),
         NEW q \in DpdkPacket, pool[q].mbuf = NoBuf, NEW rec, PacketOK(rec), rec.mbuf = k,
         rec.from = "alloc" => f[k].attached = NoBuf
  PROVE  CountsOK(f, Put(pool, q, rec), th, tx, nic, ring, rx)
  <1> DEFINE new == Put(pool, q, rec)
  <1>1. /\ MbufsOK(f) /\ PacketsOK(pool) /\ CallsOK(th) /\ QueuesOK(tx, nic, ring, rx)
        /\ Counted(f, pool, th, tx, nic, ring, rx) /\ AllocWhole(f, pool)
        /\ TxKept(f, th, tx, nic) /\ RxOnce(f, th, ring, rx)
        /\ k \in Mbuf /\ f[k].refcnt >= Clones(f, k) + Held(pool, th, tx, nic, ring, rx, k) + 1
    BY DEF InHand, CountsOK
  <1>2. /\ PacketsOK(new)
        /\ \A p \in DpdkPacket : new[p] = IF p = q THEN rec ELSE pool[p]
        /\ \A m \in Mbuf :
              /\ Held(pool, th, tx, nic, ring, rx, m) \in Nat
              /\ Held(new, th, tx, nic, ring, rx, m) =
                   Held(pool, th, tx, nic, ring, rx, m) - (IF pool[q].mbuf = m THEN 1 ELSE 0)
                                                        + (IF rec.mbuf = m THEN 1 ELSE 0)
    BY <1>1, HeldPacket
  <1> HIDE DEF new
  <1>3. \A m \in Mbuf : f[m].refcnt \in Nat /\ Clones(f, m) \in Nat
    BY <1>1, CountTypes
  <1>4. Counted(f, new, th, tx, nic, ring, rx)
    BY <1>1, <1>2, <1>3, MbufFinite DEF Counted
  <1>5. AllocWhole(f, new)
    BY <1>1, <1>2 DEF AllocWhole
  <1> QED  BY <1>1, <1>2, <1>4, <1>5 DEF CountsOK, new

(* A Packet that holds no mbuf, before and after.                            *)
LEMMA OtherPacket ==
  ASSUME NEW f, NEW pool, NEW th, NEW tx, NEW nic, NEW ring, NEW rx,
         CountsOK(f, pool, th, tx, nic, ring, rx),
         NEW q \in DpdkPacket, pool[q].mbuf = NoBuf, NEW rec, PacketOK(rec), rec.mbuf = NoBuf
  PROVE  CountsOK(f, Put(pool, q, rec), th, tx, nic, ring, rx)
  <1> DEFINE new == Put(pool, q, rec)
  <1>1. /\ MbufsOK(f) /\ PacketsOK(pool) /\ CallsOK(th) /\ QueuesOK(tx, nic, ring, rx)
        /\ Counted(f, pool, th, tx, nic, ring, rx) /\ AllocWhole(f, pool)
        /\ TxKept(f, th, tx, nic) /\ RxOnce(f, th, ring, rx)
    BY DEF CountsOK
  <1>2. /\ PacketsOK(new)
        /\ \A p \in DpdkPacket : new[p] = IF p = q THEN rec ELSE pool[p]
        /\ \A m \in Mbuf :
              /\ Held(pool, th, tx, nic, ring, rx, m) \in Nat
              /\ Held(new, th, tx, nic, ring, rx, m) =
                   Held(pool, th, tx, nic, ring, rx, m) - (IF pool[q].mbuf = m THEN 1 ELSE 0)
                                                        + (IF rec.mbuf = m THEN 1 ELSE 0)
    BY <1>1, HeldPacket
  <1> HIDE DEF new
  <1>3. Counted(f, new, th, tx, nic, ring, rx)
    BY <1>1, <1>2, MbufFinite DEF Counted
  <1>4. AllocWhole(f, new)
    <2>1. rec.bufType # "MBUF"
      BY MbufFinite DEF PacketOK
    <2> QED  BY <1>1, <1>2, <2>1 DEF AllocWhole
  <1> QED  BY <1>1, <1>2, <1>3, <1>4 DEF CountsOK, new

(* A Packet gives its reference back to the call.                            *)
LEMMA TakePacket ==
  ASSUME NEW f, NEW pool, NEW th, NEW tx, NEW nic, NEW ring, NEW rx,
         CountsOK(f, pool, th, tx, nic, ring, rx),
         NEW q \in DpdkPacket, pool[q].mbuf \in Mbuf, NEW rec, PacketOK(rec), rec.mbuf = NoBuf
  PROVE  InHand(f, Put(pool, q, rec), th, tx, nic, ring, rx, pool[q].mbuf)
  <1> DEFINE new == Put(pool, q, rec)
             k == pool[q].mbuf
  <1>1. /\ MbufsOK(f) /\ PacketsOK(pool) /\ CallsOK(th) /\ QueuesOK(tx, nic, ring, rx)
        /\ Counted(f, pool, th, tx, nic, ring, rx) /\ AllocWhole(f, pool)
        /\ TxKept(f, th, tx, nic) /\ RxOnce(f, th, ring, rx)
    BY DEF CountsOK
  <1>2. /\ PacketsOK(new)
        /\ \A p \in DpdkPacket : new[p] = IF p = q THEN rec ELSE pool[p]
        /\ \A m \in Mbuf :
              /\ Held(pool, th, tx, nic, ring, rx, m) \in Nat
              /\ Held(new, th, tx, nic, ring, rx, m) =
                   Held(pool, th, tx, nic, ring, rx, m) - (IF k = m THEN 1 ELSE 0)
                                                        + (IF rec.mbuf = m THEN 1 ELSE 0)
    BY <1>1, HeldPacket
  <1> HIDE DEF new, k
  <1>3. \A m \in Mbuf : f[m].refcnt \in Nat /\ Clones(f, m) \in Nat
    BY <1>1, CountTypes
  <1>4. k \in Mbuf
    BY DEF k
  <1>5. Counted(f, new, th, tx, nic, ring, rx)
    BY <1>1, <1>2, <1>3, MbufFinite DEF Counted
  <1>6. f[k].refcnt >= Clones(f, k) + Held(new, th, tx, nic, ring, rx, k) + 1
    BY <1>1, <1>2, <1>3, <1>4, MbufFinite DEF Counted
  <1>7. AllocWhole(f, new)
    <2>1. rec.bufType # "MBUF"
      BY MbufFinite DEF PacketOK
    <2> QED  BY <1>1, <1>2, <2>1 DEF AllocWhole
  <1>8. CountsOK(f, new, th, tx, nic, ring, rx)
    BY <1>1, <1>2, <1>5, <1>7 DEF CountsOK
  <1>9. InHand(f, new, th, tx, nic, ring, rx, k)
    BY <1>4, <1>6, <1>8 DEF InHand
  <1> QED  BY <1>9 DEF new, k

(* The call frees its reference.                                             *)
LEMMA FreeHand ==
  ASSUME NEW f, NEW pool, NEW th, NEW tx, NEW nic, NEW ring, NEW rx, NEW k,
         InHand(f, pool, th, tx, nic, ring, rx, k)
  PROVE  CountsOK(Freed(f, k), pool, th, tx, nic, ring, rx)
  <1> DEFINE g == Freed(f, k)
  <1>1. /\ MbufsOK(f) /\ PacketsOK(pool) /\ CallsOK(th) /\ QueuesOK(tx, nic, ring, rx)
        /\ Counted(f, pool, th, tx, nic, ring, rx) /\ AllocWhole(f, pool)
        /\ TxKept(f, th, tx, nic) /\ RxOnce(f, th, ring, rx)
        /\ k \in Mbuf /\ f[k].refcnt >= Clones(f, k) + Held(pool, th, tx, nic, ring, rx, k) + 1
    BY DEF InHand, CountsOK
  <1>2. \A m \in Mbuf : /\ f[m].refcnt \in Nat /\ Clones(f, m) \in Nat
                        /\ Held(pool, th, tx, nic, ring, rx, m) \in Nat
    BY <1>1, CountTypes
  <1>3. ClonesCounted(f) /\ f[k].refcnt >= Clones(f, k) + 1
    BY <1>1, <1>2 DEF Counted, ClonesCounted
  <1>4. /\ MbufsOK(g)
        /\ \A m \in Mbuf :
              /\ g[m].refcnt \in Nat /\ Clones(g, m) \in Nat
              /\ g[m].refcnt - Clones(g, m) >= f[m].refcnt - Clones(f, m) - (IF m = k THEN 1 ELSE 0)
              /\ g[m].refcnt <= f[m].refcnt
              /\ g[m].refcnt > 0 => SameContents(g[m], f[m])
    BY <1>1, <1>3, FreedLemma
  <1> HIDE DEF g
  <1>5. Counted(g, pool, th, tx, nic, ring, rx)
    BY <1>1, <1>2, <1>4 DEF Counted
  <1>6. ASSUME NEW m \in Mbuf, Held(pool, th, tx, nic, ring, rx, m) > 0
        PROVE  SameContents(g[m], f[m])
    BY <1>2, <1>4, <1>5, <1>6 DEF Counted
  <1>7. TxKept(g, th, tx, nic)
    BY <1>1, <1>6, HeldPlaces DEF TxKept, Kept, SameContents
  <1>8. AllocWhole(g, pool)
    BY <1>1, <1>6, HeldPlaces DEF AllocWhole, SameContents
  <1>9. RxOnce(g, th, ring, rx)
    BY <1>1, <1>2, <1>4 DEF RxOnce
  <1> QED  BY <1>1, <1>4, <1>5, <1>7, <1>8, <1>9 DEF CountsOK, g

-----------------------------------------------------------------------------
(* What the threads hold. *)

(* Changing what one thread is doing.                                        *)
LEMMA ThreadCounts ==
  ASSUME NEW th, CallsOK(th), NEW t \in DriverThread, NEW rec, CallOK(rec)
  PROVE  /\ CallsOK(Put(th, t, rec))
         /\ \A u \in DriverThread : Put(th, t, rec)[u] = IF u = t THEN rec ELSE th[u]
         /\ \A m \in Mbuf :
              /\ Refs(DriverThread, th, m) \in Nat /\ InBursts(th, m) \in Nat
              /\ Refs(DriverThread, Put(th, t, rec), m) \in Nat /\ InBursts(Put(th, t, rec), m) \in Nat
              /\ Refs(DriverThread, Put(th, t, rec), m) = Refs(DriverThread, th, m)
                   - (IF th[t].mbuf = m THEN 1 ELSE 0) + (IF rec.mbuf = m THEN 1 ELSE 0)
              /\ InBursts(Put(th, t, rec), m) = InBursts(th, m)
                   - (IF Occurrences(th[t].burst, m) > 0 THEN 1 ELSE 0)
                   + (IF Occurrences(rec.burst, m) > 0 THEN 1 ELSE 0)
  <1> DEFINE new == Put(th, t, rec)
  <1>1. th = [u \in DriverThread |-> th[u]] /\ \A u \in DriverThread : CallOK(th[u])
    BY DEF CallsOK
  <1>2. new = [th EXCEPT ![t] = rec]
    BY DEF Put
  <1>3. /\ new = [u \in DriverThread |-> new[u]]
        /\ \A u \in DriverThread : new[u] = IF u = t THEN rec ELSE th[u]
    BY <1>1, <1>2
  <1> HIDE DEF new
  <1>4. CallsOK(new)
    <2>1. \A u \in DriverThread : CallOK(new[u])
      BY <1>1, <1>3
    <2> QED  BY <1>3, <2>1 DEF CallsOK
  <1>5. IsFiniteSet(DriverThread)
    BY DpdkAssumption
  <1>6. ASSUME NEW m \in Mbuf
        PROVE  /\ Refs(DriverThread, th, m) \in Nat /\ Refs(DriverThread, new, m) \in Nat
               /\ Refs(DriverThread, new, m) = Refs(DriverThread, th, m)
                    - (IF th[t].mbuf = m THEN 1 ELSE 0) + (IF rec.mbuf = m THEN 1 ELSE 0)
    BY <1>1, <1>2, <1>5, RefsChange
  <1>7. ASSUME NEW m \in Mbuf
        PROVE  /\ InBursts(th, m) \in Nat /\ InBursts(new, m) \in Nat
               /\ InBursts(new, m) = InBursts(th, m)
                    - (IF Occurrences(th[t].burst, m) > 0 THEN 1 ELSE 0)
                    + (IF Occurrences(rec.burst, m) > 0 THEN 1 ELSE 0)
    <2> DEFINE A == {u \in DriverThread : Occurrences(th[u].burst, m) > 0}
               B == {u \in DriverThread : Occurrences(new[u].burst, m) > 0}
    <2>1. A \in SUBSET DriverThread /\ B \in SUBSET DriverThread
      OBVIOUS
    <2>2. A \ {t} = B \ {t}
      BY <1>3
    <2>3. (t \in A <=> Occurrences(th[t].burst, m) > 0) /\ (t \in B <=> Occurrences(rec.burst, m) > 0)
      BY <1>3
    <2>4. InBursts(th, m) = Cardinality(A) /\ InBursts(new, m) = Cardinality(B)
      BY DEF InBursts
    <2> HIDE DEF A, B
    <2>5. /\ Cardinality(A) \in Nat /\ Cardinality(B) \in Nat
          /\ Cardinality(B) = Cardinality(A) - (IF t \in A THEN 1 ELSE 0)
                                             + (IF t \in B THEN 1 ELSE 0)
      BY <1>5, <2>1, <2>2, OneChanges
    <2> QED  BY <2>3, <2>4, <2>5
  <1> QED  BY <1>3, <1>4, <1>6, <1>7 DEF new

(* A thread without a burst has no mbuf in it.                               *)
LEMMA NoBurst ==
  ASSUME NEW r, CallOK(r), r.pc # "rx"
  PROVE  \A m : Occurrences(r.burst, m) = 0
  <1>1. r.burst \in Seq(RxFrame) /\ ~(Len(r.burst) > 0)
    BY CallTypes
  <1> DEFINE b == r.burst
  <1> HIDE DEF b
  <1>2. b \in Seq(RxFrame) /\ ~(Len(b) > 0)
    BY <1>1 DEF b
  <1>3. ASSUME NEW m PROVE Occurrences(b, m) = 0
    <2>1. Occurrences(b, m) \in Nat /\ (Occurrences(b, m) > 0 <=> \E i \in 1..Len(b) : b[i].mbuf = m)
      BY <1>2, OccursSomewhere
    <2>2. Len(b) = 0
      BY <1>2
    <2> QED  BY <2>1, <2>2
  <1> QED  BY <1>3 DEF b

(* A thread that holds nothing goes on and still holds nothing.              *)
LEMMA NeutralCall ==
  ASSUME NEW f, NEW pool, NEW th, NEW tx, NEW nic, NEW ring, NEW rx,
         CountsOK(f, pool, th, tx, nic, ring, rx),
         NEW t \in DriverThread, th[t].pc \notin {"tx", "rx"},
         NEW rec, CallOK(rec), rec.pc \notin {"tx", "rx"}
  PROVE  CountsOK(f, pool, Put(th, t, rec), tx, nic, ring, rx)
  <1> DEFINE new == Put(th, t, rec)
  <1>1. /\ MbufsOK(f) /\ PacketsOK(pool) /\ CallsOK(th) /\ QueuesOK(tx, nic, ring, rx)
        /\ Counted(f, pool, th, tx, nic, ring, rx) /\ AllocWhole(f, pool)
        /\ TxKept(f, th, tx, nic) /\ RxOnce(f, th, ring, rx)
    BY DEF CountsOK
  <1>2. CallOK(th[t])
    BY <1>1 DEF CallsOK
  <1>3. /\ th[t].mbuf = NoBuf /\ rec.mbuf = NoBuf
        /\ \A m \in Mbuf : Occurrences(th[t].burst, m) = 0 /\ Occurrences(rec.burst, m) = 0
    BY <1>2, CallTypes, NoBurst
  <1>4. /\ CallsOK(new)
        /\ \A u \in DriverThread : new[u] = IF u = t THEN rec ELSE th[u]
        /\ \A m \in Mbuf :
              /\ Refs(DriverThread, th, m) \in Nat /\ InBursts(th, m) \in Nat
              /\ Refs(DriverThread, new, m) = Refs(DriverThread, th, m)
                   - (IF th[t].mbuf = m THEN 1 ELSE 0) + (IF rec.mbuf = m THEN 1 ELSE 0)
              /\ InBursts(new, m) = InBursts(th, m)
                   - (IF Occurrences(th[t].burst, m) > 0 THEN 1 ELSE 0)
                   + (IF Occurrences(rec.burst, m) > 0 THEN 1 ELSE 0)
    BY <1>1, ThreadCounts
  <1> HIDE DEF new
  <1>5. \A m \in Mbuf : Refs(DriverThread, new, m) = Refs(DriverThread, th, m)
                        /\ InBursts(new, m) = InBursts(th, m)
    BY <1>3, <1>4, MbufFinite
  <1>6. Counted(f, pool, new, tx, nic, ring, rx)
    BY <1>1, <1>5 DEF Counted, Held
  <1>7. RxOnce(f, new, ring, rx)
    BY <1>1, <1>5 DEF RxOnce
  <1>8. TxKept(f, new, tx, nic)
    BY <1>1, <1>4 DEF TxKept
  <1> QED  BY <1>1, <1>4, <1>6, <1>7, <1>8 DEF CountsOK, new

(* The reference in hand passes to a sendPacket that waits for tx.mutex.     *)
LEMMA StartSend ==
  ASSUME NEW f, NEW pool, NEW th, NEW tx, NEW nic, NEW ring, NEW rx, NEW k,
         InHand(f, pool, th, tx, nic, ring, rx, k),
         NEW t \in DriverThread, th[t].pc \notin {"tx", "rx"},
         NEW rec, CallOK(rec), rec.pc = "tx", rec.mbuf = k, Kept(f, k, rec.priority)
  PROVE  CountsOK(f, pool, Put(th, t, rec), tx, nic, ring, rx)
  <1> DEFINE new == Put(th, t, rec)
  <1>1. /\ MbufsOK(f) /\ PacketsOK(pool) /\ CallsOK(th) /\ QueuesOK(tx, nic, ring, rx)
        /\ Counted(f, pool, th, tx, nic, ring, rx) /\ AllocWhole(f, pool)
        /\ TxKept(f, th, tx, nic) /\ RxOnce(f, th, ring, rx)
        /\ k \in Mbuf /\ f[k].refcnt >= Clones(f, k) + Held(pool, th, tx, nic, ring, rx, k) + 1
    BY DEF InHand, CountsOK
  <1>2. CallOK(th[t])
    BY <1>1 DEF CallsOK
  <1>3. /\ th[t].mbuf = NoBuf
        /\ \A m \in Mbuf : Occurrences(th[t].burst, m) = 0 /\ Occurrences(rec.burst, m) = 0
    BY <1>2, CallTypes, NoBurst
  <1>4. /\ CallsOK(new)
        /\ \A u \in DriverThread : new[u] = IF u = t THEN rec ELSE th[u]
        /\ \A m \in Mbuf :
              /\ Refs(DriverThread, th, m) \in Nat /\ InBursts(th, m) \in Nat
              /\ Refs(DriverThread, new, m) = Refs(DriverThread, th, m)
                   - (IF th[t].mbuf = m THEN 1 ELSE 0) + (IF rec.mbuf = m THEN 1 ELSE 0)
              /\ InBursts(new, m) = InBursts(th, m)
                   - (IF Occurrences(th[t].burst, m) > 0 THEN 1 ELSE 0)
                   + (IF Occurrences(rec.burst, m) > 0 THEN 1 ELSE 0)
    BY <1>1, ThreadCounts
  <1> HIDE DEF new
  <1>5. \A m \in Mbuf : /\ Refs(DriverThread, new, m) = Refs(DriverThread, th, m) + (IF k = m THEN 1 ELSE 0)
                        /\ InBursts(new, m) = InBursts(th, m)
    BY <1>3, <1>4, MbufFinite
  <1>6. Counted(f, pool, new, tx, nic, ring, rx)
    <2> SUFFICES ASSUME NEW m \in Mbuf
                 PROVE  f[m].refcnt >= Clones(f, m) + Held(pool, new, tx, nic, ring, rx, m)
      BY DEF Counted
    <2>1. /\ f[m].refcnt \in Nat /\ Clones(f, m) \in Nat
          /\ Refs(DpdkPacket, pool, m) \in Nat /\ Refs(DriverThread, th, m) \in Nat
          /\ Occurrences(tx, m) \in Nat /\ Occurrences(rx, m) \in Nat
          /\ InNic(nic, m) \in Nat /\ InRing(ring, m) \in Nat /\ InBursts(th, m) \in Nat
          /\ Held(pool, th, tx, nic, ring, rx, m) \in Nat
      BY <1>1, CountTypes
    <2>2. Held(pool, new, tx, nic, ring, rx, m)
            = Held(pool, th, tx, nic, ring, rx, m) + (IF k = m THEN 1 ELSE 0)
      BY <1>5, <2>1 DEF Held
    <2>3. f[m].refcnt >= Clones(f, m) + Held(pool, th, tx, nic, ring, rx, m)
      BY <1>1 DEF Counted
    <2> QED  BY <1>1, <2>1, <2>2, <2>3
  <1>7. RxOnce(f, new, ring, rx)
    BY <1>1, <1>5 DEF RxOnce
  <1>8. TxKept(f, new, tx, nic)
    BY <1>1, <1>4 DEF TxKept
  <1> QED  BY <1>1, <1>4, <1>6, <1>7, <1>8 DEF CountsOK, new

(* The frame of a sendPacket joins the transmit buffer.                      *)
LEMMA BufferFrame ==
  ASSUME NEW f, NEW pool, NEW th, NEW tx, NEW nic, NEW ring, NEW rx,
         CountsOK(f, pool, th, tx, nic, ring, rx),
         NEW t \in DriverThread, th[t].pc = "tx",
         NEW rec, CallOK(rec), rec.pc \notin {"tx", "rx"}
  PROVE  CountsOK(f, pool, Put(th, t, rec),
                  Append(tx, [mbuf |-> th[t].mbuf, priority |-> th[t].priority]), nic, ring, rx)
  <1> DEFINE new == Put(th, t, rec)
             k == th[t].mbuf
             e == [mbuf |-> k, priority |-> th[t].priority]
             tx2 == Append(tx, e)
  <1>1. /\ MbufsOK(f) /\ PacketsOK(pool) /\ CallsOK(th) /\ QueuesOK(tx, nic, ring, rx)
        /\ Counted(f, pool, th, tx, nic, ring, rx) /\ AllocWhole(f, pool)
        /\ TxKept(f, th, tx, nic) /\ RxOnce(f, th, ring, rx)
    BY DEF CountsOK
  <1>2. CallOK(th[t])
    BY <1>1 DEF CallsOK
  <1>3. /\ k \in Mbuf /\ th[t].priority \in Priorities /\ rec.mbuf = NoBuf
        /\ \A m \in Mbuf : Occurrences(th[t].burst, m) = 0 /\ Occurrences(rec.burst, m) = 0
    BY <1>2, CallTypes, NoBurst
  <1>4. /\ CallsOK(new)
        /\ \A u \in DriverThread : new[u] = IF u = t THEN rec ELSE th[u]
        /\ \A m \in Mbuf :
              /\ Refs(DriverThread, th, m) \in Nat /\ InBursts(th, m) \in Nat
              /\ Refs(DriverThread, new, m) \in Nat
              /\ Refs(DriverThread, new, m) = Refs(DriverThread, th, m)
                   - (IF k = m THEN 1 ELSE 0) + (IF rec.mbuf = m THEN 1 ELSE 0)
              /\ InBursts(new, m) = InBursts(th, m)
                   - (IF Occurrences(th[t].burst, m) > 0 THEN 1 ELSE 0)
                   + (IF Occurrences(rec.burst, m) > 0 THEN 1 ELSE 0)
    BY <1>1, ThreadCounts
  <1> HIDE DEF new
  <1>5. \A m \in Mbuf : /\ Refs(DriverThread, new, m) = Refs(DriverThread, th, m) - (IF k = m THEN 1 ELSE 0)
                        /\ InBursts(new, m) = InBursts(th, m)
    BY <1>3, <1>4, MbufFinite
  <1>6. e \in TxFrame /\ tx \in Seq(TxFrame) /\ e.mbuf = k /\ e.priority = th[t].priority
    BY <1>1, <1>3 DEF TxFrame, QueuesOK
  <1> HIDE DEF e
  <1>7. /\ tx2 \in Seq(TxFrame) /\ Len(tx2) = Len(tx) + 1 /\ Len(tx) \in Nat
        /\ tx2[Len(tx) + 1] = e /\ \A i \in 1..Len(tx) : tx2[i] = tx[i]
    BY <1>6
  <1>8. \A m \in Mbuf : Occurrences(tx2, m) = Occurrences(tx, m) + (IF k = m THEN 1 ELSE 0)
    BY <1>6, OccurrencesAppend
  <1> HIDE DEF tx2, k
  <1>9. QueuesOK(tx2, nic, ring, rx)
    BY <1>1, <1>7 DEF QueuesOK
  <1>10. Counted(f, pool, new, tx2, nic, ring, rx)
    <2> SUFFICES ASSUME NEW m \in Mbuf
                 PROVE  f[m].refcnt >= Clones(f, m) + Held(pool, new, tx2, nic, ring, rx, m)
      BY DEF Counted
    <2>1. /\ Refs(DpdkPacket, pool, m) \in Nat /\ Refs(DriverThread, th, m) \in Nat
          /\ Occurrences(tx, m) \in Nat /\ Occurrences(rx, m) \in Nat
          /\ InNic(nic, m) \in Nat /\ InRing(ring, m) \in Nat /\ InBursts(th, m) \in Nat
      BY <1>1, CountTypes
    <2>2. Held(pool, new, tx2, nic, ring, rx, m) = Held(pool, th, tx, nic, ring, rx, m)
      BY <1>5, <1>8, <2>1 DEF Held
    <2>3. f[m].refcnt >= Clones(f, m) + Held(pool, th, tx, nic, ring, rx, m)
      BY <1>1 DEF Counted
    <2> QED  BY <2>2, <2>3
  <1>11. RxOnce(f, new, ring, rx)
    BY <1>1, <1>5 DEF RxOnce
  <1>12. TxKept(f, new, tx2, nic)
    <2>1. Kept(f, e.mbuf, e.priority)
      BY <1>1, <1>6 DEF TxKept, k
    <2>2. \A i \in 1..Len(tx2) : Kept(f, tx2[i].mbuf, tx2[i].priority)
      <3> SUFFICES ASSUME NEW i \in 1..Len(tx2) PROVE Kept(f, tx2[i].mbuf, tx2[i].priority)
        OBVIOUS
      <3>1. CASE i = Len(tx) + 1
        BY <1>7, <2>1, <3>1
      <3>2. CASE i \in 1..Len(tx)
        BY <1>1, <1>7, <3>2 DEF TxKept
      <3> QED  BY <1>7, <3>1, <3>2
    <2> QED  BY <1>1, <1>4, <2>2 DEF TxKept
  <1>13. CountsOK(f, pool, new, tx2, nic, ring, rx)
    BY <1>1, <1>4, <1>9, <1>10, <1>11, <1>12 DEF CountsOK
  <1> QED  BY <1>13 DEF new, tx2, e, k

(* The NIC takes the frames up to the k-th, the others are freed.            *)
LEMMA FlushStep ==
  ASSUME NEW pool, NEW th, NEW frames, NEW nic, NEW ring, NEW rx,
         CountsOK(mbufs, pool, th, frames, nic, ring, rx), NEW k \in 0..Len(frames)
  PROVE  CountsOK(FreedAfter(frames, k), pool, th, <<>>, nic \cup ToSet(SubSeq(frames, 1, k)), ring, rx)
  <1> DEFINE g == FreedAfter(frames, k)
             nic2 == nic \cup ToSet(SubSeq(frames, 1, k))
             none == <<>>
  <1>1. /\ MbufsOK(mbufs) /\ PacketsOK(pool) /\ CallsOK(th) /\ QueuesOK(frames, nic, ring, rx)
        /\ Counted(mbufs, pool, th, frames, nic, ring, rx) /\ AllocWhole(mbufs, pool)
        /\ TxKept(mbufs, th, frames, nic) /\ RxOnce(mbufs, th, ring, rx)
    BY DEF CountsOK
  <1>2. frames \in Seq(TxFrame) /\ IsFiniteSet(nic) /\ nic \in SUBSET TxFrame
    BY <1>1 DEF QueuesOK
  <1>3. \A m \in Mbuf :
          /\ IsFiniteSet(nic2)
          /\ InNic(nic2, m) \in Nat /\ InNic(nic, m) \in Nat /\ Later(frames, k, m) \in Nat
          /\ Occurrences(frames, m) \in Nat
          /\ InNic(nic2, m) + Later(frames, k, m) <= InNic(nic, m) + Occurrences(frames, m)
    BY <1>2, FlushCounts
  <1>4. IsFiniteSet(nic2)
    BY <1>2, FlushCounts
  <1>5. \A q \in nic2 : q \in nic \/ \E i \in 1..Len(frames) : q = frames[i]
    <2>1. \A q \in ToSet(SubSeq(frames, 1, k)) : \E i \in 1..Len(frames) : q = frames[i]
      BY <1>2 DEF ToSet
    <2> QED  BY <2>1
  <1>6. nic2 \in SUBSET TxFrame
    BY <1>2, <1>5
  <1>7. /\ none \in Seq(TxFrame) /\ Len(none) = 0
        /\ \A m \in Mbuf : Occurrences(none, m) = 0
    <2>1. none \in Seq(TxFrame) /\ Len(none) = 0
      OBVIOUS
    <2>2. \A m : Occurrences(none, m) = 0
      BY EmptyQueue
    <2> HIDE DEF none
    <2> QED  BY <2>1, <2>2
  <1>8. QueuesOK(none, nic2, ring, rx)
    <2> HIDE DEF nic2, none
    <2> QED  BY <1>1, <1>4, <1>6, <1>7 DEF QueuesOK
  <1>9. \A m \in Mbuf :
         /\ mbufs[m].refcnt \in Nat /\ Clones(mbufs, m) \in Nat
         /\ Refs(DpdkPacket, pool, m) \in Nat /\ Refs(DriverThread, th, m) \in Nat
         /\ Occurrences(frames, m) \in Nat /\ Occurrences(rx, m) \in Nat
         /\ InNic(nic, m) \in Nat /\ InRing(ring, m) \in Nat /\ InBursts(th, m) \in Nat
         /\ Held(pool, th, frames, nic, ring, rx, m) \in Nat
    BY <1>1, CountTypes
  <1> HIDE DEF nic2, none
  <1>10. \A m \in Mbuf : Held(pool, th, none, nic2, ring, rx, m) + Later(frames, k, m)
                           <= Held(pool, th, frames, nic, ring, rx, m)
    <2> SUFFICES ASSUME NEW m \in Mbuf
                 PROVE  Held(pool, th, none, nic2, ring, rx, m) + Later(frames, k, m)
                          <= Held(pool, th, frames, nic, ring, rx, m)
      OBVIOUS
    <2>1. ASSUME NEW p \in Nat, NEW o \in Nat, NEW n \in Nat, NEW r \in Nat, NEW x \in Nat,
                 NEW c \in Nat, NEW b \in Nat, NEW n2 \in Nat, NEW l \in Nat, n2 + l <= n + o
          PROVE  (p + 0 + n2 + r + x + c + b) + l <= p + o + n + r + x + c + b
      BY <2>1
    <2> QED  BY <1>3, <1>7, <1>9, <2>1 DEF Held
  <1>11. \A m \in Mbuf : Held(pool, th, none, nic2, ring, rx, m) \in Nat
    BY <1>1, <1>8, CountTypes
  <1>12. Freeable(frames, k)
    <2>1. \A i \in (k + 1)..Len(frames) : mbufs[frames[i].mbuf].attached = NoBuf
      <3>1. \A i \in (k + 1)..Len(frames) : i \in 1..Len(frames)
        BY <1>2
      <3> QED  BY <1>1, <3>1 DEF TxKept, Kept
    <2>2. \A m \in Mbuf : Later(frames, k, m) <= mbufs[m].refcnt
      <3> SUFFICES ASSUME NEW m \in Mbuf PROVE Later(frames, k, m) <= mbufs[m].refcnt
        OBVIOUS
      <3>1. /\ Later(frames, k, m) \in Nat /\ mbufs[m].refcnt \in Nat /\ Clones(mbufs, m) \in Nat
            /\ Held(pool, th, frames, nic, ring, rx, m) \in Nat
            /\ Held(pool, th, none, nic2, ring, rx, m) \in Nat
        BY <1>3, <1>9, <1>11
      <3>2. Held(pool, th, none, nic2, ring, rx, m) + Later(frames, k, m)
              <= Held(pool, th, frames, nic, ring, rx, m)
        BY <1>10
      <3>3. mbufs[m].refcnt >= Clones(mbufs, m) + Held(pool, th, frames, nic, ring, rx, m)
        BY <1>1 DEF Counted
      <3> HIDE <1>1, <1>3, <1>9, <1>10, <1>11
      <3> QED  BY <3>1, <3>2, <3>3
    <2> QED  BY <2>1, <2>2 DEF Freeable
  <1>13. /\ MbufsOK(g)
         /\ \A m \in Mbuf :
              /\ g[m].refcnt = mbufs[m].refcnt - Later(frames, k, m)
              /\ Clones(g, m) = Clones(mbufs, m)
              /\ g[m].refcnt > 0 => SameContents(g[m], mbufs[m])
    BY <1>1, <1>2, <1>12, FreedAfterLemma
  <1> HIDE DEF g
  <1>a. ASSUME NEW m \in Mbuf
        PROVE  /\ g[m].refcnt \in Nat /\ Clones(g, m) \in Nat /\ g[m].refcnt <= mbufs[m].refcnt
               /\ g[m].refcnt >= Clones(g, m) + Held(pool, th, none, nic2, ring, rx, m)
    <2>1. ASSUME NEW r \in Nat, NEW c \in Nat, NEW l \in Nat, NEW x \in Nat, NEW y \in Nat,
                 l <= r, x + l <= y, r >= c + y
          PROVE  r - l \in Nat /\ r - l <= r /\ r - l >= c + x
      BY <2>1
    <2>2. /\ mbufs[m].refcnt \in Nat /\ Clones(mbufs, m) \in Nat
          /\ Held(pool, th, frames, nic, ring, rx, m) \in Nat
          /\ Held(pool, th, none, nic2, ring, rx, m) \in Nat /\ Later(frames, k, m) \in Nat
          /\ Held(pool, th, none, nic2, ring, rx, m) + Later(frames, k, m)
                           <= Held(pool, th, frames, nic, ring, rx, m)
      BY <1>3, <1>9, <1>10, <1>11
    <2>3. mbufs[m].refcnt >= Clones(mbufs, m) + Held(pool, th, frames, nic, ring, rx, m)
      BY <1>1 DEF Counted
    <2>4. Later(frames, k, m) <= mbufs[m].refcnt
      BY <1>12 DEF Freeable
    <2>5. g[m].refcnt = mbufs[m].refcnt - Later(frames, k, m) /\ Clones(g, m) = Clones(mbufs, m)
      BY <1>13
    <2> QED  BY <2>1, <2>2, <2>3, <2>4, <2>5
  <1>14. Counted(g, pool, th, none, nic2, ring, rx)
    BY <1>a DEF Counted
  <1>15. ASSUME NEW m \in Mbuf, Held(pool, th, none, nic2, ring, rx, m) > 0
         PROVE  SameContents(g[m], mbufs[m])
    <2>1. /\ g[m].refcnt \in Nat /\ Clones(g, m) \in Nat /\ Held(pool, th, none, nic2, ring, rx, m) \in Nat
          /\ g[m].refcnt >= Clones(g, m) + Held(pool, th, none, nic2, ring, rx, m)
      BY <1>a, <1>11
    <2>2. g[m].refcnt > 0
      BY <1>15, <2>1
    <2> QED  BY <1>13, <2>2
  <1>16. TxKept(mbufs, th, none, nic2)
    BY <1>1, <1>5, <1>7 DEF TxKept
  <1>17. TxKept(g, th, none, nic2)
    BY <1>1, <1>8, <1>15, <1>16, HeldPlaces DEF TxKept, Kept, SameContents
  <1>18. AllocWhole(g, pool)
    BY <1>1, <1>8, <1>15, HeldPlaces DEF AllocWhole, SameContents
  <1>19. RxOnce(g, th, ring, rx)
    <2> SUFFICES ASSUME NEW m \in Mbuf, InRing(ring, m) + Occurrences(rx, m) + InBursts(th, m) > 0
                 PROVE  g[m].refcnt <= 1
      BY DEF RxOnce
    <2>1. mbufs[m].refcnt <= 1
      BY <1>1 DEF RxOnce
    <2>2. g[m].refcnt \in Nat /\ g[m].refcnt <= mbufs[m].refcnt /\ mbufs[m].refcnt \in Nat
      BY <1>9, <1>a
    <2> QED  BY <2>1, <2>2
  <1>20. CountsOK(g, pool, th, none, nic2, ring, rx)
    BY <1>1, <1>8, <1>13, <1>14, <1>17, <1>18, <1>19 DEF CountsOK
  <1> QED  BY <1>20 DEF g, nic2, none

(* The NIC hands over a frame that it has sent.                              *)
LEMMA TakeNic ==
  ASSUME NEW f, NEW pool, NEW th, NEW tx, NEW nic, NEW ring, NEW rx,
         CountsOK(f, pool, th, tx, nic, ring, rx), NEW q \in nic
  PROVE  InHand(f, pool, th, tx, nic \ {q}, ring, rx, q.mbuf)
  <1> DEFINE nic2 == nic \ {q}
             k == q.mbuf
  <1>1. /\ MbufsOK(f) /\ PacketsOK(pool) /\ CallsOK(th) /\ QueuesOK(tx, nic, ring, rx)
        /\ Counted(f, pool, th, tx, nic, ring, rx) /\ AllocWhole(f, pool)
        /\ TxKept(f, th, tx, nic) /\ RxOnce(f, th, ring, rx)
    BY DEF CountsOK
  <1>2. IsFiniteSet(nic) /\ nic \in SUBSET TxFrame /\ k \in Mbuf
    BY <1>1, FrameTypes DEF QueuesOK
  <1>3. /\ IsFiniteSet(nic2)
        /\ \A m \in Mbuf : /\ InNic(nic, m) \in Nat /\ InNic(nic2, m) \in Nat
                           /\ InNic(nic2, m) = InNic(nic, m) - (IF k = m THEN 1 ELSE 0)
    BY <1>2, NicRemove
  <1>4. QueuesOK(tx, nic2, ring, rx)
    BY <1>1, <1>3 DEF QueuesOK
  <1>5. TxKept(f, th, tx, nic2)
    BY <1>1 DEF TxKept
  <1> HIDE DEF nic2, k
  <1>6. ASSUME NEW m \in Mbuf
        PROVE  f[m].refcnt >= Clones(f, m) + Held(pool, th, tx, nic2, ring, rx, m) + (IF k = m THEN 1 ELSE 0)
    <2>1. /\ f[m].refcnt \in Nat /\ Clones(f, m) \in Nat
          /\ Refs(DpdkPacket, pool, m) \in Nat /\ Refs(DriverThread, th, m) \in Nat
          /\ Occurrences(tx, m) \in Nat /\ Occurrences(rx, m) \in Nat
          /\ InNic(nic, m) \in Nat /\ InRing(ring, m) \in Nat /\ InBursts(th, m) \in Nat
          /\ Held(pool, th, tx, nic, ring, rx, m) \in Nat
      BY <1>1, CountTypes
    <2>2. InNic(nic2, m) \in Nat /\ InNic(nic2, m) = InNic(nic, m) - (IF k = m THEN 1 ELSE 0)
      BY <1>3
    <2>3. Held(pool, th, tx, nic2, ring, rx, m) + (IF k = m THEN 1 ELSE 0) = Held(pool, th, tx, nic, ring, rx, m)
      BY <2>1, <2>2 DEF Held
    <2>4. f[m].refcnt >= Clones(f, m) + Held(pool, th, tx, nic, ring, rx, m)
      BY <1>1 DEF Counted
    <2>5. Held(pool, th, tx, nic2, ring, rx, m) \in Nat
      BY <1>1, <1>4, CountTypes
    <2> QED  BY <2>1, <2>3, <2>4, <2>5
  <1>7. \A m \in Mbuf : /\ f[m].refcnt \in Nat /\ Clones(f, m) \in Nat
                        /\ Held(pool, th, tx, nic2, ring, rx, m) \in Nat
    BY <1>1, <1>4, CountTypes
  <1>8. Counted(f, pool, th, tx, nic2, ring, rx)
    <2> SUFFICES ASSUME NEW m \in Mbuf
                 PROVE  f[m].refcnt >= Clones(f, m) + Held(pool, th, tx, nic2, ring, rx, m)
      BY DEF Counted
    <2> QED  BY <1>6, <1>7
  <1>9. CountsOK(f, pool, th, tx, nic2, ring, rx)
    BY <1>1, <1>4, <1>5, <1>8 DEF CountsOK
  <1>10. InHand(f, pool, th, tx, nic2, ring, rx, k)
    BY <1>2, <1>6, <1>9 DEF InHand
  <1> QED  BY <1>10 DEF nic2, k

(* A frame that arrives: the reference in hand is the only one.              *)
LEMMA QueueRx ==
  ASSUME NEW f, NEW pool, NEW th, NEW tx, NEW nic, NEW ring, NEW rx, NEW k,
         InHand(f, pool, th, tx, nic, ring, rx, k), f[k].refcnt <= 1,
         NEW e \in RxFrame, e.mbuf = k
  PROVE  CountsOK(f, pool, th, tx, nic, ring, Append(rx, e))
  <1> DEFINE rx2 == Append(rx, e)
  <1>1. /\ MbufsOK(f) /\ PacketsOK(pool) /\ CallsOK(th) /\ QueuesOK(tx, nic, ring, rx)
        /\ Counted(f, pool, th, tx, nic, ring, rx) /\ AllocWhole(f, pool)
        /\ TxKept(f, th, tx, nic) /\ RxOnce(f, th, ring, rx)
        /\ k \in Mbuf /\ f[k].refcnt >= Clones(f, k) + Held(pool, th, tx, nic, ring, rx, k) + 1
    BY DEF InHand, CountsOK
  <1>2. rx \in Seq(RxFrame) /\ rx2 \in Seq(RxFrame)
    BY <1>1 DEF QueuesOK
  <1>3. \A m \in Mbuf : Occurrences(rx2, m) = Occurrences(rx, m) + (IF k = m THEN 1 ELSE 0)
    BY <1>2, OccurrencesAppend
  <1>4. QueuesOK(tx, nic, ring, rx2)
    <2> HIDE DEF rx2
    <2> QED  BY <1>1, <1>2 DEF QueuesOK
  <1> HIDE DEF rx2
  <1>5. Counted(f, pool, th, tx, nic, ring, rx2)
    <2> SUFFICES ASSUME NEW m \in Mbuf
                 PROVE  f[m].refcnt >= Clones(f, m) + Held(pool, th, tx, nic, ring, rx2, m)
      BY DEF Counted
    <2>1. /\ f[m].refcnt \in Nat /\ Clones(f, m) \in Nat
          /\ Refs(DpdkPacket, pool, m) \in Nat /\ Refs(DriverThread, th, m) \in Nat
          /\ Occurrences(tx, m) \in Nat /\ Occurrences(rx, m) \in Nat
          /\ InNic(nic, m) \in Nat /\ InRing(ring, m) \in Nat /\ InBursts(th, m) \in Nat
          /\ Held(pool, th, tx, nic, ring, rx, m) \in Nat
      BY <1>1, CountTypes
    <2>2. Held(pool, th, tx, nic, ring, rx2, m) = Held(pool, th, tx, nic, ring, rx, m) + (IF k = m THEN 1 ELSE 0)
      BY <1>3, <2>1 DEF Held
    <2>3. f[m].refcnt >= Clones(f, m) + Held(pool, th, tx, nic, ring, rx, m)
      BY <1>1 DEF Counted
    <2> QED  BY <1>1, <2>1, <2>2, <2>3
  <1>6. RxOnce(f, th, ring, rx2)
    <2> SUFFICES ASSUME NEW m \in Mbuf, InRing(ring, m) + Occurrences(rx2, m) + InBursts(th, m) > 0
                 PROVE  f[m].refcnt <= 1
      BY DEF RxOnce
    <2>1. CASE m = k
      BY <2>1
    <2>2. CASE m # k
      <3>1. Occurrences(rx2, m) = Occurrences(rx, m) /\ Occurrences(rx, m) \in Nat
        BY <1>1, <1>3, <2>2, CountTypes
      <3> QED  BY <1>1, <3>1 DEF RxOnce
    <2> QED  BY <2>1, <2>2
  <1> QED  BY <1>1, <1>4, <1>5, <1>6 DEF CountsOK, rx2

(* A clone of k joins the loopback ring and has the reference in hand.       *)
LEMMA QueueClone ==
  ASSUME NEW f, NEW pool, NEW th, NEW tx, NEW nic, NEW ring, NEW rx, NEW k,
         InHand(f, pool, th, tx, nic, ring, rx, k),
         NEW c \in Mbuf, f[c].refcnt = 0, NEW rec, MbufOK(rec), rec.refcnt = 1, rec.attached = k
  PROVE  CountsOK(Put(f, c, rec), pool, th, tx, nic, Append(ring, c), rx)
  <1> DEFINE g == Put(f, c, rec)
             ring2 == Append(ring, c)
  <1>1. /\ MbufsOK(f) /\ PacketsOK(pool) /\ CallsOK(th) /\ QueuesOK(tx, nic, ring, rx)
        /\ Counted(f, pool, th, tx, nic, ring, rx) /\ AllocWhole(f, pool)
        /\ TxKept(f, th, tx, nic) /\ RxOnce(f, th, ring, rx)
        /\ k \in Mbuf /\ f[k].refcnt >= Clones(f, k) + Held(pool, th, tx, nic, ring, rx, k) + 1
    BY DEF InHand, CountsOK
  <1>2. \A m \in Mbuf :
          /\ f[m].refcnt \in Nat /\ Clones(f, m) \in Nat
          /\ Held(pool, th, tx, nic, ring, rx, m) \in Nat
          /\ f[m].refcnt >= Clones(f, m) + Held(pool, th, tx, nic, ring, rx, m)
    BY <1>1, CountTypes DEF Counted
  <1>3. /\ f[c].attached = NoBuf /\ Clones(f, c) = 0 /\ Held(pool, th, tx, nic, ring, rx, c) = 0
        /\ k # c
    <2>1. f[c].attached = NoBuf
      BY <1>1 DEF MbufsOK, MbufOK
    <2>2. Clones(f, c) = 0 /\ Held(pool, th, tx, nic, ring, rx, c) = 0
      BY <1>2
    <2>3. f[k].refcnt >= 1
      BY <1>1, <1>2
    <2> QED  BY <2>1, <2>2, <2>3
  <1>4. /\ MbufsOK(g)
        /\ \A m \in Mbuf : g[m] = IF m = c THEN rec ELSE f[m]
        /\ \A m \in Mbuf : Clones(g, m) = Clones(f, m) + (IF k = m THEN 1 ELSE 0)
    <2>1. /\ MbufsOK(g)
          /\ \A m \in Mbuf :
              /\ g[m] = IF m = c THEN rec ELSE f[m]
              /\ Clones(f, m) \in Nat
              /\ Clones(g, m) = Clones(f, m) - (IF f[c].attached = m THEN 1 ELSE 0)
                                             + (IF rec.attached = m THEN 1 ELSE 0)
      BY <1>1, ClonesChange
    <2> HIDE DEF g
    <2> QED  BY <1>3, <2>1, MbufFinite
  <1>5. ring \in Seq(Mbuf) /\ ring2 \in Seq(Mbuf)
    BY <1>1 DEF QueuesOK
  <1>6. \A m \in Mbuf : InRing(ring2, m) = InRing(ring, m) + (IF c = m THEN 1 ELSE 0)
    BY <1>5, RingAppend
  <1> HIDE DEF g, ring2
  <1>7. QueuesOK(tx, nic, ring2, rx)
    BY <1>1, <1>5 DEF QueuesOK
  <1>8. \A m \in Mbuf : Held(pool, th, tx, nic, ring2, rx, m)
                          = Held(pool, th, tx, nic, ring, rx, m) + (IF c = m THEN 1 ELSE 0)
    <2> SUFFICES ASSUME NEW m \in Mbuf
                 PROVE  Held(pool, th, tx, nic, ring2, rx, m)
                          = Held(pool, th, tx, nic, ring, rx, m) + (IF c = m THEN 1 ELSE 0)
      OBVIOUS
    <2>1. /\ Refs(DpdkPacket, pool, m) \in Nat /\ Refs(DriverThread, th, m) \in Nat
          /\ Occurrences(tx, m) \in Nat /\ Occurrences(rx, m) \in Nat
          /\ InNic(nic, m) \in Nat /\ InRing(ring, m) \in Nat /\ InBursts(th, m) \in Nat
      BY <1>1, CountTypes
    <2> QED  BY <1>6, <2>1 DEF Held
  <1>9. Counted(g, pool, th, tx, nic, ring2, rx)
    <2> SUFFICES ASSUME NEW m \in Mbuf
                 PROVE  g[m].refcnt >= Clones(g, m) + Held(pool, th, tx, nic, ring2, rx, m)
      BY DEF Counted
    <2>1. /\ Clones(g, m) = Clones(f, m) + (IF k = m THEN 1 ELSE 0)
          /\ Held(pool, th, tx, nic, ring2, rx, m)
               = Held(pool, th, tx, nic, ring, rx, m) + (IF c = m THEN 1 ELSE 0)
      BY <1>4, <1>8
    <2>2. CASE m = c
      <3>1. g[m].refcnt = 1
        BY <1>4, <2>2
      <3> QED  BY <1>3, <2>1, <2>2, <3>1
    <2>3. CASE m # c
      <3>1. g[m].refcnt = f[m].refcnt
        BY <1>4, <2>3
      <3>2. /\ f[m].refcnt \in Nat /\ Clones(f, m) \in Nat
            /\ Held(pool, th, tx, nic, ring, rx, m) \in Nat
            /\ f[m].refcnt >= Clones(f, m) + Held(pool, th, tx, nic, ring, rx, m)
        BY <1>2
      <3> QED  BY <1>1, <2>1, <2>3, <3>1, <3>2
    <2> QED  BY <2>2, <2>3
  <1>10. \A m \in Mbuf : Held(pool, th, tx, nic, ring, rx, m) > 0 => g[m] = f[m]
    BY <1>3, <1>4
  <1>11. TxKept(g, th, tx, nic)
    BY <1>1, <1>10, HeldPlaces DEF TxKept, Kept
  <1>12. AllocWhole(g, pool)
    BY <1>1, <1>10, HeldPlaces DEF AllocWhole
  <1>13. RxOnce(g, th, ring2, rx)
    <2> SUFFICES ASSUME NEW m \in Mbuf, InRing(ring2, m) + Occurrences(rx, m) + InBursts(th, m) > 0
                 PROVE  g[m].refcnt <= 1
      BY DEF RxOnce
    <2>1. CASE m = c
      BY <1>4, <2>1
    <2>2. CASE m # c
      <3>1. InRing(ring2, m) = InRing(ring, m) /\ InRing(ring, m) \in Nat /\ g[m] = f[m]
        BY <1>1, <1>4, <1>6, <2>2, CountTypes
      <3> QED  BY <1>1, <3>1 DEF RxOnce
    <2> QED  BY <2>1, <2>2
  <1> QED  BY <1>1, <1>4, <1>7, <1>9, <1>11, <1>12, <1>13 DEF CountsOK, g, ring2

(* One sequence after another.                                              *)
LEMMA JoinedLength ==
  ASSUME NEW T, NEW s \in Seq(T), NEW t \in Seq(T)
  PROVE  s \o t \in Seq(T) /\ Len(s \o t) = Len(s) + Len(t)
  OBVIOUS

(* The elements of the first come first.                                     *)
LEMMA FirstPart ==
  ASSUME NEW T, NEW s \in Seq(T), NEW t \in Seq(T), NEW i \in 1..Len(s)
  PROVE  (s \o t)[i] = s[i]
  <1>1. Len(s) \in Nat /\ Len(t) \in Nat /\ i \in Nat /\ i >= 1 /\ i <= Len(s)
    OBVIOUS
  <1>2. i \in 1..(Len(s) + Len(t))
    BY <1>1
  <1> QED  BY <1>1, <1>2

(* The elements of the second of two sequences follow those of the first.    *)
LEMMA SecondPart ==
  ASSUME NEW T, NEW s \in Seq(T), NEW t \in Seq(T), NEW i \in 1..Len(t)
  PROVE  (s \o t)[Len(s) + i] = t[i]
  <1>1. Len(s) \in Nat /\ Len(t) \in Nat /\ i \in Nat /\ i >= 1 /\ i <= Len(t)
    OBVIOUS
  <1>2. /\ Len(s) + i \in 1..(Len(s) + Len(t)) /\ ~(Len(s) + i <= Len(s))
        /\ (Len(s) + i) - Len(s) = i
    BY <1>1
  <1> QED  BY <1>2

(* Two places of a queue with the same mbuf are two references.              *)
LEMMA TwoPlaces ==
  ASSUME NEW T, NEW s \in Seq(T), NEW i \in 1..Len(s), NEW j \in 1..Len(s), i < j
  PROVE  /\ s[i] = s[j] => InRing(s, s[i]) >= 2
         /\ s[i].mbuf = s[j].mbuf => Occurrences(s, s[i].mbuf) >= 2
  <1> DEFINE r == SubSeq(s, i + 1, Len(s))
  <1>1. /\ r \in Seq(T) /\ Len(r) = Len(s) - i /\ \A x \in 1..Len(r) : r[x] = s[i + x]
        /\ j - i \in 1..Len(r) /\ i \in 0..Len(s) /\ i \in 1..i
    <2>1. Len(s) \in Nat /\ i \in 0..Len(s) /\ i \in 1..i
      OBVIOUS
    <2>2. r \in Seq(T)
      OBVIOUS
    <2>3. Len(r) = Len(s) - i
      OBVIOUS
    <2>4. ASSUME NEW x \in 1..(Len(s) - i) PROVE r[x] = s[i + x]
      OBVIOUS
    <2>5. j - i \in 1..(Len(s) - i)
      BY <2>1
    <2> QED  BY <2>1, <2>2, <2>3, <2>4, <2>5
  <1>2. r[j - i] = s[j]
    BY <1>1
  <1>3. ASSUME s[i] = s[j] PROVE InRing(s, s[i]) >= 2
    <2> DEFINE m == s[i]
    <2>1. InRing(s, m) \in Nat /\ InRing(r, m) \in Nat /\ InRing(r, m) + 1 <= InRing(s, m)
      BY <1>1, RingLeft
    <2>2. InRing(r, m) > 0
      <3> HIDE DEF r
      <3> QED  BY <1>1, <1>2, <1>3, OccursSomewhere
    <2> HIDE DEF r, m
    <2>3. InRing(s, m) >= 2
      BY <2>1, <2>2
    <2> QED  BY <2>3 DEF m
  <1>4. ASSUME s[i].mbuf = s[j].mbuf PROVE Occurrences(s, s[i].mbuf) >= 2
    <2> DEFINE m == s[i].mbuf
    <2>1. /\ Occurrences(s, m) \in Nat /\ Occurrences(r, m) \in Nat
          /\ Occurrences(r, m) + 1 <= Occurrences(s, m)
      BY <1>1, OccurrencesLeft
    <2>2. Occurrences(r, m) > 0
      <3> HIDE DEF r
      <3> QED  BY <1>1, <1>2, <1>4, OccursSomewhere
    <2> HIDE DEF r, m
    <2>3. Occurrences(s, m) >= 2
      BY <2>1, <2>2
    <2> QED  BY <2>3 DEF m
  <1> QED  BY <1>3, <1>4

(* No mbuf is received twice.                                                *)
LEMMA ReceivedOnce ==
  ASSUME NEW f, NEW pool, NEW th, NEW tx, NEW nic, NEW ring, NEW rx,
         CountsOK(f, pool, th, tx, nic, ring, rx)
  PROVE  /\ \A i, j \in 1..Len(ring) : ring[i] = ring[j] => i = j
         /\ \A i, j \in 1..Len(rx) : rx[i].mbuf = rx[j].mbuf => i = j
         /\ \A i \in 1..Len(ring), j \in 1..Len(rx) : ring[i] # rx[j].mbuf
  <1>1. /\ MbufsOK(f) /\ PacketsOK(pool) /\ CallsOK(th) /\ QueuesOK(tx, nic, ring, rx)
        /\ Counted(f, pool, th, tx, nic, ring, rx) /\ RxOnce(f, th, ring, rx)
    BY DEF CountsOK
  <1>2. ring \in Seq(Mbuf) /\ rx \in Seq(RxFrame)
    BY <1>1 DEF QueuesOK
  <1>3. /\ \A i \in 1..Len(ring) : ring[i] \in Mbuf
        /\ \A i \in 1..Len(rx) : rx[i].mbuf \in Mbuf
    BY <1>1, FrameTypes
  <1>4. ASSUME NEW m \in Mbuf PROVE InRing(ring, m) + Occurrences(rx, m) <= 1
    <2>1. /\ f[m].refcnt \in Nat /\ Clones(f, m) \in Nat
          /\ Refs(DpdkPacket, pool, m) \in Nat /\ Refs(DriverThread, th, m) \in Nat
          /\ Occurrences(tx, m) \in Nat /\ Occurrences(rx, m) \in Nat
          /\ InNic(nic, m) \in Nat /\ InRing(ring, m) \in Nat /\ InBursts(th, m) \in Nat
      BY <1>1, CountTypes
    <2>2. f[m].refcnt >= Clones(f, m) + (Refs(DpdkPacket, pool, m) + Occurrences(tx, m) + InNic(nic, m)
            + InRing(ring, m) + Occurrences(rx, m) + Refs(DriverThread, th, m) + InBursts(th, m))
      BY <1>1 DEF Counted, Held
    <2>3. InRing(ring, m) + Occurrences(rx, m) + InBursts(th, m) > 0 => f[m].refcnt <= 1
      BY <1>1 DEF RxOnce
    <2> QED  BY <2>1, <2>2, <2>3
  <1>5. \A m \in Mbuf : InRing(ring, m) \in Nat /\ Occurrences(rx, m) \in Nat
    BY <1>1, CountTypes
  <1>6. ASSUME NEW i \in 1..Len(ring), NEW j \in 1..Len(ring), i < j PROVE ring[i] # ring[j]
    <2>1. ring[i] = ring[j] => InRing(ring, ring[i]) >= 2
      BY <1>2, <1>6, TwoPlaces
    <2> QED  BY <1>3, <1>4, <1>5, <2>1
  <1>7. ASSUME NEW i \in 1..Len(rx), NEW j \in 1..Len(rx), i < j PROVE rx[i].mbuf # rx[j].mbuf
    <2>1. rx[i].mbuf = rx[j].mbuf => Occurrences(rx, rx[i].mbuf) >= 2
      BY <1>2, <1>7, TwoPlaces
    <2> QED  BY <1>3, <1>4, <1>5, <2>1
  <1>8. ASSUME NEW i \in 1..Len(ring), NEW j \in 1..Len(rx) PROVE ring[i] # rx[j].mbuf
    <2>1. InRing(ring, ring[i]) > 0
      BY <1>2, OccursSomewhere
    <2>2. Occurrences(rx, rx[j].mbuf) > 0
      BY <1>2, OccursSomewhere
    <2> QED  BY <1>3, <1>4, <1>5, <2>1, <2>2
  <1>9. Len(ring) \in Nat /\ Len(rx) \in Nat
    BY <1>2
  <1>10. \A i, j \in 1..Len(ring) : ring[i] = ring[j] => i = j
    <2> SUFFICES ASSUME NEW i \in 1..Len(ring), NEW j \in 1..Len(ring), ring[i] = ring[j] PROVE i = j
      OBVIOUS
    <2>1. i \in Int /\ j \in Int
      OBVIOUS
    <2> QED  BY <1>6, <2>1
  <1>11. \A i, j \in 1..Len(rx) : rx[i].mbuf = rx[j].mbuf => i = j
    <2> SUFFICES ASSUME NEW i \in 1..Len(rx), NEW j \in 1..Len(rx), rx[i].mbuf = rx[j].mbuf PROVE i = j
      OBVIOUS
    <2>1. i \in Int /\ j \in Int
      OBVIOUS
    <2> QED  BY <1>7, <2>1
  <1> QED  BY <1>8, <1>10, <1>11

(* The frames that receivePackets takes from the two queues.                 *)
Burst(ring, l, rx, n) ==
  [i \in 1..l |-> [mbuf |-> ring[i], kind |-> "HOMA"]] \o SubSeq(rx, 1, n)

(* A burst is the frames of the ring followed by those of the receive queue. *)
LEMMA BurstFrames ==
  ASSUME NEW ring \in Seq(Mbuf), NEW l \in 0..Len(ring), NEW rx \in Seq(RxFrame), NEW n \in 0..Len(rx)
  PROVE  /\ Burst(ring, l, rx, n) \in Seq(RxFrame) /\ Len(Burst(ring, l, rx, n)) = l + n
         /\ \A i \in 1..l : Burst(ring, l, rx, n)[i].mbuf = ring[i]
         /\ \A i \in 1..n : Burst(ring, l, rx, n)[l + i] = rx[i]
  <1> DEFINE a == [i \in 1..l |-> [mbuf |-> ring[i], kind |-> "HOMA"]]
             b == SubSeq(rx, 1, n)
  <1>1. l \in Nat /\ n \in Nat
    OBVIOUS
  <1>2. \A i \in 1..l : ring[i] \in Mbuf
    OBVIOUS
  <1>3. a \in Seq(RxFrame) /\ Len(a) = l /\ \A i \in 1..l : a[i].mbuf = ring[i]
    <2>1. \A i \in 1..l : a[i] \in RxFrame
      BY <1>2 DEF RxFrame, FrameKind
    <2> QED  BY <1>1, <2>1
  <1>4. b \in Seq(RxFrame) /\ Len(b) = n /\ \A i \in 1..n : b[i] = rx[i]
    BY <1>1
  <1>5. Burst(ring, l, rx, n) = a \o b
    BY DEF Burst
  <1> HIDE DEF a, b
  <1>6. /\ a \o b \in Seq(RxFrame) /\ Len(a \o b) = l + n
        /\ \A i \in 1..l : (a \o b)[i] = a[i]
        /\ \A i \in 1..n : (a \o b)[l + i] = b[i]
    <2>1. a \o b \in Seq(RxFrame) /\ Len(a \o b) = l + n
      <3>1. a \o b \in Seq(RxFrame) /\ Len(a \o b) = Len(a) + Len(b)
        BY <1>3, <1>4, JoinedLength, Zenon
      <3> QED  BY <1>3, <1>4, <3>1
    <2>2. ASSUME NEW i \in 1..l PROVE (a \o b)[i] = a[i]
      BY <1>3, <1>4, FirstPart, Zenon
    <2>3. ASSUME NEW i \in 1..n PROVE (a \o b)[l + i] = b[i]
      <3>1. Len(a) = l /\ i \in 1..Len(b) /\ a \in Seq(RxFrame) /\ b \in Seq(RxFrame)
        BY <1>3, <1>4
      <3> HIDE <1>1, <1>2, <1>3, <1>4, <2>1, <2>2
      <3>2. (a \o b)[Len(a) + i] = b[i]
        BY <3>1, SecondPart, Zenon
      <3> QED  BY <3>1, <3>2, Zenon
    <2> QED  BY <2>1, <2>2, <2>3
  <1> QED  BY <1>3, <1>4, <1>5, <1>6

(* The fields of what a thread is doing, as the calls change them.           *)
LEMMA PcValue ==
  ASSUME NEW r, IsCall(r), NEW x
  PROVE  /\ IsCall([r EXCEPT !.pc = x])
         /\ [r EXCEPT !.pc = x].pc = x
         /\ [r EXCEPT !.pc = x].mbuf = r.mbuf
         /\ [r EXCEPT !.pc = x].priority = r.priority
         /\ [r EXCEPT !.pc = x].burst = r.burst
  <1>1. PICK pc, mbuf, priority, packet, burst :
          r = [pc |-> pc, mbuf |-> mbuf, priority |-> priority, packet |-> packet, burst |-> burst]
    BY DEF IsCall
  <1>2. /\ [r EXCEPT !.pc = x].pc = x
        /\ [r EXCEPT !.pc = x].mbuf = r.mbuf
        /\ [r EXCEPT !.pc = x].priority = r.priority
        /\ [r EXCEPT !.pc = x].burst = r.burst
    BY <1>1
  <1> QED  BY <1>2, CallFields

(* Assigning the field mbuf of a call changes that field alone.             *)
LEMMA MbufValue ==
  ASSUME NEW r, IsCall(r), NEW x
  PROVE  /\ IsCall([r EXCEPT !.mbuf = x])
         /\ [r EXCEPT !.mbuf = x].pc = r.pc
         /\ [r EXCEPT !.mbuf = x].mbuf = x
         /\ [r EXCEPT !.mbuf = x].priority = r.priority
         /\ [r EXCEPT !.mbuf = x].burst = r.burst
  <1>1. PICK pc, mbuf, priority, packet, burst :
          r = [pc |-> pc, mbuf |-> mbuf, priority |-> priority, packet |-> packet, burst |-> burst]
    BY DEF IsCall
  <1>2. /\ [r EXCEPT !.mbuf = x].pc = r.pc
        /\ [r EXCEPT !.mbuf = x].mbuf = x
        /\ [r EXCEPT !.mbuf = x].priority = r.priority
        /\ [r EXCEPT !.mbuf = x].burst = r.burst
    BY <1>1
  <1> QED  BY <1>2, CallFields

(* Assigning the field priority of a call changes that field alone.         *)
LEMMA PriorityValue ==
  ASSUME NEW r, IsCall(r), NEW x
  PROVE  /\ IsCall([r EXCEPT !.priority = x])
         /\ [r EXCEPT !.priority = x].pc = r.pc
         /\ [r EXCEPT !.priority = x].mbuf = r.mbuf
         /\ [r EXCEPT !.priority = x].priority = x
         /\ [r EXCEPT !.priority = x].burst = r.burst
  <1>1. PICK pc, mbuf, priority, packet, burst :
          r = [pc |-> pc, mbuf |-> mbuf, priority |-> priority, packet |-> packet, burst |-> burst]
    BY DEF IsCall
  <1>2. /\ [r EXCEPT !.priority = x].pc = r.pc
        /\ [r EXCEPT !.priority = x].mbuf = r.mbuf
        /\ [r EXCEPT !.priority = x].priority = x
        /\ [r EXCEPT !.priority = x].burst = r.burst
    BY <1>1
  <1> QED  BY <1>2, CallFields

(* Assigning the field packet of a call changes that field alone.           *)
LEMMA PacketValue ==
  ASSUME NEW r, IsCall(r), NEW x
  PROVE  /\ IsCall([r EXCEPT !.packet = x])
         /\ [r EXCEPT !.packet = x].pc = r.pc
         /\ [r EXCEPT !.packet = x].mbuf = r.mbuf
         /\ [r EXCEPT !.packet = x].priority = r.priority
         /\ [r EXCEPT !.packet = x].burst = r.burst
  <1>1. PICK pc, mbuf, priority, packet, burst :
          r = [pc |-> pc, mbuf |-> mbuf, priority |-> priority, packet |-> packet, burst |-> burst]
    BY DEF IsCall
  <1>2. /\ [r EXCEPT !.packet = x].pc = r.pc
        /\ [r EXCEPT !.packet = x].mbuf = r.mbuf
        /\ [r EXCEPT !.packet = x].priority = r.priority
        /\ [r EXCEPT !.packet = x].burst = r.burst
    BY <1>1
  <1> QED  BY <1>2, CallFields

(* Assigning the field burst of a call changes that field alone.            *)
LEMMA BurstValue ==
  ASSUME NEW r, IsCall(r), NEW x
  PROVE  /\ IsCall([r EXCEPT !.burst = x])
         /\ [r EXCEPT !.burst = x].pc = r.pc
         /\ [r EXCEPT !.burst = x].mbuf = r.mbuf
         /\ [r EXCEPT !.burst = x].priority = r.priority
         /\ [r EXCEPT !.burst = x].burst = x
  <1>1. PICK pc, mbuf, priority, packet, burst :
          r = [pc |-> pc, mbuf |-> mbuf, priority |-> priority, packet |-> packet, burst |-> burst]
    BY DEF IsCall
  <1>2. /\ [r EXCEPT !.burst = x].pc = r.pc
        /\ [r EXCEPT !.burst = x].mbuf = r.mbuf
        /\ [r EXCEPT !.burst = x].priority = r.priority
        /\ [r EXCEPT !.burst = x].burst = x
    BY <1>1
  <1> QED  BY <1>2, CallFields

(* The same for the fields that one step changes together: the frame of a     *)
(* sendPacket is in the transmit buffer, a burst starts, a sendPacket starts. *)
Buffered(r) == [r EXCEPT !.pc = "txFlush", !.mbuf = NoBuf]
Receiving(r, burst) == [r EXCEPT !.pc = "rx", !.burst = burst]
Sending(r, mbuf, priority, packet) ==
  [r EXCEPT !.pc = "tx", !.mbuf = mbuf, !.priority = priority, !.packet = packet]

(* What a call holds after sendPacket gave its mbuf away.                   *)
LEMMA BufferedCall ==
  ASSUME NEW r, IsCall(r)
  PROVE  /\ IsCall(Buffered(r)) /\ Buffered(r).pc = "txFlush" /\ Buffered(r).mbuf = NoBuf
         /\ Buffered(r).burst = r.burst
  <1> DEFINE p == [r EXCEPT !.pc = "txFlush"]
             q == [p EXCEPT !.mbuf = NoBuf]
  <1>1. Buffered(r) = q
    BY Zenon DEF Buffered
  <1>2. IsCall(p) /\ p.pc = "txFlush" /\ p.burst = r.burst
    BY PcValue
  <1>3. IsCall(q) /\ q.pc = "txFlush" /\ q.mbuf = NoBuf /\ q.burst = r.burst
    <2> HIDE DEF p
    <2> QED  BY <1>2, MbufValue
  <1> HIDE DEF q
  <1> QED  BY <1>1, <1>3

(* What a call holds when receivePackets took a burst.                      *)
LEMMA ReceivingCall ==
  ASSUME NEW r, IsCall(r), NEW b
  PROVE  /\ IsCall(Receiving(r, b)) /\ Receiving(r, b).pc = "rx" /\ Receiving(r, b).mbuf = r.mbuf
         /\ Receiving(r, b).burst = b
  <1> DEFINE p == [r EXCEPT !.pc = "rx"]
             q == [p EXCEPT !.burst = b]
  <1>1. Receiving(r, b) = q
    BY Zenon DEF Receiving
  <1>2. IsCall(p) /\ p.pc = "rx" /\ p.mbuf = r.mbuf
    BY PcValue
  <1>3. IsCall(q) /\ q.pc = "rx" /\ q.mbuf = r.mbuf /\ q.burst = b
    <2> HIDE DEF p
    <2> QED  BY <1>2, BurstValue
  <1> HIDE DEF q
  <1> QED  BY <1>1, <1>3

(* What a call holds when sendPacket starts.                                *)
LEMMA SendingCall ==
  ASSUME NEW r, IsCall(r), NEW y, NEW z, NEW u
  PROVE  /\ IsCall(Sending(r, y, z, u)) /\ Sending(r, y, z, u).pc = "tx"
         /\ Sending(r, y, z, u).mbuf = y /\ Sending(r, y, z, u).priority = z
         /\ Sending(r, y, z, u).burst = r.burst
  <1> DEFINE p == [r EXCEPT !.pc = "tx"]
             q == [p EXCEPT !.mbuf = y]
             v == [q EXCEPT !.priority = z]
             w == [v EXCEPT !.packet = u]
  <1>1. Sending(r, y, z, u) = w
    BY Zenon DEF Sending
  <1>2. IsCall(p) /\ p.pc = "tx" /\ p.burst = r.burst
    BY PcValue
  <1>3. IsCall(q) /\ q.pc = "tx" /\ q.mbuf = y /\ q.burst = r.burst
    <2> HIDE DEF p
    <2> QED  BY <1>2, MbufValue
  <1>4. IsCall(v) /\ v.pc = "tx" /\ v.mbuf = y /\ v.priority = z /\ v.burst = r.burst
    <2> HIDE DEF q
    <2> QED  BY <1>3, PriorityValue
  <1>5. IsCall(w) /\ w.pc = "tx" /\ w.mbuf = y /\ w.priority = z /\ w.burst = r.burst
    <2> HIDE DEF v
    <2> QED  BY <1>4, PacketValue
  <1> HIDE DEF w
  <1> QED  BY <1>1, <1>5

(* A thread outside of a call.                                               *)
LEMMA IdleOK == CallOK(Idle) /\ Idle.pc = "idle" /\ Idle.mbuf = NoBuf /\ Idle.burst = <<>>
  <1>1. Idle.pc = "idle" /\ Idle.mbuf = NoBuf /\ Idle.burst = <<>>
    BY DEF Idle
  <1>2. Idle.burst \in Seq(RxFrame) /\ Len(Idle.burst) = 0
    BY <1>1
  <1> HIDE DEF Idle
  <1>3. \A i, j \in 1..Len(Idle.burst) : Idle.burst[i].mbuf = Idle.burst[j].mbuf => i = j
    BY <1>2
  <1>4. Idle.pc = "rx" <=> Len(Idle.burst) > 0
    BY <1>1, <1>2
  <1>5. IF Idle.pc = "tx" THEN Idle.mbuf \in Mbuf /\ Idle.priority \in Priorities ELSE Idle.mbuf = NoBuf
    BY <1>1
  <1> QED  BY <1>1, <1>2, <1>3, <1>4, <1>5, IdleCall DEF CallOK

(* A burst of frames is a call of receivePackets.                            *)
LEMMA RxCall ==
  ASSUME NEW r, IsCall(r), r.pc = "rx", r.mbuf = NoBuf, NEW b \in Seq(RxFrame), r.burst = b,
         Len(b) > 0, \A i, j \in 1..Len(b) : b[i].mbuf = b[j].mbuf => i = j
  PROVE  CallOK(r)
  <1>1. IF r.pc = "tx" THEN r.mbuf \in Mbuf /\ r.priority \in Priorities ELSE r.mbuf = NoBuf
    OBVIOUS
  <1> QED  BY <1>1 DEF CallOK

(* A call without a burst.                                                   *)
LEMMA OtherCall ==
  ASSUME NEW r, IsCall(r), r.burst = <<>>, r.pc # "rx",
         \/ r.pc # "tx" /\ r.mbuf = NoBuf
         \/ r.pc = "tx" /\ r.mbuf \in Mbuf /\ r.priority \in Priorities
  PROVE  CallOK(r)
  <1>1. r.burst \in Seq(RxFrame) /\ Len(r.burst) = 0
    OBVIOUS
  <1>2. \A i, j \in 1..Len(r.burst) : r.burst[i].mbuf = r.burst[j].mbuf => i = j
    BY <1>1
  <1>3. r.pc = "rx" <=> Len(r.burst) > 0
    BY <1>1
  <1>4. IF r.pc = "tx" THEN r.mbuf \in Mbuf /\ r.priority \in Priorities ELSE r.mbuf = NoBuf
    OBVIOUS
  <1> QED  BY <1>1, <1>2, <1>3, <1>4 DEF CallOK

(* Only a thread within receivePackets holds a burst.                       *)
LEMMA EmptyBurst ==
  ASSUME NEW r, CallOK(r), r.pc # "rx"
  PROVE  r.burst = <<>>
  <1>1. r.burst \in Seq(RxFrame) /\ ~(Len(r.burst) > 0)
    BY CallTypes
  <1>2. \A s \in Seq(RxFrame) : ~(Len(s) > 0) => s = <<>>
    OBVIOUS
  <1> QED  BY <1>1, <1>2

(* References that go from one place to another.                             *)
LEMMA MovedReferences ==
  ASSUME NEW v \in Nat, NEW c \in Nat, NEW p \in Nat, NEW o \in Nat, NEW i \in Nat,
         NEW r \in Nat, NEW x \in Nat, NEW h \in Nat, NEW d \in Nat,
         NEW r2 \in Nat, NEW x2 \in Nat, NEW d2 \in Nat, NEW one \in Nat,
         r2 + x2 + d2 + one <= r + x + d, v >= c + (p + o + i + r + x + h + d)
  PROVE  /\ v >= c + (p + o + i + r2 + x2 + h + d2) + one
         /\ v >= c + (p + o + i + r2 + x2 + h + d2)
  OBVIOUS

(* What receivePackets does with l frames of the ring and n of the NIC.      *)
StartsBurst(rec, ring, l, rx, n) ==
  /\ l \in 0..Len(ring) /\ n \in 0..Len(rx) /\ l + n > 0
  /\ IsCall(rec) /\ rec.pc = "rx" /\ rec.mbuf = NoBuf /\ rec.burst = Burst(ring, l, rx, n)

(* References move from the queues to the burst, none is made up.           *)
LEMMA BurstCall ==
  ASSUME NEW f, NEW pool, NEW th, NEW tx, NEW nic, NEW ring, NEW rx,
         CountsOK(f, pool, th, tx, nic, ring, rx), NEW l, NEW n, NEW rec,
         StartsBurst(rec, ring, l, rx, n)
  PROVE  /\ CallOK(rec) /\ rec.pc # "tx" /\ rec.mbuf = NoBuf
         /\ SubSeq(ring, l + 1, Len(ring)) \in Seq(Mbuf) /\ SubSeq(rx, n + 1, Len(rx)) \in Seq(RxFrame)
         /\ \A m \in Mbuf :
              /\ InRing(ring, m) \in Nat /\ InRing(SubSeq(ring, l + 1, Len(ring)), m) \in Nat
              /\ Occurrences(rx, m) \in Nat /\ Occurrences(SubSeq(rx, n + 1, Len(rx)), m) \in Nat
              /\ InRing(SubSeq(ring, l + 1, Len(ring)), m) + Occurrences(SubSeq(rx, n + 1, Len(rx)), m)
                   + (IF Occurrences(rec.burst, m) > 0 THEN 1 ELSE 0)
                   <= InRing(ring, m) + Occurrences(rx, m)
  <1> DEFINE ring2 == SubSeq(ring, l + 1, Len(ring))
             rx2 == SubSeq(rx, n + 1, Len(rx))
             b == Burst(ring, l, rx, n)
  <1>0. /\ l \in 0..Len(ring) /\ n \in 0..Len(rx) /\ l + n > 0
        /\ IsCall(rec) /\ rec.pc = "rx" /\ rec.mbuf = NoBuf /\ rec.burst = b
    BY DEF StartsBurst
  <1>2. ring \in Seq(Mbuf) /\ rx \in Seq(RxFrame)
    BY DEF CountsOK, QueuesOK
  <1>3. /\ b \in Seq(RxFrame) /\ Len(b) = l + n
        /\ \A i \in 1..l : b[i].mbuf = ring[i]
        /\ \A i \in 1..n : b[l + i] = rx[i]
    BY <1>0, <1>2, BurstFrames
  <1>4. l \in Nat /\ n \in Nat /\ Len(ring) \in Nat /\ Len(rx) \in Nat /\ l <= Len(ring) /\ n <= Len(rx)
    BY <1>0, <1>2
  <1> HIDE DEF b
  <1>5. \A i \in 1..Len(b) : \/ i \in 1..l /\ i \in 1..Len(ring) /\ b[i].mbuf = ring[i]
                             \/ i - l \in 1..n /\ i - l \in 1..Len(rx) /\ b[i] = rx[i - l]
    <2> SUFFICES ASSUME NEW i \in 1..Len(b)
                 PROVE  \/ i \in 1..l /\ i \in 1..Len(ring) /\ b[i].mbuf = ring[i]
                        \/ i - l \in 1..n /\ i - l \in 1..Len(rx) /\ b[i] = rx[i - l]
      OBVIOUS
    <2>1. CASE i <= l
      <3>1. i \in 1..l /\ i \in 1..Len(ring)
        BY <1>4, <2>1
      <3> QED  BY <1>3, <3>1
    <2>2. CASE i > l
      <3>1. i - l \in 1..n /\ i - l \in 1..Len(rx) /\ l + (i - l) = i
        BY <1>3, <1>4, <2>2
      <3>2. b[l + (i - l)] = rx[i - l]
        BY <1>3, <3>1
      <3> QED  BY <3>1, <3>2
    <2> QED  BY <1>3, <1>4, <2>1, <2>2
  <1>6. \A i, j \in 1..Len(b) : b[i].mbuf = b[j].mbuf => i = j
    <2> SUFFICES ASSUME NEW i \in 1..Len(b), NEW j \in 1..Len(b), b[i].mbuf = b[j].mbuf PROVE i = j
      OBVIOUS
    <2>1. /\ \A x, y \in 1..Len(ring) : ring[x] = ring[y] => x = y
          /\ \A x, y \in 1..Len(rx) : rx[x].mbuf = rx[y].mbuf => x = y
          /\ \A x \in 1..Len(ring), y \in 1..Len(rx) : ring[x] # rx[y].mbuf
      BY ReceivedOnce
    <2>2. \/ i \in 1..Len(ring) /\ b[i].mbuf = ring[i]
          \/ i - l \in 1..Len(rx) /\ b[i].mbuf = rx[i - l].mbuf
      BY <1>5
    <2>3. \/ j \in 1..Len(ring) /\ b[j].mbuf = ring[j]
          \/ j - l \in 1..Len(rx) /\ b[j].mbuf = rx[j - l].mbuf
      BY <1>5
    <2>4. i = j \/ i - l = j - l
      BY <2>1, <2>2, <2>3
    <2> QED  BY <1>3, <1>4, <2>4
  <1>7. CallOK(rec)
    BY <1>0, <1>3, <1>4, <1>6, RxCall
  <1>12. ring2 \in Seq(Mbuf) /\ rx2 \in Seq(RxFrame)
    BY <1>0, <1>2, RingLeft, OccurrencesLeft
  <1>13. ASSUME NEW m \in Mbuf
         PROVE  /\ InRing(ring, m) \in Nat /\ InRing(ring2, m) \in Nat
                /\ Occurrences(rx, m) \in Nat /\ Occurrences(rx2, m) \in Nat
                /\ InRing(ring2, m) + Occurrences(rx2, m) + (IF Occurrences(b, m) > 0 THEN 1 ELSE 0)
                     <= InRing(ring, m) + Occurrences(rx, m)
    <2>1. /\ InRing(ring, m) \in Nat /\ InRing(ring2, m) \in Nat
          /\ InRing(ring2, m) <= InRing(ring, m)
          /\ \A j \in 1..l : ring[j] = m => InRing(ring2, m) + 1 <= InRing(ring, m)
      BY <1>0, <1>2, RingLeft
    <2>2. /\ Occurrences(rx, m) \in Nat /\ Occurrences(rx2, m) \in Nat
          /\ Occurrences(rx2, m) <= Occurrences(rx, m)
          /\ \A j \in 1..n : rx[j].mbuf = m => Occurrences(rx2, m) + 1 <= Occurrences(rx, m)
      BY <1>0, <1>2, OccurrencesLeft
    <2> HIDE DEF ring2, rx2
    <2>3. CASE Occurrences(b, m) > 0
      <3>1. PICK i \in 1..Len(b) : b[i].mbuf = m
        BY <1>3, <2>3, OccursSomewhere
      <3>2. \/ InRing(ring2, m) + 1 <= InRing(ring, m)
            \/ Occurrences(rx2, m) + 1 <= Occurrences(rx, m)
        BY <1>5, <2>1, <2>2, <3>1
      <3> QED  BY <2>1, <2>2, <2>3, <3>2
    <2>4. CASE ~(Occurrences(b, m) > 0)
      BY <2>1, <2>2, <2>4
    <2> QED  BY <2>3, <2>4
  <1> HIDE DEF ring2, rx2
  <1>14. /\ CallOK(rec) /\ rec.pc # "tx" /\ rec.mbuf = NoBuf
         /\ ring2 \in Seq(Mbuf) /\ rx2 \in Seq(RxFrame)
         /\ \A m \in Mbuf :
              /\ InRing(ring, m) \in Nat /\ InRing(ring2, m) \in Nat
              /\ Occurrences(rx, m) \in Nat /\ Occurrences(rx2, m) \in Nat
              /\ InRing(ring2, m) + Occurrences(rx2, m) + (IF Occurrences(rec.burst, m) > 0 THEN 1 ELSE 0)
                   <= InRing(ring, m) + Occurrences(rx, m)
    BY <1>0, <1>7, <1>12, <1>13
  <1> QED  BY <1>14 DEF ring2, rx2

(* receivePackets takes frames from both queues.                             *)
LEMMA TakeBurst ==
  ASSUME NEW f, NEW pool, NEW th, NEW tx, NEW nic, NEW ring, NEW rx,
         CountsOK(f, pool, th, tx, nic, ring, rx),
         NEW t \in DriverThread, th[t].pc \notin {"tx", "rx"},
         NEW l, NEW n, NEW rec, StartsBurst(rec, ring, l, rx, n)
  PROVE  CountsOK(f, pool, Put(th, t, rec), tx, nic,
                  SubSeq(ring, l + 1, Len(ring)), SubSeq(rx, n + 1, Len(rx)))
  <1> DEFINE new == Put(th, t, rec)
             ring2 == SubSeq(ring, l + 1, Len(ring))
             rx2 == SubSeq(rx, n + 1, Len(rx))
  <1>1. /\ MbufsOK(f) /\ PacketsOK(pool) /\ CallsOK(th) /\ QueuesOK(tx, nic, ring, rx)
        /\ Counted(f, pool, th, tx, nic, ring, rx) /\ AllocWhole(f, pool)
        /\ TxKept(f, th, tx, nic) /\ RxOnce(f, th, ring, rx)
    BY DEF CountsOK
  <1>7. CallOK(rec) /\ rec.pc # "tx" /\ rec.mbuf = NoBuf
    BY BurstCall
  <1>12. ring2 \in Seq(Mbuf) /\ rx2 \in Seq(RxFrame)
    BY BurstCall
  <1>13. \A m \in Mbuf :
              /\ InRing(ring, m) \in Nat /\ InRing(ring2, m) \in Nat
              /\ Occurrences(rx, m) \in Nat /\ Occurrences(rx2, m) \in Nat
              /\ InRing(ring2, m) + Occurrences(rx2, m) + (IF Occurrences(rec.burst, m) > 0 THEN 1 ELSE 0)
                   <= InRing(ring, m) + Occurrences(rx, m)
    BY BurstCall
  <1> HIDE DEF ring2, rx2
  <1>8. CallOK(th[t])
    BY <1>1 DEF CallsOK
  <1>9. th[t].mbuf = NoBuf /\ \A m \in Mbuf : Occurrences(th[t].burst, m) = 0
    BY <1>8, CallTypes, NoBurst
  <1>10. /\ CallsOK(new)
         /\ \A u \in DriverThread : new[u] = IF u = t THEN rec ELSE th[u]
         /\ \A m \in Mbuf :
              /\ Refs(DriverThread, th, m) \in Nat /\ InBursts(th, m) \in Nat
              /\ Refs(DriverThread, new, m) \in Nat /\ InBursts(new, m) \in Nat
              /\ Refs(DriverThread, new, m) = Refs(DriverThread, th, m)
                   - (IF th[t].mbuf = m THEN 1 ELSE 0) + (IF rec.mbuf = m THEN 1 ELSE 0)
              /\ InBursts(new, m) = InBursts(th, m)
                   - (IF Occurrences(th[t].burst, m) > 0 THEN 1 ELSE 0)
                   + (IF Occurrences(rec.burst, m) > 0 THEN 1 ELSE 0)
    BY <1>1, <1>7, ThreadCounts
  <1> HIDE DEF new
  <1>11. \A m \in Mbuf : /\ Refs(DriverThread, new, m) = Refs(DriverThread, th, m)
                         /\ InBursts(new, m) = InBursts(th, m) + (IF Occurrences(rec.burst, m) > 0 THEN 1 ELSE 0)
    <2> SUFFICES ASSUME NEW m \in Mbuf
                 PROVE  /\ Refs(DriverThread, new, m) = Refs(DriverThread, th, m)
                        /\ InBursts(new, m) = InBursts(th, m)
                             + (IF Occurrences(rec.burst, m) > 0 THEN 1 ELSE 0)
      OBVIOUS
    <2>1. th[t].mbuf # m /\ rec.mbuf # m /\ ~(Occurrences(th[t].burst, m) > 0)
      BY <1>7, <1>9, MbufFinite
    <2>2. /\ Refs(DriverThread, th, m) \in Nat /\ InBursts(th, m) \in Nat
          /\ Refs(DriverThread, new, m) = Refs(DriverThread, th, m)
               - (IF th[t].mbuf = m THEN 1 ELSE 0) + (IF rec.mbuf = m THEN 1 ELSE 0)
          /\ InBursts(new, m) = InBursts(th, m)
               - (IF Occurrences(th[t].burst, m) > 0 THEN 1 ELSE 0)
               + (IF Occurrences(rec.burst, m) > 0 THEN 1 ELSE 0)
      BY <1>10
    <2>3. /\ Refs(DriverThread, new, m) = Refs(DriverThread, th, m) - 0 + 0
          /\ InBursts(new, m) = InBursts(th, m) - 0 + (IF Occurrences(rec.burst, m) > 0 THEN 1 ELSE 0)
      BY <2>1, <2>2
    <2> HIDE <1>7, <1>9, <1>10
    <2> QED  BY <2>2, <2>3
  <1>14. QueuesOK(tx, nic, ring2, rx2)
    BY <1>1, <1>12 DEF QueuesOK
  <1>15. ASSUME NEW m \in Mbuf
         PROVE  /\ InRing(ring2, m) + Occurrences(rx2, m) + InBursts(new, m)
                     <= InRing(ring, m) + Occurrences(rx, m) + InBursts(th, m)
                /\ f[m].refcnt >= Clones(f, m) + Held(pool, new, tx, nic, ring2, rx2, m)
    <2>1. /\ f[m].refcnt \in Nat /\ Clones(f, m) \in Nat
          /\ Refs(DpdkPacket, pool, m) \in Nat /\ Refs(DriverThread, th, m) \in Nat
          /\ Occurrences(tx, m) \in Nat /\ Occurrences(rx, m) \in Nat
          /\ InNic(nic, m) \in Nat /\ InRing(ring, m) \in Nat /\ InBursts(th, m) \in Nat
      BY <1>1, CountTypes
    <2>2. /\ InRing(ring2, m) \in Nat /\ Occurrences(rx2, m) \in Nat /\ InBursts(new, m) \in Nat
          /\ InRing(ring2, m) + Occurrences(rx2, m) + InBursts(new, m)
                     <= InRing(ring, m) + Occurrences(rx, m) + InBursts(th, m)
      BY <1>10, <1>11, <1>13, <2>1
    <2>3. f[m].refcnt >= Clones(f, m) + (Refs(DpdkPacket, pool, m) + Occurrences(tx, m) + InNic(nic, m)
            + InRing(ring, m) + Occurrences(rx, m) + Refs(DriverThread, th, m) + InBursts(th, m))
      BY <1>1 DEF Counted, Held
    <2>5. f[m].refcnt >= Clones(f, m) + (Refs(DpdkPacket, pool, m) + Occurrences(tx, m) + InNic(nic, m)
            + InRing(ring2, m) + Occurrences(rx2, m) + Refs(DriverThread, th, m) + InBursts(new, m))
      <3>1. 0 \in Nat /\ InRing(ring2, m) + Occurrences(rx2, m) + InBursts(new, m) + 0
                           <= InRing(ring, m) + Occurrences(rx, m) + InBursts(th, m)
        BY <2>2
      <3> QED  BY <2>1, <2>2, <2>3, <3>1, MovedReferences
    <2>6. Refs(DriverThread, new, m) = Refs(DriverThread, th, m)
      BY <1>11
    <2> QED  BY <2>2, <2>5, <2>6 DEF Held
  <1>16. Counted(f, pool, new, tx, nic, ring2, rx2)
    BY <1>15 DEF Counted
  <1>17. RxOnce(f, new, ring2, rx2)
    <2> SUFFICES ASSUME NEW m \in Mbuf, InRing(ring2, m) + Occurrences(rx2, m) + InBursts(new, m) > 0
                 PROVE  f[m].refcnt <= 1
      BY DEF RxOnce
    <2>1. /\ Occurrences(rx, m) \in Nat /\ InRing(ring, m) \in Nat /\ InBursts(th, m) \in Nat
          /\ Occurrences(rx2, m) \in Nat /\ InRing(ring2, m) \in Nat /\ InBursts(new, m) \in Nat
      BY <1>10, <1>13
    <2>2. InRing(ring, m) + Occurrences(rx, m) + InBursts(th, m) > 0
      BY <1>15, <2>1
    <2> QED  BY <1>1, <2>2 DEF RxOnce
  <1>18. TxKept(f, new, tx, nic)
    BY <1>1, <1>7, <1>10 DEF TxKept
  <1> QED  BY <1>1, <1>10, <1>14, <1>16, <1>17, <1>18 DEF CountsOK, new, ring2, rx2

(* What receivePackets does after the first frame of its burst.              *)
AfterFrame(r) == IF Tail(r.burst) = <<>> THEN Idle ELSE [r EXCEPT !.burst = Tail(r.burst)]

(* The next frame of a burst is in the hands of receivePackets.              *)
LEMMA TakeFrame ==
  ASSUME NEW f, NEW pool, NEW th, NEW tx, NEW nic, NEW ring, NEW rx,
         CountsOK(f, pool, th, tx, nic, ring, rx), NEW t \in DriverThread, th[t].pc = "rx",
         NEW rec, rec = AfterFrame(th[t])
  PROVE  /\ Head(th[t].burst) \in RxFrame
         /\ InHand(f, pool, Put(th, t, rec), tx, nic, ring, rx, Head(th[t].burst).mbuf)
  <1> DEFINE new == Put(th, t, rec)
             b == th[t].burst
             rest == Tail(b)
             k == Head(b).mbuf
  <1>1. /\ MbufsOK(f) /\ PacketsOK(pool) /\ CallsOK(th) /\ QueuesOK(tx, nic, ring, rx)
        /\ Counted(f, pool, th, tx, nic, ring, rx) /\ AllocWhole(f, pool)
        /\ TxKept(f, th, tx, nic) /\ RxOnce(f, th, ring, rx)
    BY DEF CountsOK
  <1>2. CallOK(th[t])
    BY <1>1 DEF CallsOK
  <1>3. /\ IsCall(th[t]) /\ th[t].mbuf = NoBuf /\ b \in Seq(RxFrame) /\ Len(b) > 0
        /\ \A i, j \in 1..Len(b) : b[i].mbuf = b[j].mbuf => i = j
    <2>1. b \in Seq(RxFrame) /\ Len(b) > 0 /\ th[t].mbuf = NoBuf
      BY <1>2, CallTypes
    <2>2. IsCall(th[t]) /\ \A i, j \in 1..Len(b) : b[i].mbuf = b[j].mbuf => i = j
      BY <1>2, Zenon DEF CallOK
    <2> QED  BY <2>1, <2>2
  <1>4. rec = IF rest = <<>> THEN Idle ELSE [th[t] EXCEPT !.burst = rest]
    BY DEF AfterFrame
  <1> HIDE DEF b
  <1>5. /\ Head(b) = b[1] /\ b[1] \in RxFrame /\ rest \in Seq(RxFrame) /\ Len(b) \in Nat
        /\ Len(rest) = Len(b) - 1 /\ \A i \in 1..Len(rest) : rest[i] = b[i + 1]
        /\ rest # <<>> => Len(rest) > 0
    BY <1>3
  <1>6. k \in Mbuf /\ k = b[1].mbuf
    BY <1>5 DEF RxFrame
  <1> HIDE DEF rest, k
  <1>7. \A i, j \in 1..Len(rest) : rest[i].mbuf = rest[j].mbuf => i = j
    <2> SUFFICES ASSUME NEW i \in 1..Len(rest), NEW j \in 1..Len(rest), rest[i].mbuf = rest[j].mbuf
                 PROVE  i = j
      OBVIOUS
    <2>1. i + 1 \in 1..Len(b) /\ j + 1 \in 1..Len(b) /\ i \in Int /\ j \in Int
      BY <1>5
    <2>2. b[i + 1].mbuf = b[j + 1].mbuf
      BY <1>5
    <2>3. i + 1 = j + 1
      BY <1>3, <2>1, <2>2
    <2> QED  BY <2>1, <2>3
  <1>8. /\ CallOK(rec) /\ rec.mbuf = NoBuf /\ rec.pc # "tx"
        /\ rec.burst = rest
    <2>1. CASE rest = <<>>
      BY <1>4, <2>1, IdleOK
    <2>2. CASE rest # <<>>
      <3>1. IsCall(rec) /\ rec.pc = "rx" /\ rec.mbuf = NoBuf /\ rec.burst = rest
        <4>1. rec = [th[t] EXCEPT !.burst = rest]
          BY <1>4, <2>2
        <4>2. th[t].pc = "rx" /\ th[t].mbuf = NoBuf /\ IsCall(th[t])
          BY <1>3
        <4> DEFINE r == th[t]
        <4> HIDE DEF r
        <4>3. IsCall(r) /\ r.pc = "rx" /\ r.mbuf = NoBuf /\ rec = [r EXCEPT !.burst = rest]
          BY <4>1, <4>2 DEF r
        <4> QED  BY <4>3, BurstValue
      <3> QED  BY <1>5, <1>7, <2>2, <3>1, RxCall
    <2> QED  BY <2>1, <2>2
  <1>9. ASSUME NEW m \in Mbuf
        PROVE  /\ Occurrences(rest, m) > 0 => Occurrences(b, m) > 0 /\ m # k
               /\ Occurrences(b, k) > 0
    <2>1. ASSUME Occurrences(rest, m) > 0 PROVE Occurrences(b, m) > 0 /\ m # k
      <3>1. PICK i \in 1..Len(rest) : rest[i].mbuf = m
        BY <1>5, <2>1, OccursSomewhere
      <3>2. i + 1 \in 1..Len(b) /\ b[i + 1].mbuf = m /\ 1 \in 1..Len(b) /\ i + 1 # 1
        BY <1>5, <3>1
      <3>3. m # k
        BY <1>3, <1>6, <3>2
      <3>4. Occurrences(b, m) > 0
        BY <1>3, <3>2, OccursSomewhere
      <3> QED  BY <3>3, <3>4
    <2>2. Occurrences(b, k) > 0
      <3>1. 1 \in 1..Len(b)
        BY <1>3, <1>5
      <3> QED  BY <1>3, <1>6, <3>1, OccursSomewhere
    <2> QED  BY <2>1, <2>2
  <1>10. /\ CallsOK(new)
         /\ \A u \in DriverThread : new[u] = IF u = t THEN rec ELSE th[u]
         /\ \A m \in Mbuf :
              /\ Refs(DriverThread, th, m) \in Nat /\ InBursts(th, m) \in Nat
              /\ Refs(DriverThread, new, m) \in Nat /\ InBursts(new, m) \in Nat
              /\ Refs(DriverThread, new, m) = Refs(DriverThread, th, m)
                   - (IF th[t].mbuf = m THEN 1 ELSE 0) + (IF rec.mbuf = m THEN 1 ELSE 0)
              /\ InBursts(new, m) = InBursts(th, m)
                   - (IF Occurrences(b, m) > 0 THEN 1 ELSE 0)
                   + (IF Occurrences(rec.burst, m) > 0 THEN 1 ELSE 0)
    BY <1>1, <1>8, ThreadCounts DEF b
  <1> HIDE DEF new
  <1>11. ASSUME NEW m \in Mbuf
         PROVE  /\ Refs(DriverThread, new, m) = Refs(DriverThread, th, m)
                /\ InBursts(new, m) + (IF k = m THEN 1 ELSE 0) <= InBursts(th, m)
    <2>1. /\ InBursts(th, m) \in Nat /\ InBursts(new, m) \in Nat /\ Refs(DriverThread, th, m) \in Nat
          /\ InBursts(new, m) = InBursts(th, m)
                   - (IF Occurrences(b, m) > 0 THEN 1 ELSE 0)
                   + (IF Occurrences(rest, m) > 0 THEN 1 ELSE 0)
          /\ Refs(DriverThread, new, m) = Refs(DriverThread, th, m)
                   - (IF th[t].mbuf = m THEN 1 ELSE 0) + (IF rec.mbuf = m THEN 1 ELSE 0)
      BY <1>8, <1>10
    <2>2. th[t].mbuf # m /\ rec.mbuf # m
      BY <1>3, <1>8, MbufFinite
    <2>3. /\ Occurrences(rest, m) > 0 => Occurrences(b, m) > 0 /\ m # k
          /\ m = k => Occurrences(b, m) > 0
      BY <1>9
    <2> QED  BY <2>1, <2>2, <2>3
  <1>12. ASSUME NEW m \in Mbuf
         PROVE  /\ f[m].refcnt >= Clones(f, m) + Held(pool, new, tx, nic, ring, rx, m) + (IF k = m THEN 1 ELSE 0)
                /\ f[m].refcnt >= Clones(f, m) + Held(pool, new, tx, nic, ring, rx, m)
    <2>1. /\ f[m].refcnt \in Nat /\ Clones(f, m) \in Nat
          /\ Refs(DpdkPacket, pool, m) \in Nat /\ Refs(DriverThread, th, m) \in Nat
          /\ Occurrences(tx, m) \in Nat /\ Occurrences(rx, m) \in Nat
          /\ InNic(nic, m) \in Nat /\ InRing(ring, m) \in Nat /\ InBursts(th, m) \in Nat
          /\ InBursts(new, m) \in Nat
      BY <1>1, <1>10, CountTypes
    <2>2. f[m].refcnt >= Clones(f, m) + (Refs(DpdkPacket, pool, m) + Occurrences(tx, m) + InNic(nic, m)
            + InRing(ring, m) + Occurrences(rx, m) + Refs(DriverThread, th, m) + InBursts(th, m))
      BY <1>1 DEF Counted, Held
    <2> DEFINE one == IF k = m THEN 1 ELSE 0
    <2>4. one \in Nat /\ InBursts(new, m) + one <= InBursts(th, m)
      BY <1>11
    <2> HIDE DEF one
    <2>5. /\ f[m].refcnt >= Clones(f, m) + (Refs(DpdkPacket, pool, m) + Occurrences(tx, m) + InNic(nic, m)
            + InRing(ring, m) + Occurrences(rx, m) + Refs(DriverThread, th, m) + InBursts(new, m)) + one
          /\ f[m].refcnt >= Clones(f, m) + (Refs(DpdkPacket, pool, m) + Occurrences(tx, m) + InNic(nic, m)
            + InRing(ring, m) + Occurrences(rx, m) + Refs(DriverThread, th, m) + InBursts(new, m))
      <3>1. InRing(ring, m) + Occurrences(rx, m) + InBursts(new, m) + one
              <= InRing(ring, m) + Occurrences(rx, m) + InBursts(th, m)
        BY <2>1, <2>4
      <3> QED  BY <2>1, <2>2, <2>4, <3>1, MovedReferences
    <2>6. Refs(DriverThread, new, m) = Refs(DriverThread, th, m)
      BY <1>11
    <2> QED  BY <2>5, <2>6 DEF Held, one
  <1>13. Counted(f, pool, new, tx, nic, ring, rx)
    BY <1>12 DEF Counted
  <1>14. f[k].refcnt >= Clones(f, k) + Held(pool, new, tx, nic, ring, rx, k) + 1
    BY <1>6, <1>12
  <1>15. RxOnce(f, new, ring, rx)
    <2> SUFFICES ASSUME NEW m \in Mbuf, InRing(ring, m) + Occurrences(rx, m) + InBursts(new, m) > 0
                 PROVE  f[m].refcnt <= 1
      BY DEF RxOnce
    <2>1. /\ Occurrences(rx, m) \in Nat /\ InRing(ring, m) \in Nat /\ InBursts(th, m) \in Nat
          /\ InBursts(new, m) \in Nat
      BY <1>1, <1>10, CountTypes
    <2>2. InBursts(new, m) <= InBursts(th, m)
      BY <1>11, <2>1
    <2>3. InRing(ring, m) + Occurrences(rx, m) + InBursts(th, m) > 0
      BY <2>1, <2>2
    <2> QED  BY <1>1, <2>3 DEF RxOnce
  <1>16. TxKept(f, new, tx, nic)
    BY <1>1, <1>8, <1>10 DEF TxKept
  <1>17. CountsOK(f, pool, new, tx, nic, ring, rx)
    BY <1>1, <1>10, <1>13, <1>15, <1>16 DEF CountsOK
  <1>18. InHand(f, pool, new, tx, nic, ring, rx, k) /\ Head(b) \in RxFrame
    BY <1>5, <1>6, <1>14, <1>17 DEF InHand
  <1> QED  BY <1>18 DEF new, k, b

-----------------------------------------------------------------------------
(* The steps of the driver. *)

(* The invariant, for mbufs f and everything else as it is.                  *)
Now(f) == CountsOK(f, packetPool, thread, txBuffer, nicQueue, loopbackRing, rxQueue)

(* The pool gives out the first of its mbufs.                                *)
LEMMA FirstFree ==
  ASSUME NEW free \in SUBSET Mbuf, free # {}
  PROVE  (CHOOSE m \in free : \A n \in free : m <= n) \in free
  <1>1. free \in SUBSET Nat
    BY MbufFinite
  <1>2. \E x \in free : \A y \in free : x <= y
    BY <1>1, LeastNat
  <1> QED  BY <1>2

(* An mbuf that the call under way may write to: only Packets refer to it.   *)
Writable(k) ==
  /\ k \in Mbuf /\ mbufs[k].attached = NoBuf
  /\ Refs(DpdkPacket, packetPool, k) \in 0..1
  /\ mbufs[k].refcnt = Refs(DpdkPacket, packetPool, k)

(* Nobody refers to a free mbuf.                                            *)
LEMMA FreeWritable ==
  ASSUME Now(mbufs), NEW k \in Mbuf, mbufs[k].refcnt = 0
  PROVE  Writable(k) /\ Refs(DpdkPacket, packetPool, k) = 0
  <1>1. MbufsOK(mbufs) /\ Counted(mbufs, packetPool, thread, txBuffer, nicQueue, loopbackRing, rxQueue)
    BY DEF Now, CountsOK
  <1>2. mbufs[k].attached = NoBuf
    BY <1>1 DEF MbufsOK, MbufOK
  <1>3. Refs(DpdkPacket, packetPool, k) \in Nat
    BY CountTypes DEF Now, CountsOK
  <1>4. mbufs[k].refcnt <= Refs(DpdkPacket, packetPool, k)
    BY <1>3
  <1>5. mbufs[k].refcnt = Refs(DpdkPacket, packetPool, k)
    BY <1>4, NowhereElse DEF Now
  <1> QED  BY <1>2, <1>3, <1>5 DEF Writable

(* rte_pktmbuf_alloc returns an mbuf that nobody refers to.                 *)
LEMMA NextMbufFree ==
  ASSUME Now(mbufs), Available # {}
  PROVE  /\ NextMbuf \in Mbuf /\ mbufs[NextMbuf].refcnt = 0
         /\ Writable(NextMbuf) /\ Refs(DpdkPacket, packetPool, NextMbuf) = 0
  <1>1. NextMbuf \in Mbuf /\ mbufs[NextMbuf].refcnt = 0
    <2>1. Available \in SUBSET Mbuf
      BY DEF Available
    <2>2. NextMbuf \in Available
      BY <2>1, FirstFree DEF NextMbuf
    <2> QED  BY <2>2 DEF Available
  <1> QED  BY <1>1, FreeWritable

(* An mbuf that is written to, with or without a reference for the call.     *)
LEMMA Written ==
  ASSUME Now(mbufs), NEW k, Writable(k), NEW rec, IsMbuf(rec), rec.attached = NoBuf,
         rec.refcnt >= mbufs[k].refcnt
  PROVE  /\ Now(Put(mbufs, k, rec)) /\ Put(mbufs, k, rec)[k] = rec
         /\ \A m \in Mbuf : m # k => Put(mbufs, k, rec)[m] = mbufs[m]
         /\ rec.refcnt >= mbufs[k].refcnt + 1
              => InHand(Put(mbufs, k, rec), packetPool, thread, txBuffer, nicQueue, loopbackRing, rxQueue, k)
  <1>1. /\ k \in Mbuf /\ mbufs[k].attached = NoBuf
        /\ Refs(DpdkPacket, packetPool, k) \in Nat
        /\ mbufs[k].refcnt = Refs(DpdkPacket, packetPool, k)
        /\ mbufs[k].refcnt <= Refs(DpdkPacket, packetPool, k)
    BY DEF Writable
  <1>2. MbufOK(rec)
    BY DEF MbufOK
  <1>3. /\ Now(Put(mbufs, k, rec))
        /\ rec.refcnt >= mbufs[k].refcnt + 1
              => InHand(Put(mbufs, k, rec), packetPool, thread, txBuffer, nicQueue, loopbackRing, rxQueue, k)
    BY <1>1, <1>2, WriteLemma DEF Now
  <1>4. MbufsOK(mbufs)
    BY DEF Now, CountsOK
  <1>5. \A m \in Mbuf : Put(mbufs, k, rec)[m] = IF m = k THEN rec ELSE mbufs[m]
    BY <1>1, <1>2, <1>4, ClonesChange
  <1> QED  BY <1>1, <1>3, <1>5

(* The mbuf of a Packet that is sent may be written to: it is not still       *)
(* being sent, is not shared, and no other Packet holds it.                   *)
LEMMA SendWritable ==
  ASSUME Now(mbufs), NEW p \in DpdkPacket, packetPool[p].from = "alloc", Sendable(p)
  PROVE  /\ Writable(SendMbuf(p))
         /\ packetPool[p].bufType = "MBUF" <=> mbufs[SendMbuf(p)].refcnt = 1
  <1>1. CASE packetPool[p].bufType = "MBUF"
    <2> DEFINE k == packetPool[p].mbuf
    <2>1. SendMbuf(p) = k /\ ~(mbufs[k].refcnt > 1)
      BY <1>1 DEF SendMbuf, Sendable, StillSending
    <2>2. /\ MbufsOK(mbufs) /\ PacketsOK(packetPool) /\ CallsOK(thread)
          /\ QueuesOK(txBuffer, nicQueue, loopbackRing, rxQueue)
          /\ Counted(mbufs, packetPool, thread, txBuffer, nicQueue, loopbackRing, rxQueue)
          /\ AllocWhole(mbufs, packetPool)
      BY DEF Now, CountsOK
    <2>3. k \in Mbuf /\ mbufs[k].attached = NoBuf
      BY <1>1, <2>2 DEF PacketsOK, PacketOK, AllocWhole
    <2>4. Refs(DpdkPacket, packetPool, k) > 0
      <3> DEFINE A == {q \in DpdkPacket : packetPool[q].mbuf = packetPool[p].mbuf}
      <3>1. A \in SUBSET DpdkPacket /\ A # {}
        OBVIOUS
      <3>2. IsFiniteSet(DpdkPacket)
        BY DpdkAssumption, PositionsFinite DEF DpdkPacket
      <3>3. Cardinality(A) > 0
        <4> HIDE DEF A
        <4> QED  BY <3>1, <3>2, FS_Subset, CountsSome
      <3> QED  BY <3>3 DEF Refs
    <2> HIDE DEF k
    <2>5. mbufs[k].refcnt \in Nat /\ Refs(DpdkPacket, packetPool, k) \in Nat
      BY <2>2, <2>3, CountTypes
    <2>6. mbufs[k].refcnt <= Refs(DpdkPacket, packetPool, k)
      BY <2>1, <2>4, <2>5
    <2>7. mbufs[k].refcnt = Refs(DpdkPacket, packetPool, k)
      BY <2>3, <2>6, NowhereElse DEF Now
    <2>8. mbufs[k].refcnt = 1
      BY <2>1, <2>4, <2>5, <2>7
    <2> QED  BY <1>1, <2>1, <2>3, <2>7, <2>8 DEF Writable
  <1>2. CASE packetPool[p].bufType # "MBUF"
    <2>1. SendMbuf(p) = NextMbuf /\ Available # {}
      BY <1>2 DEF SendMbuf, Sendable
    <2>2. Writable(NextMbuf) /\ mbufs[NextMbuf].refcnt = 0
      BY <2>1, NextMbufFree
    <2> QED  BY <1>2, <2>1, <2>2
  <1> QED  BY <1>1, <1>2

(* The headers that sendPacket writes.                                       *)
Headed(h, priority) ==
  IsMbuf(h) /\ h.refcnt = 1 /\ h.attached = NoBuf /\ h.priority = priority /\ h.length = FrameLength

(* sendPacket leaves the mbuf with one reference and its header written.    *)
LEMMA PreparedFrame ==
  ASSUME Now(mbufs), NEW p \in DpdkPacket, packetPool[p].from = "alloc", Sendable(p), NEW priority
  PROVE  \E h : Headed(h, priority) /\ Prepared(p, priority) = Put(mbufs, SendMbuf(p), h)
  <1> DEFINE k == SendMbuf(p)
             g == WithCopy(p)
             h == Header(g[k], priority, FrameLength)
  <1>1. Writable(k) /\ (packetPool[p].bufType = "MBUF" <=> mbufs[k].refcnt = 1)
    BY SendWritable
  <1>2. k \in Mbuf /\ mbufs[k].attached = NoBuf
    BY <1>1 DEF Writable
  <1>3. mbufs = [m \in Mbuf |-> mbufs[m]] /\ IsMbuf(mbufs[k])
    BY <1>2 DEF Now, CountsOK, MbufsOK, MbufOK
  <1>4. Prepared(p, priority) = [g EXCEPT ![k] = h]
    BY DEF Prepared, FrameLength, Header
  <1>5. /\ IsMbuf(g[k]) /\ g[k].refcnt = 1 /\ g[k].attached = NoBuf
        /\ \A x : [g EXCEPT ![k] = x] = [mbufs EXCEPT ![k] = x]
    <2>1. CASE packetPool[p].bufType = "MBUF"
      <3>1. g = mbufs
        BY <2>1 DEF WithCopy
      <3> HIDE DEF g, k
      <3> QED  BY <1>1, <1>2, <1>3, <2>1, <3>1
    <2>2. CASE packetPool[p].bufType # "MBUF"
      <3>1. g = [mbufs EXCEPT ![k] = Frame(FrameLength)]
        BY <2>2 DEF WithCopy, SendMbuf, FrameLength
      <3>2. /\ IsMbuf(Frame(FrameLength)) /\ Frame(FrameLength).refcnt = 1
            /\ Frame(FrameLength).attached = NoBuf
        BY FrameRecords
      <3> HIDE DEF g, k
      <3>3. g[k] = Frame(FrameLength) /\ \A x : [g EXCEPT ![k] = x] = [mbufs EXCEPT ![k] = x]
        BY <1>2, <1>3, <3>1
      <3> QED  BY <3>2, <3>3
    <2> QED  BY <2>1, <2>2
  <1> HIDE DEF g, k
  <1>6. IsMbuf(h) /\ h.refcnt = 1 /\ h.attached = NoBuf /\ h.priority = priority /\ h.length = FrameLength
    BY <1>5, HeaderChange
  <1> HIDE DEF h
  <1>7. Headed(h, priority) /\ Prepared(p, priority) = Put(mbufs, k, h)
    BY <1>4, <1>5, <1>6 DEF Headed, Put
  <1> QED  BY <1>7 DEF k

(* The bytes of frames that are all of the same length.                      *)
LEMMA BytesOf ==
  ASSUME NEW frames, Len(frames) \in Nat,
         \A i \in 1..Len(frames) : mbufs[frames[i].mbuf].length = FrameLength
  PROVE  Bytes(frames) = Len(frames) * FrameLength
  <1> DEFINE n == Len(frames)
             length(i) == mbufs[frames[i].mbuf].length
             Sums(f) == f = [i \in 0..n |-> IF i = 0 THEN 0 ELSE f[i - 1] + length(i)]
             upTo == CHOOSE f : Sums(f)
             L == FrameLength
             multiples == [i \in 0..n |-> i * L]
  <1>1. L \in Nat
    BY DpdkAssumption DEF FrameLength
  <1>2. n \in Nat /\ \A i \in 1..n : length(i) = L
    OBVIOUS
  <1>3. Bytes(frames) = upTo[n]
    BY DEF Bytes
  <1> HIDE DEF n, length, L
  <1>4. Sums(multiples)
    <2>1. ASSUME NEW i \in 0..n
          PROVE  i * L = IF i = 0 THEN 0 ELSE multiples[i - 1] + length(i)
      <3>1. CASE i = 0
        BY <1>1, <3>1
      <3>2. CASE i # 0
        <4>1. i - 1 \in 0..n /\ i \in 1..n
          BY <1>2, <3>2
        <4>2. multiples[i - 1] = (i - 1) * L /\ length(i) = L
          BY <1>2, <4>1
        <4>3. (i - 1) * L + L = i * L
          BY <1>1, <1>2
        <4> QED  BY <3>2, <4>2, <4>3
      <3> QED  BY <3>1, <3>2
    <2> QED  BY <2>1
  <1>5. Sums(upTo)
    <2> HIDE DEF Sums, multiples
    <2> QED  BY <1>4
  <1> HIDE DEF upTo
  <1>6. \A i \in 0..n : upTo[i] = i * L
    <2> DEFINE W == {i \in 0..n : upTo[i] # i * L}
    <2> SUFFICES ASSUME W # {} PROVE FALSE
      OBVIOUS
    <2>1. W \in SUBSET Nat
      BY <1>2
    <2>2. PICK x \in W : \A y \in W : x <= y
      <3> HIDE DEF W
      <3> QED  BY <2>1, LeastNat
    <2>3. CASE x = 0
      BY <1>1, <1>2, <1>5, <2>2, <2>3
    <2>4. CASE x # 0
      <3>1. x - 1 \in 0..n /\ x \in 1..n /\ x - 1 \notin W
        BY <1>2, <2>2, <2>4
      <3>2. upTo[x - 1] = (x - 1) * L
        BY <3>1
      <3>3. upTo[x] = upTo[x - 1] + length(x)
        BY <1>5, <2>4, <3>1
      <3>4. (x - 1) * L + L = x * L
        BY <1>1, <1>2, <3>1
      <3> QED  BY <1>2, <2>2, <3>1, <3>2, <3>3, <3>4
    <2> QED  BY <2>3, <2>4
  <1>7. n \in 0..n
    BY <1>2
  <1>8. Bytes(frames) = n * L
    BY <1>3, <1>6, <1>7
  <1> QED  BY <1>8 DEF n, L

(* The inductive invariant of the reference counts and of the bytes.         *)
MbufInv == Now(mbufs) /\ bufferedBytes = Len(txBuffer) * FrameLength

(* The driver starts with all mbufs free.                                   *)
LEMMA MbufInvInit == DpdkInit => MbufInv
  <1> SUFFICES ASSUME DpdkInit PROVE MbufInv
    OBVIOUS
  <1> DEFINE none == <<>>
  <1>1. /\ mbufs = [m \in Mbuf |-> FreeMbuf] /\ packetPool = [p \in DpdkPacket |-> Unused]
        /\ loopbackRing = none /\ rxQueue = none /\ txBuffer = none /\ nicQueue = {}
        /\ thread = [t \in DriverThread |-> Idle] /\ bufferedBytes = 0
    BY DEF DpdkInit
  <1>2. /\ none \in Seq(TxFrame) /\ none \in Seq(RxFrame) /\ none \in Seq(Mbuf) /\ Len(none) = 0
    OBVIOUS
  <1> HIDE DEF none
  <1>3. \A m \in Mbuf : mbufs[m] = FreeMbuf
    BY <1>1
  <1>4. MbufsOK(mbufs)
    <2>1. MbufOK(FreeMbuf)
      BY FrameRecords DEF MbufOK
    <2>2. mbufs = [m \in Mbuf |-> mbufs[m]]
      BY <1>1
    <2> QED  BY <1>3, <2>1, <2>2 DEF MbufsOK
  <1>5. PacketsOK(packetPool) /\ \A p \in DpdkPacket : packetPool[p] = Unused
    BY <1>1 DEF PacketsOK, PacketOK, Unused
  <1>6. CallsOK(thread) /\ \A t \in DriverThread : thread[t] = Idle
    <2>1. \A t \in DriverThread : thread[t] = Idle
      BY <1>1
    <2>2. thread = [t \in DriverThread |-> thread[t]]
      BY <1>1
    <2> QED  BY <2>1, <2>2, IdleOK DEF CallsOK
  <1>7. QueuesOK(txBuffer, nicQueue, loopbackRing, rxQueue)
    BY <1>1, <1>2, FS_EmptySet DEF QueuesOK
  <1>8. ASSUME NEW m \in Mbuf
        PROVE  /\ Clones(mbufs, m) = 0
               /\ Held(packetPool, thread, txBuffer, nicQueue, loopbackRing, rxQueue, m) = 0
               /\ mbufs[m].refcnt = 0
    <2>0. mbufs[m].refcnt = 0
      BY <1>3, FrameRecords
    <2>1. Clones(mbufs, m) = 0
      <3>1. {n \in Mbuf : mbufs[n].attached = m} = {}
        BY <1>3, FrameRecords, MbufFinite
      <3> QED  BY <3>1, FS_EmptySet DEF Clones
    <2>2. Refs(DpdkPacket, packetPool, m) = 0
      <3>1. {p \in DpdkPacket : packetPool[p].mbuf = m} = {}
        BY <1>5, MbufFinite DEF Unused
      <3> QED  BY <3>1, FS_EmptySet DEF Refs
    <2>3. Refs(DriverThread, thread, m) = 0
      <3>1. {t \in DriverThread : thread[t].mbuf = m} = {}
        BY <1>6, IdleOK, MbufFinite
      <3> QED  BY <3>1, FS_EmptySet DEF Refs
    <2>4. InNic(nicQueue, m) = 0
      <3>1. {q \in nicQueue : q.mbuf = m} = {}
        BY <1>1
      <3> QED  BY <3>1, FS_EmptySet DEF InNic
    <2>5. Occurrences(none, m) = 0 /\ InRing(none, m) = 0
      BY EmptyQueue DEF none
    <2>6. InBursts(thread, m) = 0
      <3>1. Idle.burst = none
        BY IdleOK DEF none
      <3>2. {t \in DriverThread : Occurrences(thread[t].burst, m) > 0} = {}
        BY <1>6, <2>5, <3>1
      <3> QED  BY <3>2, FS_EmptySet DEF InBursts
    <2> QED  BY <1>1, <2>0, <2>1, <2>2, <2>3, <2>4, <2>5, <2>6 DEF Held
  <1>9. Counted(mbufs, packetPool, thread, txBuffer, nicQueue, loopbackRing, rxQueue)
    BY <1>8 DEF Counted
  <1>10. TxKept(mbufs, thread, txBuffer, nicQueue)
    BY <1>1, <1>2, <1>6, IdleOK DEF TxKept
  <1>11. AllocWhole(mbufs, packetPool)
    BY <1>5 DEF AllocWhole, Unused
  <1>12. RxOnce(mbufs, thread, loopbackRing, rxQueue)
    BY <1>8 DEF RxOnce
  <1>13. Now(mbufs)
    BY <1>4, <1>5, <1>6, <1>7, <1>9, <1>10, <1>11, <1>12 DEF Now, CountsOK
  <1>14. FrameLength \in Nat
    BY DpdkAssumption DEF FrameLength
  <1> QED  BY <1>1, <1>2, <1>13, <1>14 DEF MbufInv

(* allocPacket and sendPacket and receivePackets count what they hand on,    *)
(* releasePackets, the NIC and the flush free what they give up.             *)
LEMMA MbufInvNext == MbufInv /\ [DpdkNext]_dpdkVars => MbufInv'
  <1> SUFFICES ASSUME MbufInv, [DpdkNext]_dpdkVars PROVE MbufInv'
    OBVIOUS
  <1>0. /\ Now(mbufs) /\ bufferedBytes = Len(txBuffer) * FrameLength
        /\ CountsOK(mbufs, packetPool, thread, txBuffer, nicQueue, loopbackRing, rxQueue)
    BY DEF MbufInv, Now
  <1>b. ASSUME CountsOK(mbufs', packetPool', thread', txBuffer', nicQueue', loopbackRing', rxQueue'),
               bufferedBytes' = Len(txBuffer') * FrameLength
        PROVE  MbufInv'
    BY <1>b DEF MbufInv, Now
  <1>a. ASSUME CountsOK(mbufs', packetPool', thread', txBuffer', nicQueue', loopbackRing', rxQueue'),
               UNCHANGED <<txBuffer, bufferedBytes>>
        PROVE  MbufInv'
    BY <1>0, <1>a, <1>b
  <1>c. PacketsOK(packetPool) /\ CallsOK(thread) /\ QueuesOK(txBuffer, nicQueue, loopbackRing, rxQueue)
    BY <1>0 DEF CountsOK
  <1>d. \A p \in DpdkPacket : /\ packetPool[p].bufType # "MBUF" => packetPool[p].mbuf = NoBuf
                              /\ packetPool[p].bufType = "MBUF" => packetPool[p].mbuf \in Mbuf
    BY <1>c DEF PacketsOK, PacketOK
  <1>e. /\ \A m \in Mbuf : \A from : LET r == MbufPacket(m, from)
                                     IN  PacketOK(r) /\ r.mbuf = m /\ r.from = from
        /\ \A from : PacketOK(OverflowPacket(from)) /\ OverflowPacket(from).mbuf = NoBuf
        /\ PacketOK(Unused) /\ Unused.mbuf = NoBuf
    BY DEF PacketOK, MbufPacket, OverflowPacket, Unused
  <1>f. \A t \in DriverThread : CallOK(thread[t]) /\ IsCall(thread[t])
    <2>1. \A r : CallOK(r) => IsCall(r)
      BY Zenon DEF CallOK
    <2> QED  BY <1>c, <2>1 DEF CallsOK
  <1>1. CASE UNCHANGED <<mbufs, packetPool, thread, txBuffer, nicQueue, loopbackRing, rxQueue, bufferedBytes>>
    BY <1>0, <1>1, <1>a
  <1>2. CASE allocPacket
    <2>1. InUse # DpdkPacket /\ UNCHANGED <<rxVars, txVars, thread>>
      BY <1>2 DEF allocPacket
    <2>2. NextPacket \in DpdkPacket /\ packetPool[NextPacket].mbuf = NoBuf
      BY <1>d, <2>1, NextPacketFree
    <2> DEFINE q == NextPacket
               k == NextMbuf
               r == Frame(PACKET_HDR_LEN + MAX_PAYLOAD_SIZE)
    <2>3. CASE /\ Available # {}
               /\ mbufs' = [mbufs EXCEPT ![k] = r]
               /\ packetPool' = [packetPool EXCEPT ![q] = MbufPacket(k, "alloc")]
      <3>1. Writable(k) /\ k \in Mbuf /\ mbufs[k].refcnt = 0
        BY <1>0, <2>3, NextMbufFree
      <3>2. IsMbuf(r) /\ r.refcnt = 1 /\ r.attached = NoBuf
        BY FrameRecords
      <3> HIDE DEF q, k, r
      <3>3. mbufs' = Put(mbufs, k, r) /\ packetPool' = Put(packetPool, q, MbufPacket(k, "alloc"))
        BY <2>3 DEF Put
      <3>4. /\ InHand(mbufs', packetPool, thread, txBuffer, nicQueue, loopbackRing, rxQueue, k)
            /\ mbufs'[k] = r
        BY <1>0, <3>1, <3>2, <3>3, Written
      <3>5. PacketOK(MbufPacket(k, "alloc")) /\ MbufPacket(k, "alloc").mbuf = k
        BY <1>e, <3>1
      <3>6. CountsOK(mbufs', packetPool', thread, txBuffer, nicQueue, loopbackRing, rxQueue)
        BY <2>2, <3>2, <3>3, <3>4, <3>5, GivePacket DEF q
      <3> QED  BY <1>a, <2>1, <3>6 DEF rxVars, txVars
    <2>4. CASE /\ packetPool' = [packetPool EXCEPT ![q] = OverflowPacket("alloc")] /\ UNCHANGED mbufs
      <3>1. packetPool' = Put(packetPool, q, OverflowPacket("alloc"))
        BY <2>4 DEF Put
      <3>2. PacketOK(OverflowPacket("alloc")) /\ OverflowPacket("alloc").mbuf = NoBuf
        BY <1>e
      <3> HIDE DEF q
      <3>3. CountsOK(mbufs, packetPool', thread, txBuffer, nicQueue, loopbackRing, rxQueue)
        BY <1>0, <2>2, <3>1, <3>2, OtherPacket DEF q
      <3> QED  BY <1>a, <2>1, <2>4, <3>3 DEF rxVars, txVars
    <2> QED  BY <1>2, <2>3, <2>4 DEF allocPacket
  <1>3. ASSUME NEW p \in DpdkPacket, releasePacket(p) PROVE MbufInv'
    <2>1. /\ packetPool' = Put(packetPool, p, Unused) /\ UNCHANGED <<rxVars, txVars, thread>>
          /\ mbufs' = IF packetPool[p].bufType = "MBUF" THEN Freed(mbufs, packetPool[p].mbuf) ELSE mbufs
      BY <1>3 DEF releasePacket, Put
    <2>2. CASE packetPool[p].bufType = "MBUF"
      <3>1. InHand(mbufs, packetPool', thread, txBuffer, nicQueue, loopbackRing, rxQueue, packetPool[p].mbuf)
        BY <1>0, <1>d, <1>e, <2>1, <2>2, TakePacket
      <3>2. CountsOK(mbufs', packetPool', thread, txBuffer, nicQueue, loopbackRing, rxQueue)
        BY <2>1, <2>2, <3>1, FreeHand
      <3> QED  BY <1>a, <2>1, <3>2 DEF rxVars, txVars
    <2>3. CASE packetPool[p].bufType # "MBUF"
      <3>1. CountsOK(mbufs, packetPool', thread, txBuffer, nicQueue, loopbackRing, rxQueue)
        BY <1>0, <1>d, <1>e, <2>1, <2>3, OtherPacket
      <3> QED  BY <1>a, <2>1, <2>3, <3>1 DEF rxVars, txVars
    <2> QED  BY <2>2, <2>3
  <1>4. ASSUME NEW t \in DriverThread, NEW p \in DpdkPacket, sendUnresolved(t, p) PROVE MbufInv'
    <2>1. /\ packetPool[p].from = "alloc" /\ Sendable(p) /\ mbufs' = WithCopy(p)
          /\ UNCHANGED <<packetPool, rxVars, txVars, thread>>
      BY <1>4 DEF sendUnresolved, Calls
    <2>2. CASE packetPool[p].bufType = "MBUF"
      <3>1. mbufs' = mbufs
        BY <2>1, <2>2 DEF WithCopy
      <3> QED  BY <1>0, <1>a, <2>1, <3>1 DEF rxVars, txVars
    <2>3. CASE packetPool[p].bufType # "MBUF"
      <3> DEFINE k == NextMbuf
                 r == Frame(PACKET_HDR_LEN + payloadLength)
      <3>1. mbufs' = Put(mbufs, k, r) /\ Available # {}
        BY <2>1, <2>3 DEF WithCopy, Sendable, Put
      <3>2. Writable(k) /\ mbufs[k].refcnt = 0
        BY <1>0, <3>1, NextMbufFree
      <3>3. IsMbuf(r) /\ r.refcnt = 1 /\ r.attached = NoBuf
        BY FrameRecords
      <3> HIDE DEF k, r
      <3>4. Now(Put(mbufs, k, r))
        BY <1>0, <3>2, <3>3, Written
      <3> QED  BY <1>a, <2>1, <3>1, <3>4 DEF Now, rxVars, txVars
    <2> QED  BY <2>2, <2>3
  <1>5. ASSUME NEW t \in DriverThread, NEW p \in DpdkPacket, NEW priority \in Priorities,
               sendPacket(t, p, priority)
        PROVE  MbufInv'
    <2> DEFINE k == SendMbuf(p)
               rec == Sending(Idle, k, priority, p)
    <2>1. /\ packetPool[p].from = "alloc" /\ Sendable(p) /\ thread[t].pc = "idle"
          /\ mbufs' = Retain(p, Prepared(p, priority))
          /\ UNCHANGED <<packetPool, rxVars, txVars>>
      BY <1>5 DEF sendPacket, Calls
    <2>2. thread' = Put(thread, t, rec)
      BY <1>5 DEF sendPacket, Put, Sending
    <2>3. Writable(k) /\ k \in Mbuf /\ (packetPool[p].bufType = "MBUF" <=> mbufs[k].refcnt = 1)
          /\ mbufs[k].refcnt \in 0..1
      BY <1>0, <2>1, SendWritable DEF Writable
    <2>4. PICK h : Headed(h, priority) /\ Prepared(p, priority) = Put(mbufs, k, h)
      BY <1>0, <2>1, PreparedFrame
    <2>5. CallOK(rec) /\ rec.pc = "tx" /\ rec.mbuf = k /\ rec.priority = priority
      <3> HIDE DEF k
      <3>1. IsCall(rec) /\ rec.pc = "tx" /\ rec.mbuf = k /\ rec.priority = priority /\ rec.burst = <<>>
        BY IdleCall, IdleOK, SendingCall
      <3> HIDE DEF rec
      <3> QED  BY <2>3, <3>1, OtherCall
    <2> HIDE DEF rec
    <2>6. \E r : /\ mbufs' = Put(mbufs, k, r) /\ IsMbuf(r) /\ r.attached = NoBuf
                 /\ r.refcnt >= mbufs[k].refcnt + 1
                 /\ r.priority = priority /\ r.length = FrameLength
      <3>1. IsMbuf(h) /\ h.refcnt = 1 /\ h.attached = NoBuf /\ h.priority = priority /\ h.length = FrameLength
        BY <2>4 DEF Headed
      <3>2. CASE packetPool[p].bufType = "MBUF"
        <4> DEFINE g == Put(mbufs, k, h)
                   r == [h EXCEPT !.refcnt = 2]
        <4>1. mbufs' = [g EXCEPT ![k].refcnt = @ + 1]
          BY <2>1, <2>4, <3>2 DEF Retain
        <4>2. mbufs = [m \in Mbuf |-> mbufs[m]]
          BY <1>0 DEF CountsOK, MbufsOK
        <4>3. g[k] = h /\ \A x : Put(g, k, x) = Put(mbufs, k, x)
          <5> HIDE DEF k
          <5> QED  BY <2>3, <4>2 DEF Put
        <4> HIDE DEF g, k
        <4>4. mbufs' = [g EXCEPT ![k] = [g[k] EXCEPT !.refcnt = g[k].refcnt + 1]]
          BY <4>1
        <4>5. mbufs' = Put(mbufs, k, r)
          <5>1. [g[k] EXCEPT !.refcnt = g[k].refcnt + 1] = r
            BY <3>1, <4>3
          <5> HIDE DEF r
          <5> QED  BY <4>3, <4>4, <5>1 DEF Put
        <4>6. /\ IsMbuf(r) /\ r.refcnt = 2 /\ r.attached = h.attached /\ r.length = h.length
              /\ r.priority = h.priority
          BY <3>1, RefcntField
        <4> HIDE DEF r
        <4> QED  BY <2>3, <3>1, <4>5, <4>6
      <3>3. CASE packetPool[p].bufType # "MBUF"
        <4>1. mbufs' = Put(mbufs, k, h)
          BY <2>1, <2>4, <3>3 DEF Retain
        <4> HIDE DEF k
        <4>2. mbufs[k].refcnt = 0
          BY <2>3, <3>3
        <4> QED  BY <3>1, <4>1, <4>2
      <3> QED  BY <3>2, <3>3
    <2> HIDE DEF k
    <2>7. PICK r : /\ mbufs' = Put(mbufs, k, r) /\ IsMbuf(r) /\ r.attached = NoBuf
                   /\ r.refcnt >= mbufs[k].refcnt + 1
                   /\ r.priority = priority /\ r.length = FrameLength
      BY <2>6
    <2>8. r.refcnt >= mbufs[k].refcnt
      BY <2>3, <2>7, RefcntType
    <2>9. /\ InHand(mbufs', packetPool, thread, txBuffer, nicQueue, loopbackRing, rxQueue, k)
          /\ mbufs'[k] = r
      BY <1>0, <2>3, <2>7, <2>8, Written
    <2>10. Kept(mbufs', k, rec.priority)
      BY <2>5, <2>7, <2>9 DEF Kept
    <2>11. thread[t].pc \notin {"tx", "rx"}
      BY <2>1
    <2>12. CountsOK(mbufs', packetPool, thread', txBuffer, nicQueue, loopbackRing, rxQueue)
      BY <2>2, <2>5, <2>9, <2>10, <2>11, StartSend
    <2> QED  BY <1>a, <2>1, <2>12 DEF rxVars, txVars
  <1>6. ASSUME NEW t \in DriverThread, NEW p \in DpdkPacket, NEW priority \in Priorities,
               sendLoopback(t, p, priority)
        PROVE  MbufInv'
    <2> DEFINE k == SendMbuf(p)
               ready == Prepared(p, priority)
               free == {m \in Mbuf : ready[m].refcnt = 0}
               c == CHOOSE m \in free : \A n \in free : m <= n
    <2>1. /\ packetPool[p].from = "alloc" /\ Sendable(p)
          /\ UNCHANGED <<packetPool, rxQueue, txVars, thread>>
      BY <1>6 DEF sendLoopback, Calls
    <2>2. \/ mbufs' = ready /\ UNCHANGED loopbackRing
          \/ /\ free # {}
             /\ mbufs' = [ready EXCEPT ![k].refcnt = @ + 1,
                                       ![c] = [ready[k] EXCEPT !.refcnt = 1, !.attached = k]]
             /\ loopbackRing' = Append(loopbackRing, c)
      BY <1>6 DEF sendLoopback
    <2>3. Writable(k) /\ k \in Mbuf /\ mbufs[k].refcnt \in 0..1
      BY <1>0, <2>1, SendWritable DEF Writable
    <2>4. PICK h : Headed(h, priority) /\ ready = Put(mbufs, k, h)
      BY <1>0, <2>1, PreparedFrame
    <2>5. IsMbuf(h) /\ h.refcnt = 1 /\ h.attached = NoBuf
      BY <2>4 DEF Headed
    <2>6. CASE mbufs' = ready /\ UNCHANGED loopbackRing
      <3> HIDE DEF k, ready
      <3>1. h.refcnt >= mbufs[k].refcnt
        BY <2>3, <2>5
      <3>2. Now(Put(mbufs, k, h))
        BY <1>0, <2>3, <2>5, <3>1, Written
      <3>3. CountsOK(mbufs', packetPool, thread, txBuffer, nicQueue, loopbackRing, rxQueue)
        BY <2>4, <2>6, <3>2 DEF Now
      <3> QED  BY <1>a, <2>1, <2>6, <3>3 DEF txVars
    <2>7. CASE /\ free # {}
               /\ mbufs' = [ready EXCEPT ![k].refcnt = @ + 1,
                                         ![c] = [ready[k] EXCEPT !.refcnt = 1, !.attached = k]]
               /\ loopbackRing' = Append(loopbackRing, c)
      <3> DEFINE r == [h EXCEPT !.refcnt = 2]
                 g == Put(mbufs, k, r)
                 clone == CloneOf(h, k)
      <3>1. c \in free
        <4>1. free \in SUBSET Mbuf
          OBVIOUS
        <4> HIDE DEF free
        <4> QED  BY <2>7, <4>1, FirstFree
      <3>2. c \in Mbuf /\ ready[c].refcnt = 0
        BY <3>1
      <3> HIDE DEF k, ready, c
      <3>3. mbufs = [m \in Mbuf |-> mbufs[m]]
        BY <1>0 DEF CountsOK, MbufsOK
      <3>4. /\ ready = [m \in Mbuf |-> ready[m]] /\ ready[k] = h
            /\ \A m \in Mbuf : m # k => ready[m] = mbufs[m]
        BY <2>3, <2>4, <3>3 DEF Put
      <3>5. c # k /\ mbufs[c].refcnt = 0
        BY <2>5, <3>2, <3>4
      <3>6. IsMbuf(r) /\ r.refcnt = 2 /\ r.attached = NoBuf
        <4>1. 2 \in Nat
          OBVIOUS
        <4> QED  BY <2>5, <4>1, RefcntField
      <3>7. IsMbuf(clone) /\ clone.refcnt = 1 /\ clone.attached = k
        BY <2>5, CloneRecord
      <3>8. mbufs' = Put(g, c, clone)
        <4>1. mbufs' = [ready EXCEPT ![k].refcnt = @ + 1, ![c] = clone]
          BY <2>7, <3>4 DEF CloneOf
        <4> HIDE DEF clone
        <4>2. mbufs' = [ready EXCEPT ![k] = [h EXCEPT !.refcnt = h.refcnt + 1], ![c] = clone]
          BY <3>4, <4>1
        <4>3. mbufs' = [ready EXCEPT ![k] = r, ![c] = clone]
          BY <2>5, <4>2
        <4> HIDE DEF r
        <4>4. [[ready EXCEPT ![k] = r] EXCEPT ![c] = clone] = [ready EXCEPT ![k] = r, ![c] = clone]
          BY Zenon
        <4>5. [ready EXCEPT ![k] = r] = [mbufs EXCEPT ![k] = r]
          BY <2>3, <2>4, <3>3 DEF Put
        <4> QED  BY <4>3, <4>4, <4>5 DEF Put
      <3> HIDE DEF r, clone
      <3>9. /\ InHand(g, packetPool, thread, txBuffer, nicQueue, loopbackRing, rxQueue, k)
            /\ g[c] = mbufs[c]
        <4>1. r.refcnt >= mbufs[k].refcnt /\ r.refcnt >= mbufs[k].refcnt + 1
          BY <2>3, <3>6
        <4> QED  BY <1>0, <2>3, <3>2, <3>5, <3>6, <4>1, Written
      <3> HIDE DEF g
      <3>10. MbufOK(clone)
        BY <3>7 DEF MbufOK
      <3>11. CountsOK(mbufs', packetPool, thread, txBuffer, nicQueue, loopbackRing', rxQueue)
        <4>1. loopbackRing' = Append(loopbackRing, c) /\ g[c].refcnt = 0
          BY <2>7, <3>5, <3>9
        <4> QED  BY <3>2, <3>7, <3>8, <3>9, <3>10, <4>1, QueueClone
      <3> QED  BY <1>a, <2>1, <3>11 DEF txVars
    <2> QED  BY <2>2, <2>6, <2>7
  <1>7. ASSUME NEW t \in DriverThread, cork(t) PROVE MbufInv'
    BY <1>1, <1>7 DEF cork, rxVars
  <1>8. ASSUME NEW t \in DriverThread, uncork(t) PROVE MbufInv'
    <2> DEFINE r == thread[t]
               rec == [r EXCEPT !.pc = "uncork"]
    <2>1. /\ r.pc = "idle" /\ UNCHANGED <<mbufs, packetPool, rxVars, txBuffer, nicQueue, bufferedBytes>>
          /\ thread' = Put(thread, t, rec) \/ thread' = thread
      BY <1>8 DEF uncork, Put
    <2>2. CallOK(r) /\ IsCall(r)
      BY <1>f
    <2> HIDE DEF r
    <2>3. r.mbuf = NoBuf /\ r.burst = <<>>
      BY <2>1, <2>2, CallTypes, EmptyBurst
    <2>4. IsCall(rec) /\ rec.pc = "uncork" /\ rec.mbuf = NoBuf /\ rec.burst = <<>>
      BY <2>2, <2>3, PcValue
    <2> HIDE DEF rec
    <2>5. CallOK(rec) /\ rec.pc \notin {"tx", "rx"} /\ thread[t].pc \notin {"tx", "rx"}
      BY <2>1, <2>4, OtherCall DEF r
    <2>6. CountsOK(mbufs, packetPool, thread', txBuffer, nicQueue, loopbackRing, rxQueue)
      BY <1>0, <2>1, <2>5, NeutralCall
    <2> QED  BY <1>a, <2>1, <2>6 DEF rxVars
  <1>g. ASSUME NEW th, NEW frames,
               CountsOK(mbufs, packetPool, th, frames, nicQueue, loopbackRing, rxQueue),
               Flush(frames, Len(frames) * FrameLength)
        PROVE  /\ CountsOK(mbufs', packetPool, th, txBuffer', nicQueue', loopbackRing, rxQueue)
               /\ bufferedBytes' = Len(txBuffer') * FrameLength
    <2>1. PICK k \in 0..Len(frames) :
            /\ nicQueue' = nicQueue \cup ToSet(SubSeq(frames, 1, k))
            /\ mbufs' = FreedAfter(frames, k)
            /\ txBuffer' = <<>>
            /\ bufferedBytes' = Len(frames) * FrameLength - Bytes(frames)
      BY <1>g DEF Flush
    <2>2. CountsOK(mbufs', packetPool, th, txBuffer', nicQueue', loopbackRing, rxQueue)
      BY <1>g, <2>1, FlushStep
    <2>3. /\ frames \in Seq(TxFrame)
          /\ \A i \in 1..Len(frames) : mbufs[frames[i].mbuf].length = FrameLength
      BY <1>g DEF CountsOK, QueuesOK, TxKept, Kept
    <2>4. Len(frames) \in Nat
      BY <2>3
    <2>5. Bytes(frames) = Len(frames) * FrameLength
      BY <2>3, <2>4, BytesOf
    <2>6. FrameLength \in Nat
      BY DpdkAssumption DEF FrameLength
    <2>7. Len(txBuffer') = 0
      BY <2>1
    <2> QED  BY <2>1, <2>2, <2>4, <2>5, <2>6, <2>7
  <1>9. ASSUME NEW t \in DriverThread, uncorkFlush(t) PROVE MbufInv'
    <2>1. /\ thread[t].pc = "uncork" /\ thread' = Put(thread, t, Idle)
          /\ Flush(txBuffer, bufferedBytes) /\ UNCHANGED <<packetPool, rxVars>>
      BY <1>9 DEF uncorkFlush, Put
    <2>2. CountsOK(mbufs, packetPool, thread', txBuffer, nicQueue, loopbackRing, rxQueue)
      BY <1>0, <2>1, IdleOK, NeutralCall
    <2>3. Flush(txBuffer, Len(txBuffer) * FrameLength)
      BY <1>0, <2>1
    <2>4. /\ CountsOK(mbufs', packetPool, thread', txBuffer', nicQueue', loopbackRing, rxQueue)
          /\ bufferedBytes' = Len(txBuffer') * FrameLength
      BY <1>g, <2>2, <2>3
    <2> QED  BY <1>b, <2>1, <2>4 DEF rxVars
  <1>10. ASSUME NEW t \in DriverThread, txFlushPackets(t) PROVE MbufInv'
    <2>1. /\ thread[t].pc = "txFlush" /\ thread' = Put(thread, t, Idle)
          /\ \/ Flush(txBuffer, bufferedBytes)
             \/ UNCHANGED <<nicQueue, mbufs, txBuffer, bufferedBytes>>
          /\ UNCHANGED <<packetPool, rxVars>>
      BY <1>10 DEF txFlushPackets, Put
    <2>2. CountsOK(mbufs, packetPool, thread', txBuffer, nicQueue, loopbackRing, rxQueue)
      BY <1>0, <2>1, IdleOK, NeutralCall
    <2>3. CASE Flush(txBuffer, bufferedBytes)
      <3>1. Flush(txBuffer, Len(txBuffer) * FrameLength)
        BY <1>0, <2>3
      <3>2. /\ CountsOK(mbufs', packetPool, thread', txBuffer', nicQueue', loopbackRing, rxQueue)
            /\ bufferedBytes' = Len(txBuffer') * FrameLength
        BY <1>g, <2>2, <3>1
      <3> QED  BY <1>b, <2>1, <3>2 DEF rxVars
    <2>4. CASE UNCHANGED <<nicQueue, mbufs, txBuffer, bufferedBytes>>
      BY <1>a, <2>1, <2>2, <2>4 DEF rxVars
    <2> QED  BY <2>1, <2>3, <2>4
  <1>11. ASSUME NEW t \in DriverThread, txBufferPacket(t) PROVE MbufInv'
    <2> DEFINE r == thread[t]
               frames == Append(txBuffer, [mbuf |-> r.mbuf, priority |-> r.priority])
               bytes == bufferedBytes + mbufs[r.mbuf].length
    <2>1. /\ r.pc = "tx" /\ thread' = Put(thread, t, Buffered(r))
          /\ \/ Flush(frames, bytes)
             \/ txBuffer' = frames /\ bufferedBytes' = bytes /\ UNCHANGED <<nicQueue, mbufs>>
          /\ UNCHANGED <<packetPool, rxVars>>
      BY <1>11 DEF txBufferPacket, Put, Buffered
    <2>2. /\ IsCall(Buffered(r)) /\ Buffered(r).pc = "txFlush" /\ Buffered(r).mbuf = NoBuf
          /\ Buffered(r).burst = <<>>
      <3>1. CallOK(r) /\ IsCall(r)
        BY <1>f
      <3> HIDE DEF r
      <3> QED  BY <2>1, <3>1, BufferedCall, EmptyBurst
    <2>3. CallOK(Buffered(r)) /\ Buffered(r).pc \notin {"tx", "rx"}
      <3> DEFINE new == Buffered(r)
      <3>1. IsCall(new) /\ new.pc = "txFlush" /\ new.mbuf = NoBuf /\ new.burst = <<>>
        BY <2>2
      <3> HIDE DEF new
      <3>2. CallOK(new) /\ new.pc \notin {"tx", "rx"}
        BY <3>1, OtherCall
      <3> QED  BY <3>2 DEF new
    <2>4. CountsOK(mbufs, packetPool, thread', frames, nicQueue, loopbackRing, rxQueue)
      BY <1>0, <2>1, <2>3, BufferFrame
    <2>5. bytes = Len(frames) * FrameLength
      <3>1. mbufs[r.mbuf].length = FrameLength
        BY <1>0, <2>1 DEF CountsOK, TxKept, Kept
      <3>2. txBuffer \in Seq(TxFrame)
        BY <1>c DEF QueuesOK
      <3>3. Len(txBuffer) \in Nat /\ Len(frames) = Len(txBuffer) + 1
        BY <3>2
      <3>4. FrameLength \in Nat
        BY DpdkAssumption DEF FrameLength
      <3> HIDE DEF frames
      <3>5. Len(txBuffer) * FrameLength + FrameLength = (Len(txBuffer) + 1) * FrameLength
        BY <3>3, <3>4
      <3> QED  BY <1>0, <3>1, <3>3, <3>5
    <2> HIDE DEF frames, bytes
    <2>6. CASE Flush(frames, bytes)
      <3>1. Flush(frames, Len(frames) * FrameLength)
        BY <2>5, <2>6
      <3>2. /\ CountsOK(mbufs', packetPool, thread', txBuffer', nicQueue', loopbackRing, rxQueue)
            /\ bufferedBytes' = Len(txBuffer') * FrameLength
        BY <1>g, <2>4, <3>1
      <3> QED  BY <1>b, <2>1, <3>2 DEF rxVars
    <2>7. CASE txBuffer' = frames /\ bufferedBytes' = bytes /\ UNCHANGED <<nicQueue, mbufs>>
      BY <1>b, <2>1, <2>4, <2>5, <2>7 DEF rxVars
    <2> QED  BY <2>1, <2>6, <2>7
  <1>12. ASSUME NEW t \in DriverThread, receiveBurst(t, 2) PROVE MbufInv'
    <2> DEFINE l == Smaller(Len(loopbackRing), 2 \div 2)
               n == Smaller(Len(rxQueue), 2 - l)
               got == Burst(loopbackRing, l, rxQueue, n)
               r == thread[t]
               rec == Receiving(r, got)
    <2>1. /\ r.pc = "idle" /\ l + n > 0 /\ UNCHANGED <<mbufs, packetPool, txVars>>
          /\ loopbackRing' = SubSeq(loopbackRing, l + 1, Len(loopbackRing))
          /\ rxQueue' = SubSeq(rxQueue, n + 1, Len(rxQueue))
      BY <1>12 DEF receiveBurst
    <2>2. thread' = [thread EXCEPT ![t].pc = "rx", ![t].burst = got]
      BY <1>12 DEF receiveBurst, Burst
    <2>3. l \in 0..Len(loopbackRing) /\ n \in 0..Len(rxQueue)
      <3>1. loopbackRing \in Seq(Mbuf) /\ rxQueue \in Seq(RxFrame)
        BY <1>c DEF QueuesOK
      <3>2. Len(loopbackRing) \in Nat /\ Len(rxQueue) \in Nat
        BY <3>1
      <3>3. l \in 0..Len(loopbackRing) /\ l <= 1
        BY <3>2 DEF Smaller
      <3> HIDE DEF l
      <3>4. n \in 0..Len(rxQueue)
        BY <3>2, <3>3 DEF Smaller
      <3> QED  BY <3>3, <3>4
    <2> HIDE DEF l, n, got
    <2>4. thread' = Put(thread, t, rec)
      <3>1. thread = [u \in DriverThread |-> thread[u]]
        BY <1>c DEF CallsOK
      <3> QED  BY <2>2, <3>1 DEF Put, Receiving
    <2>5. CallOK(r) /\ IsCall(r)
      BY <1>f
    <2> HIDE DEF r
    <2>6. r.mbuf = NoBuf
      BY <2>1, <2>5, CallTypes
    <2>7. IsCall(rec) /\ rec.pc = "rx" /\ rec.mbuf = NoBuf /\ rec.burst = got
      BY <2>5, <2>6, ReceivingCall
    <2> HIDE DEF rec
    <2>8. StartsBurst(rec, loopbackRing, l, rxQueue, n)
      BY <2>1, <2>3, <2>7 DEF StartsBurst, got
    <2>9. thread[t].pc \notin {"tx", "rx"}
      BY <2>1 DEF r
    <2>10. CountsOK(mbufs, packetPool, thread', txBuffer, nicQueue, loopbackRing', rxQueue')
      BY <1>0, <2>1, <2>4, <2>8, <2>9, TakeBurst
    <2> QED  BY <1>a, <2>1, <2>10 DEF txVars
  <1>13. ASSUME NEW t \in DriverThread, receivePacket(t) PROVE MbufInv'
    <2> DEFINE f == Head(thread[t].burst)
               k == f.mbuf
               q == NextPacket
               rec == AfterFrame(thread[t])
    <2>1. thread[t].pc = "rx" /\ UNCHANGED <<rxVars, txVars>>
      BY <1>13 DEF receivePacket
    <2>2. thread' = Put(thread, t, rec)
      BY <1>13 DEF receivePacket, Put, AfterFrame
    <2>3. \/ mbufs' = Freed(mbufs, k) /\ UNCHANGED packetPool
          \/ /\ InUse # DpdkPacket /\ UNCHANGED mbufs
             /\ \/ packetPool' = [packetPool EXCEPT ![q] = MbufPacket(k, "receive")]
                \/ packetPool' = [packetPool EXCEPT ![q] = OverflowPacket("receive")]
      BY <1>13 DEF receivePacket
    <2>4. InHand(mbufs, packetPool, thread', txBuffer, nicQueue, loopbackRing, rxQueue, k)
      <3> HIDE DEF rec
      <3>1. rec = AfterFrame(thread[t])
        BY DEF rec
      <3> QED  BY <1>0, <2>1, <2>2, <3>1, TakeFrame
    <2> HIDE DEF k, q, rec
    <2>5. CASE mbufs' = Freed(mbufs, k) /\ UNCHANGED packetPool
      <3>1. CountsOK(mbufs', packetPool, thread', txBuffer, nicQueue, loopbackRing, rxQueue)
        BY <2>4, <2>5, FreeHand
      <3> QED  BY <1>a, <2>1, <2>5, <3>1 DEF rxVars, txVars
    <2>6. CASE InUse # DpdkPacket /\ UNCHANGED mbufs /\ packetPool' = [packetPool EXCEPT ![q] = MbufPacket(k, "receive")]
      <3> DEFINE new == MbufPacket(k, "receive")
      <3>1. q \in DpdkPacket /\ packetPool[q].mbuf = NoBuf
        BY <1>d, <2>6, NextPacketFree DEF q
      <3>2. k \in Mbuf
        BY <2>4 DEF InHand
      <3>3. PacketOK(new) /\ new.mbuf = k /\ new.from = "receive"
        BY <1>e, <3>2
      <3>4. packetPool' = Put(packetPool, q, new)
        BY <2>6 DEF Put
      <3> HIDE DEF new
      <3>5. new.from = "alloc" => mbufs[k].attached = NoBuf
        BY <3>3
      <3>6. CountsOK(mbufs, packetPool', thread', txBuffer, nicQueue, loopbackRing, rxQueue)
        BY <2>4, <3>1, <3>3, <3>4, <3>5, GivePacket
      <3> QED  BY <1>a, <2>1, <2>6, <3>6 DEF rxVars, txVars
    <2>7. CASE InUse # DpdkPacket /\ UNCHANGED mbufs /\ packetPool' = [packetPool EXCEPT ![q] = OverflowPacket("receive")]
      <3> DEFINE new == OverflowPacket("receive")
      <3>1. q \in DpdkPacket /\ packetPool[q].mbuf = NoBuf
        BY <1>d, <2>7, NextPacketFree DEF q
      <3>2. PacketOK(new) /\ new.mbuf = NoBuf
        BY <1>e
      <3>3. packetPool' = Put(packetPool, q, new)
        BY <2>7 DEF Put
      <3> HIDE DEF new
      <3>4. CountsOK(mbufs, packetPool, thread', txBuffer, nicQueue, loopbackRing, rxQueue)
        BY <2>4 DEF InHand
      <3>5. CountsOK(mbufs, packetPool', thread', txBuffer, nicQueue, loopbackRing, rxQueue)
        BY <3>1, <3>2, <3>3, <3>4, OtherPacket
      <3> QED  BY <1>a, <2>1, <2>7, <3>5 DEF rxVars, txVars
    <2> QED  BY <2>3, <2>5, <2>6, <2>7
  <1>14. CASE nicTransmit
    <2>1. PICK q \in nicQueue : /\ nicQueue' = nicQueue \ {q} /\ mbufs' = Freed(mbufs, q.mbuf)
                                /\ UNCHANGED <<packetPool, rxVars, txBuffer, bufferedBytes, thread>>
      BY <1>14 DEF nicTransmit
    <2>2. InHand(mbufs, packetPool, thread, txBuffer, nicQueue', loopbackRing, rxQueue, q.mbuf)
      BY <1>0, <2>1, TakeNic
    <2>3. CountsOK(mbufs', packetPool, thread, txBuffer, nicQueue', loopbackRing, rxQueue)
      BY <2>1, <2>2, FreeHand
    <2> QED  BY <1>a, <2>1, <2>3 DEF rxVars
  <1>15. ASSUME NEW kind \in FrameKind, nicReceive(kind) PROVE MbufInv'
    <2> DEFINE k == NextMbuf
               r == Frame(PACKET_HDR_LEN + payloadLength)
               e == [mbuf |-> k, kind |-> kind]
    <2>1. /\ Available # {} /\ mbufs' = Put(mbufs, k, r) /\ rxQueue' = Append(rxQueue, e)
          /\ UNCHANGED <<packetPool, loopbackRing, txVars, thread>>
      BY <1>15 DEF nicReceive, Put
    <2>2. Writable(k) /\ k \in Mbuf /\ mbufs[k].refcnt = 0
      BY <1>0, <2>1, NextMbufFree
    <2>3. IsMbuf(r) /\ r.refcnt = 1 /\ r.attached = NoBuf
      BY FrameRecords
    <2>4. e \in RxFrame /\ e.mbuf = k
      BY <2>2 DEF RxFrame
    <2> HIDE DEF k, r, e
    <2>5. /\ InHand(mbufs', packetPool, thread, txBuffer, nicQueue, loopbackRing, rxQueue, k)
          /\ mbufs'[k] = r
      BY <1>0, <2>1, <2>2, <2>3, Written
    <2>6. mbufs'[k].refcnt <= 1
      BY <2>3, <2>5
    <2>7. CountsOK(mbufs', packetPool, thread, txBuffer, nicQueue, loopbackRing, rxQueue')
      BY <2>1, <2>4, <2>5, <2>6, QueueRx
    <2> QED  BY <1>a, <2>1, <2>7 DEF txVars
  <1>16. CASE UNCHANGED dpdkVars
    BY <1>1, <1>16 DEF dpdkVars
  <1> QED  BY <1>2, <1>3, <1>4, <1>5, <1>6, <1>7, <1>8, <1>9, <1>10, <1>11, <1>12, <1>13, <1>14, <1>15,
              <1>16 DEF DpdkNext

(* No mbuf goes back to the pool while anything refers to it, for any sizes   *)
(* of the pools and queues, any number of threads, and sends, bursts,         *)
(* releases and transmissions in any order.                                   *)
THEOREM NeverUsedAfterFree == DpdkInit /\ [][DpdkNext]_dpdkVars => []NoUseAfterFree
  <1>1. MbufInv => NoUseAfterFree
    <2> SUFFICES ASSUME MbufInv, NEW m \in Mbuf PROVE mbufs[m].refcnt >= Holders(m)
      BY DEF NoUseAfterFree
    <2>0. CountsOK(mbufs, packetPool, thread, txBuffer, nicQueue, loopbackRing, rxQueue)
      BY DEF MbufInv, Now
    <2>1. {p \in InUse : packetPool[p].mbuf = m} = {p \in DpdkPacket : packetPool[p].mbuf = m}
      <3>1. \A p \in DpdkPacket : packetPool[p].mbuf = m => packetPool[p].bufType = "MBUF"
        BY <2>0, MbufFinite DEF CountsOK, PacketsOK, PacketOK
      <3> QED  BY <3>1 DEF InUse
    <2>2. /\ Count({p \in InUse : packetPool[p].mbuf = m}) = Refs(DpdkPacket, packetPool, m)
          /\ Count({f \in nicQueue : f.mbuf = m}) = InNic(nicQueue, m)
          /\ Count({i \in 1..Len(loopbackRing) : loopbackRing[i] = m}) = InRing(loopbackRing, m)
          /\ Count({n \in Mbuf : mbufs[n].attached = m}) = Clones(mbufs, m)
          /\ Count({t \in DriverThread : thread[t].mbuf = m}) = Refs(DriverThread, thread, m)
          /\ Count({t \in DriverThread : Occurrences(thread[t].burst, m) > 0}) = InBursts(thread, m)
      BY <2>1 DEF Count, Refs, InNic, InRing, Clones, InBursts
    <2>3. Holders(m) = Refs(DpdkPacket, packetPool, m)
            + Occurrences(txBuffer, m) + InNic(nicQueue, m)
            + InRing(loopbackRing, m) + Occurrences(rxQueue, m) + Clones(mbufs, m)
            + Refs(DriverThread, thread, m) + InBursts(thread, m)
      BY <2>2 DEF Holders
    <2>4. /\ Clones(mbufs, m) \in Nat
          /\ Refs(DpdkPacket, packetPool, m) \in Nat /\ Refs(DriverThread, thread, m) \in Nat
          /\ Occurrences(txBuffer, m) \in Nat /\ Occurrences(rxQueue, m) \in Nat
          /\ InNic(nicQueue, m) \in Nat /\ InRing(loopbackRing, m) \in Nat /\ InBursts(thread, m) \in Nat
      BY <2>0, CountTypes DEF CountsOK
    <2>5. Holders(m) = Clones(mbufs, m)
            + Held(packetPool, thread, txBuffer, nicQueue, loopbackRing, rxQueue, m)
      BY <2>3, <2>4 DEF Held
    <2> QED  BY <2>0, <2>5 DEF CountsOK, Counted
  <1> QED  BY <1>1, MbufInvInit, MbufInvNext, PTL

(* A frame that waits to be transmitted keeps the headers it was sent with,   *)
(* and bufferedBytes is the size of what is buffered.                         *)
THEOREM QueuedFramesStayKept == DpdkInit /\ [][DpdkNext]_dpdkVars => []QueuedFramesKept
  <1>1. MbufInv => QueuedFramesKept
    <2> SUFFICES ASSUME MbufInv PROVE QueuedFramesKept
      OBVIOUS
    <2>1. /\ txBuffer \in Seq(TxFrame) /\ bufferedBytes = Len(txBuffer) * FrameLength
          /\ \A i \in 1..Len(txBuffer) : Kept(mbufs, txBuffer[i].mbuf, txBuffer[i].priority)
          /\ \A f \in nicQueue : Kept(mbufs, f.mbuf, f.priority)
      BY DEF MbufInv, Now, CountsOK, QueuesOK, TxKept
    <2>2. \A f \in ToSet(txBuffer) \cup nicQueue : mbufs[f.mbuf].priority = f.priority
      BY <2>1 DEF ToSet, Kept
    <2>3. Len(txBuffer) \in Nat
      BY <2>1
    <2>4. \A i \in 1..Len(txBuffer) : mbufs[txBuffer[i].mbuf].length = FrameLength
      BY <2>1 DEF Kept
    <2>5. bufferedBytes = Bytes(txBuffer)
      BY <2>1, <2>3, <2>4, BytesOf
    <2> QED  BY <2>2, <2>5 DEF QueuedFramesKept
  <1> QED  BY <1>1, MbufInvInit, MbufInvNext, PTL
=============================================================================
