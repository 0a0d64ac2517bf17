----------------------------- MODULE DpdkDriver -----------------------------
(***************************************************************************)
(* DpdkDriver::Impl (src/src/Drivers/DPDK/DpdkDriverImpl.cc): who owns      *)
(* which packet buffer.  The memory pool, the NIC's queues and the reference *)
(* counts of mbufs are DPDK's; they are modelled as the driver uses them.    *)
(* allocPacket, releasePackets and the parts of sendPacket, uncork and       *)
(* receivePackets between two locks are one step each.                       *)
(*                                                                          *)
(* Which free mbuf the pool gives out makes no difference: it is the first.  *)
(* An append to a fresh mbuf never fails, since its buffer is larger than    *)
(* any frame; it would have the effect of an empty pool.                     *)
(***************************************************************************)
EXTENDS Integers, Sequences, FiniteSets, SequencesExt

CONSTANTS
  NB_MBUF, NB_MBUF_RESERVED, NB_LOOPBACK_SLOTS, MAX_PKT_BURST,
  PACKET_HDR_LEN, MAX_PAYLOAD_SIZE,
  payloadLength,         \* bytes the application writes into a packet
  Priorities,
  DriverThread,
  UninitializedCounts,   \* mbufsOutstanding after the NO_EAL_INIT constructor
  MaxPackets,            \* bound: Packets in use
  MaxRx,                 \* bound: frames waiting in the NIC
  NoBuf                  \* no mbuf, no thread

ASSUME DpdkAssumption ==
  /\ NB_MBUF \in Nat \ {0} /\ NB_MBUF_RESERVED \in 0..NB_MBUF
  /\ NB_LOOPBACK_SLOTS \in Nat \ {0} /\ MAX_PKT_BURST \in Nat \ {0}
  /\ payloadLength \in 0..MAX_PAYLOAD_SIZE /\ PACKET_HDR_LEN \in Nat
  /\ NoBuf \notin 1..NB_MBUF /\ MaxPackets \in Nat
  /\ IsFiniteSet(DriverThread)

VARIABLES
  mbufs,             \* the mbufs of mbufPool
  packetPool,        \* the Packets given out
  mbufsOutstanding,
  ealInit,           \* constructed without NO_EAL_INIT
  hasHardwareFilter,
  loopbackRing, rxQueue,
  txBuffer, nicQueue, bufferedBytes, txMutex, corked,
  corking,           \* threads between their cork() and uncork()
  thread             \* what each thread is doing

dpdkVars == <<mbufs, packetPool, mbufsOutstanding, ealInit, hasHardwareFilter,
              loopbackRing, rxQueue, txBuffer, nicQueue, bufferedBytes, txMutex,
              corked, corking, thread>>

Mbuf   == 1..NB_MBUF
DpdkPacket == 1..MaxPackets

-----------------------------------------------------------------------------
(* DPDK's mbufs. *)

FreeMbuf == [refcnt |-> 0, attached |-> NoBuf, length |-> 0, priority |-> 0]

Available == {m \in Mbuf : mbufs[m].refcnt = 0}
NextMbuf == CHOOSE m \in Available : \A n \in Available : m <= n

Drop(f, m) ==
  [f EXCEPT ![m] = IF f[m].refcnt = 1 THEN FreeMbuf
                   ELSE [f[m] EXCEPT !.refcnt = f[m].refcnt - 1]]

(* rte_pktmbuf_free: a clone that is freed lets go of the mbuf it shares.    *)
Freed(f, m) ==
  IF f[m].refcnt = 1 /\ f[m].attached # NoBuf THEN Drop(Drop(f, m), f[m].attached)
                                              ELSE Drop(f, m)

Frame(length) ==
  [refcnt |-> 1, attached |-> NoBuf, length |-> length, priority |-> 0]

-----------------------------------------------------------------------------
(* Packets. *)

Unused == [bufType |-> "NONE", mbuf |-> NoBuf, from |-> "none"]

InUse == {p \in DpdkPacket : packetPool[p].bufType # "NONE"}
NextPacket == CHOOSE p \in DpdkPacket \ InUse : \A q \in DpdkPacket \ InUse : p <= q

MbufPacket(m, from) == [bufType |-> "MBUF", mbuf |-> m, from |-> from]
OverflowPacket(from) == [bufType |-> "OVERFLOW_BUF", mbuf |-> NoBuf, from |-> from]

MBUF_ALLOC_LIMIT == NB_MBUF - NB_MBUF_RESERVED

Idle == [pc |-> "idle", mbuf |-> NoBuf, priority |-> 0, packet |-> 0, burst |-> <<>>]

DpdkInit ==
  /\ mbufs = [m \in Mbuf |-> FreeMbuf]
  /\ packetPool = [p \in DpdkPacket |-> Unused]
  /\ ealInit \in BOOLEAN
  /\ mbufsOutstanding \in IF ealInit THEN {0} ELSE UninitializedCounts
  /\ hasHardwareFilter \in BOOLEAN
  /\ loopbackRing = <<>> /\ rxQueue = <<>>
  /\ txBuffer = <<>> /\ nicQueue = {} /\ bufferedBytes = 0
  /\ txMutex = NoBuf /\ corked = 0 /\ corking = {}
  /\ thread = [t \in DriverThread |-> Idle]

txVars == <<txBuffer, nicQueue, bufferedBytes, txMutex, corked, corking>>
rxVars == <<loopbackRing, rxQueue>>
configVars == <<ealInit, hasHardwareFilter>>

(* allocPacket; the application fills in the payload.                        *)
allocPacket ==
  /\ InUse # DpdkPacket
  /\ IF mbufsOutstanding < MBUF_ALLOC_LIMIT /\ Available # {}
     THEN /\ mbufs' = [mbufs EXCEPT ![NextMbuf] = Frame(PACKET_HDR_LEN + MAX_PAYLOAD_SIZE)]
          /\ packetPool' = [packetPool EXCEPT ![NextPacket] = MbufPacket(NextMbuf, "alloc")]
          /\ mbufsOutstanding' = mbufsOutstanding + 1
     ELSE /\ packetPool' = [packetPool EXCEPT ![NextPacket] = OverflowPacket("alloc")]
          /\ UNCHANGED <<mbufs, mbufsOutstanding>>
  /\ UNCHANGED <<configVars, rxVars, txVars, thread>>

(* Mutant of ReleasesMbuf: every packet counts.                              *)
ReleasesAny(p) == TRUE

ReleasesMbuf(p) == packetPool[p].bufType = "MBUF"

(* releasePackets, for one packet that no call is using.                     *)
releasePacket(p) ==
  /\ p \in InUse /\ \A u \in DriverThread : thread[u].packet # p
  /\ mbufs' = IF packetPool[p].bufType = "MBUF" THEN Freed(mbufs, packetPool[p].mbuf) ELSE mbufs
  /\ mbufsOutstanding' = IF ReleasesMbuf(p) THEN mbufsOutstanding - 1 ELSE mbufsOutstanding
  /\ packetPool' = [packetPool EXCEPT ![p] = Unused]
  /\ UNCHANGED <<configVars, rxVars, txVars, thread>>

-----------------------------------------------------------------------------
(* Sending. *)

(* Mutant of StillSending: an mbuf is never taken to be in use.              *)
NeverSending(p) == FALSE

(* "If the mbuf is still transmitting from a previous call to send, we don't *)
(* want to modify the buffer": the request is dropped.                       *)
StillSending(p) == packetPool[p].bufType = "MBUF" /\ mbufs[packetPool[p].mbuf].refcnt > 1

(* The mbuf that sendPacket sends: the packet's own, or for an overflow      *)
(* buffer a new one with a copy.  Without a free mbuf it drops the packet.   *)
Sendable(p) == IF packetPool[p].bufType = "MBUF" THEN ~StillSending(p) ELSE Available # {}

SendMbuf(p) == IF packetPool[p].bufType = "MBUF" THEN packetPool[p].mbuf ELSE NextMbuf

WithCopy(p) ==
  IF packetPool[p].bufType = "MBUF" THEN mbufs
  ELSE [mbufs EXCEPT ![NextMbuf] = Frame(PACKET_HDR_LEN + payloadLength)]

(* The headers are written and the mbuf is trimmed to the payload.           *)
Prepared(p, priority) ==
  [WithCopy(p) EXCEPT ![SendMbuf(p)] =
     [@ EXCEPT !.priority = priority, !.length = PACKET_HDR_LEN + payloadLength]]

Calls(t, p) ==
  /\ thread[t].pc = "idle"
  /\ p \in InUse /\ packetPool[p].from = "alloc"
  /\ \A u \in DriverThread : thread[u].packet # p
  /\ Sendable(p)

(* sendPacket to an address without an ARP record: the packet is dropped,    *)
(* and the copy of an overflow buffer stays allocated.                       *)
sendUnresolved(t, p) ==
  /\ Calls(t, p)
  /\ mbufs' = WithCopy(p)
  /\ UNCHANGED <<packetPool, mbufsOutstanding, configVars, rxVars, txVars, thread>>

(* sendPacket to the local address: a clone joins the loopback ring, unless  *)
(* there is no mbuf for it or the ring is full.                              *)
sendLoopback(t, p, priority) ==
  /\ Calls(t, p)
  /\ LET ready == Prepared(p, priority)
         free  == {m \in Mbuf : ready[m].refcnt = 0}
         clone == CHOOSE m \in free : \A n \in free : m <= n
     IN  IF free = {} \/ Len(loopbackRing) >= NB_LOOPBACK_SLOTS
         THEN mbufs' = ready /\ UNCHANGED loopbackRing
         ELSE /\ mbufs' = [ready EXCEPT
                   ![SendMbuf(p)].refcnt = @ + 1,
                   ![clone] = [ready[SendMbuf(p)] EXCEPT
                                 !.refcnt = 1, !.attached = SendMbuf(p)]]
              /\ loopbackRing' = Append(loopbackRing, clone)
  /\ UNCHANGED <<packetPool, mbufsOutstanding, configVars, rxQueue, txVars, thread>>

(* Mutant of Retain: the NIC's reference is not counted.                     *)
RetainNothing(p, f) == f

(* "retain access to it so that the processing of sending the mbuf won't     *)
(* free it"                                                                  *)
Retain(p, f) ==
  IF packetPool[p].bufType = "MBUF" THEN [f EXCEPT ![SendMbuf(p)].refcnt = @ + 1] ELSE f

(* sendPacket to another host, before it takes tx.mutex.                     *)
sendPacket(t, p, priority) ==
  /\ Calls(t, p)
  /\ mbufs' = Retain(p, Prepared(p, priority))
  /\ thread' = [thread EXCEPT ![t] = [Idle EXCEPT !.pc = "tx", !.mbuf = SendMbuf(p),
                                        !.priority = priority, !.packet = p]]
  /\ UNCHANGED <<packetPool, mbufsOutstanding, configVars, rxVars, txVars>>

Bytes(frames) ==
  LET upTo[i \in 0..Len(frames)] ==
        IF i = 0 THEN 0 ELSE upTo[i - 1] + mbufs[frames[i].mbuf].length
  IN  upTo[Len(frames)]

(* rte_pktmbuf_free of the frames after the k-th; none of them is a clone.   *)
FreedAfter(frames, k) ==
  LET Times(m) == Cardinality({i \in (k + 1)..Len(frames) : frames[i].mbuf = m})
  IN  [m \in Mbuf |-> IF Times(m) = mbufs[m].refcnt THEN FreeMbuf
                      ELSE [mbufs[m] EXCEPT !.refcnt = @ - Times(m)]]

(* rte_eth_tx_buffer_flush with txBurstCallback: the NIC takes some of the   *)
(* frames, DPDK frees the others.                                            *)
Flush(frames, bytes) ==
  \E k \in 0..Len(frames) :
    /\ nicQueue' = nicQueue \cup ToSet(SubSeq(frames, 1, k))
    /\ mbufs' = FreedAfter(frames, k)
    /\ txBuffer' = <<>>
    /\ bufferedBytes' = bytes - Bytes(frames)

(* With tx.mutex: count the bytes, and rte_eth_tx_buffer, which flushes when *)
(* the buffer is full.                                                       *)
txBufferPacket(t) ==
  /\ thread[t].pc = "tx" /\ txMutex = NoBuf
  /\ LET frames == Append(txBuffer, [mbuf |-> thread[t].mbuf, priority |-> thread[t].priority])
         bytes  == bufferedBytes + mbufs[thread[t].mbuf].length
     IN  IF Len(frames) = MAX_PKT_BURST
         THEN Flush(frames, bytes)
         ELSE /\ txBuffer' = frames /\ bufferedBytes' = bytes
              /\ UNCHANGED <<nicQueue, mbufs>>
  /\ txMutex' = t
  /\ thread' = [thread EXCEPT ![t] = [@ EXCEPT !.pc = "txFlush", !.mbuf = NoBuf]]
  /\ UNCHANGED <<packetPool, mbufsOutstanding, configVars, rxVars, corked, corking>>

(* "Flush packets now if the driver is not corked", and unlock tx.mutex.     *)
txFlushPackets(t) ==
  /\ thread[t].pc = "txFlush"
  /\ IF corked < 1 THEN Flush(txBuffer, bufferedBytes)
                   ELSE UNCHANGED <<nicQueue, mbufs, txBuffer, bufferedBytes>>
  /\ txMutex' = NoBuf
  /\ thread' = [thread EXCEPT ![t] = Idle]
  /\ UNCHANGED <<packetPool, mbufsOutstanding, configVars, rxVars, corked, corking>>

cork(t) ==
  /\ thread[t].pc = "idle" /\ t \notin corking
  /\ corked' = corked + 1 /\ corking' = corking \cup {t}
  /\ UNCHANGED <<mbufs, packetPool, mbufsOutstanding, configVars, rxVars, txBuffer,
                 nicQueue, bufferedBytes, txMutex, thread>>

(* Mutant of LastUncork: the value after the subtraction is meant.           *)
UncorkedBefore == corked = 0

LastUncork == corked = 1

(* uncork: fetch_sub ...                                                     *)
uncork(t) ==
  /\ thread[t].pc = "idle" /\ t \in corking
  /\ corked' = corked - 1 /\ corking' = corking \ {t}
  /\ thread' = IF LastUncork THEN [thread EXCEPT ![t].pc = "uncork"] ELSE thread
  /\ UNCHANGED <<mbufs, packetPool, mbufsOutstanding, configVars, rxVars, txBuffer,
                 nicQueue, bufferedBytes, txMutex>>

(* ... and then, with tx.mutex, the flush.                                   *)
uncorkFlush(t) ==
  /\ thread[t].pc = "uncork" /\ txMutex = NoBuf
  /\ Flush(txBuffer, bufferedBytes)
  /\ thread' = [thread EXCEPT ![t] = Idle]
  /\ UNCHANGED <<packetPool, mbufsOutstanding, configVars, rxVars, txMutex, corked, corking>>

-----------------------------------------------------------------------------
(* The NIC. *)

(* A frame of the transmit queue is on the wire and its mbuf is freed.       *)
nicTransmit ==
  \E f \in nicQueue :
    /\ nicQueue' = nicQueue \ {f}
    /\ mbufs' = Freed(mbufs, f.mbuf)
    /\ UNCHANGED <<packetPool, mbufsOutstanding, configVars, rxVars, txBuffer,
                   bufferedBytes, txMutex, corked, corking, thread>>

FrameKind == {"HOMA", "OTHER", "SEGMENTED"}

(* A frame arrives; the hardware filter lets only Homa's through.            *)
nicReceive(kind) ==
  /\ Available # {} /\ Len(rxQueue) < MaxRx
  /\ hasHardwareFilter => kind # "OTHER"
  /\ mbufs' = [mbufs EXCEPT ![NextMbuf] = Frame(PACKET_HDR_LEN + payloadLength)]
  /\ rxQueue' = Append(rxQueue, [mbuf |-> NextMbuf, kind |-> kind])
  /\ UNCHANGED <<packetPool, mbufsOutstanding, configVars, loopbackRing, txVars, thread>>

-----------------------------------------------------------------------------
(* Receiving. *)

Smaller(a, b) == IF a < b THEN a ELSE b

(* receivePackets with rx.mutex: half of the burst may come from the         *)
(* loopback ring, the rest comes from the NIC.                               *)
receiveBurst(t, maxPackets) ==
  /\ thread[t].pc = "idle" /\ loopbackRing \o rxQueue # <<>>
  /\ LET l == Smaller(Len(loopbackRing), maxPackets \div 2)
         n == Smaller(Len(rxQueue), maxPackets - l)
     IN  /\ l + n > 0
         /\ loopbackRing' = SubSeq(loopbackRing, l + 1, Len(loopbackRing))
         /\ rxQueue' = SubSeq(rxQueue, n + 1, Len(rxQueue))
         /\ thread' = [thread EXCEPT ![t].pc = "rx", ![t].burst =
              [i \in 1..l |-> [mbuf |-> loopbackRing[i], kind |-> "HOMA"]]
                \o SubSeq(rxQueue, 1, n)]
  /\ UNCHANGED <<mbufs, packetPool, mbufsOutstanding, configVars, txVars>>

(* A frame that is discarded: several segments, or not Homa's and no         *)
(* hardware filter.                                                          *)
Discarded(f) == f.kind = "SEGMENTED" \/ (f.kind = "OTHER" /\ ~hasHardwareFilter)

(* The next frame of the burst becomes a Packet.  Beyond the limit it gets   *)
(* an overflow buffer and the mbuf is not freed.  (Payload bytes are not     *)
(* modelled: rte_memcpy has its arguments the wrong way round here.)         *)
receivePacket(t) ==
  /\ thread[t].pc = "rx"
  /\ LET f    == Head(thread[t].burst)
         rest == Tail(thread[t].burst)
     IN  /\ IF Discarded(f)
            THEN mbufs' = Freed(mbufs, f.mbuf) /\ UNCHANGED <<packetPool, mbufsOutstanding>>
            ELSE /\ InUse # DpdkPacket
                 /\ IF mbufsOutstanding < MBUF_ALLOC_LIMIT
                    THEN /\ packetPool' = [packetPool EXCEPT ![NextPacket] = MbufPacket(f.mbuf, "receive")]
                         /\ mbufsOutstanding' = mbufsOutstanding + 1
                    ELSE /\ packetPool' = [packetPool EXCEPT ![NextPacket] = OverflowPacket("receive")]
                         /\ UNCHANGED mbufsOutstanding
                 /\ UNCHANGED mbufs
         /\ thread' = [thread EXCEPT ![t] = IF rest = <<>> THEN Idle ELSE [@ EXCEPT !.burst = rest]]
  /\ UNCHANGED <<configVars, rxVars, txVars>>

-----------------------------------------------------------------------------
DpdkNext ==
  \/ allocPacket
  \/ \E p \in DpdkPacket : releasePacket(p)
  \/ \E t \in DriverThread :
       \/ cork(t) \/ uncork(t) \/ uncorkFlush(t)
       \/ txBufferPacket(t) \/ txFlushPackets(t)
       \/ receiveBurst(t, 2) \/ receivePacket(t)
       \/ \E p \in DpdkPacket :
            \/ sendUnresolved(t, p)
            \/ \E priority \in Priorities :
                 sendLoopback(t, p, priority) \/ sendPacket(t, p, priority)
  \/ nicTransmit
  \/ \E kind \in FrameKind : nicReceive(kind)

-----------------------------------------------------------------------------
(* Correctness. *)

Count(S) == Cardinality(S)
Occurrences(seq, m) == Count({i \in 1..Len(seq) : seq[i].mbuf = m})

(* Everything that refers to an mbuf.                                        *)
Holders(m) ==
  Count({p \in InUse : packetPool[p].mbuf = m})
  + Occurrences(txBuffer, m) + Count({f \in nicQueue : f.mbuf = m})
  + Count({i \in 1..Len(loopbackRing) : loopbackRing[i] = m}) + Occurrences(rxQueue, m)
  + Count({n \in Mbuf : mbufs[n].attached = m})
  + Count({t \in DriverThread : thread[t].mbuf = m})
  + Count({t \in DriverThread : Occurrences(thread[t].burst, m) > 0})

(* No mbuf goes back to the pool while a Packet, the transmit buffer, the     *)
(* NIC, the loopback ring, a clone or a running call still refers to it:      *)
(* sendPacket, the bursts and releasePackets may come in any order.           *)
NoUseAfterFree == \A m \in Mbuf : mbufs[m].refcnt >= Holders(m)

(* mbufsOutstanding, by which allocPacket and receivePackets keep mbufs in    *)
(* reserve for the NIC, counts the mbufs that Packets hold; the constructor   *)
(* with NO_EAL_INIT leaves it uninitialized.                                  *)
OutstandingExact ==
  ealInit => mbufsOutstanding = Count({p \in InUse : packetPool[p].bufType = "MBUF"})

(* A frame that waits to be transmitted keeps the headers it was sent with    *)
(* although the Packet may be sent again meanwhile, and bufferedBytes, from   *)
(* which txBurstCallback subtracts, is the size of what is buffered.          *)
QueuedFramesKept ==
  /\ \A f \in ToSet(txBuffer) \cup nicQueue : mbufs[f.mbuf].priority = f.priority
  /\ bufferedBytes = Bytes(txBuffer)

(* When the driver is not corked no frame stays in the transmit buffer,       *)
(* except while a call that will flush it is under way: whatever order one    *)
(* thread's uncork and another's sendPacket come in.                          *)
NothingStranded ==
  corked = 0 /\ txBuffer # <<>> => \E t \in DriverThread : thread[t].pc \in {"uncork", "txFlush"}

(* Every mbuf that is not in the pool is held by something.                   *)
NoMbufLeak == \A m \in Mbuf : mbufs[m].refcnt > 0 => Holders(m) > 0
=============================================================================
