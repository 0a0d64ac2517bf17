---------------------------- MODULE SenderProofs ----------------------------
(***************************************************************************)
(* Proofs that the safety properties of Sender hold for any number of       *)
(* messages, threads and packets.  Inv is inductive; each action is shown   *)
(* to preserve it conjunct by conjunct, the list operations being used only *)
(* through the facts of IntrusiveListTheorems.                              *)
(***************************************************************************)
EXTENDS Sender, IntrusiveListTheorems

(* The number of packets that hold a number of bytes.                        *)
LEMMA CeilType ==
  ASSUME NEW b \in Nat
  PROVE  Ceil(b) \in Nat
BY PacketAssumption DEF Ceil

(* The packets of a message hold its bytes, and one packet less does not.    *)
LEMMA CeilBounds ==
  ASSUME NEW b \in Nat \ {0}
  PROVE  /\ Ceil(b) \in Nat \ {0}
         /\ (Ceil(b) - 1) * PACKET_DATA_LENGTH < b
         /\ b <= Ceil(b) * PACKET_DATA_LENGTH
<1> DEFINE P == PACKET_DATA_LENGTH
           n == Ceil(b)
           r == (b + P - 1) % P
<1>1. P \in Nat \ {0}
  BY PacketAssumption
<1>2. n \in Int /\ r \in 0..(P - 1) /\ b + P - 1 = P * n + r
  BY <1>1 DEF Ceil
<1> HIDE DEF n, r, P
<1>3. P * n = n * P /\ (n - 1) * P = n * P - P
  BY <1>1, <1>2
<1>4. n * P > 0
  BY <1>1, <1>2, <1>3
<1>5. n > 0
  BY <1>1, <1>2, <1>4
<1> QED BY <1>1, <1>2, <1>3, <1>5 DEF n, P

(* Multiplication is monotone.                                               *)
LEMMA MultMonotone ==
  ASSUME NEW a \in Nat, NEW b \in Nat, NEW c \in Nat, a <= b
  PROVE  a * c <= b * c
<1>1. b * c = a * c + (b - a) * c
  OBVIOUS
<1>2. (b - a) * c >= 0 /\ a * c \in Nat /\ b * c \in Nat
  OBVIOUS
<1> QED BY <1>1, <1>2

(* The number of packets of a message.                                       *)
LEMMA NumPackets ==
  ASSUME NEW m \in Message
  PROVE  /\ numPackets(m) \in Nat \ {0}
         /\ Length[m] \in Nat \ {0}
         /\ (numPackets(m) - 1) * PACKET_DATA_LENGTH < Length[m]
         /\ Length[m] <= numPackets(m) * PACKET_DATA_LENGTH
<1>1. Length[m] \in Nat \ {0}
  BY LengthAssumption
<1> QED BY <1>1, CeilBounds DEF numPackets

-----------------------------------------------------------------------------
(* Inv in two halves: the queue with the threads that work on it, and the    *)
(* message objects with their buckets and timeouts.                          *)

QInv ==
  /\ OneSender
  /\ Linked(sendQueue)
  /\ IteratorValid
  /\ PassedAreSent
  /\ NoLostWakeup
  /\ ShortestFirst
  /\ SendAccounting

OInv ==
  /\ Lifecycle
  /\ MarkedIsSent
  /\ QueuedAreTracked
  /\ QueueConsistent
  /\ NoDangling
  /\ KeepAliveArmed

(* Inv is its halves.                                                        *)
LEMMA Halves == Inv <=> TypeOK /\ QInv /\ OInv
BY DEF Inv, QInv, OInv

(* A step that leaves the queue alone and takes or releases no queueMutex    *)
(* keeps the first half if it keeps the threads apart.                       *)
LEMMA CriticalFrame ==
  ASSUME QInv, UNCHANGED <<info, queue, it>>, OneSender',
         \A t \in Thread : /\ pc'[t] = "send" <=> pc[t] = "send"
                           /\ pc'[t] = "marked" <=> pc[t] = "marked"
  PROVE  QInv'
<1>1. /\ packetsGranted' = packetsGranted /\ packetsSent' = packetsSent
      /\ unsentBytes' = unsentBytes
      /\ sendQueue' = sendQueue /\ sendReady' = sendReady /\ it' = it
  BY DEF info, queue
<1>2. QueueLocked' <=> QueueLocked
  BY DEF QueueLocked
<1>3. (\E t \in Thread : pc[t] = "marked")' <=> \E t \in Thread : pc[t] = "marked"
  OBVIOUS
<1>4. Linked(sendQueue)' /\ ShortestFirst' /\ SendAccounting'
  BY <1>1 DEF QInv, ShortestFirst, SendAccounting
<1>5. IteratorValid'
  BY <1>1, <1>2, <1>3 DEF QInv, IteratorValid
<1>6. PassedAreSent' /\ NoLostWakeup'
  BY <1>1, <1>2 DEF QInv, PassedAreSent, NoLostWakeup
<1> QED BY <1>4, <1>5, <1>6 DEF QInv

(* In particular if it moves no thread in or out of the critical part.       *)
LEMMA QueueFrame ==
  ASSUME QInv, UNCHANGED <<info, queue, it>>,
         \A t \in Thread : /\ pc'[t] = "acquire" <=> pc[t] = "acquire"
                           /\ pc'[t] = "send" <=> pc[t] = "send"
                           /\ pc'[t] = "marked" <=> pc[t] = "marked",
         sending => sending'
  PROVE  QInv'
<1>1. OneSender'
  BY DEF QInv, OneSender
<1> QED BY <1>1, CriticalFrame

(* While the queueMutex is free there is no iterator.                        *)
LEMMA NoIterator ==
  ASSUME QInv, ~QueueLocked
  PROVE  it = NoMessage /\ \A t \in Thread : pc[t] \notin {"send", "marked"}
BY DEF QInv, IteratorValid, QueueLocked

(* A change of the queue by a handler, under the queueMutex: what has to be  *)
(* shown for the first half.                                                 *)
LEMMA QueueChange ==
  ASSUME QInv, ~QueueLocked, UNCHANGED loop,
         Linked(sendQueue'), Ordered(sendQueue', unsentBytes'),
         NoLostWakeup', SendAccounting'
  PROVE  QInv'
<1>1. sending' = sending /\ pc' = pc /\ it' = it
  BY DEF loop
<1>2. it = NoMessage /\ \A t \in Thread : pc[t] \notin {"send", "marked"}
  BY NoIterator
<1>3. ~QueueLocked'
  BY <1>1, <1>2 DEF QueueLocked
<1>4. OneSender'
  BY <1>1 DEF QInv, OneSender
<1>5. IteratorValid' /\ PassedAreSent'
  BY <1>1, <1>2, <1>3 DEF IteratorValid, PassedAreSent
<1> QED BY <1>4, <1>5 DEF QInv, ShortestFirst

(* A GRANT, or a RESEND read as one, within the message.                     *)
LEMMA GrantStep ==
  ASSUME TypeOK, QInv, ~QueueLocked, NEW m \in Message,
         NEW limit \in Nat, limit <= numPackets(m), Grant(m, limit),
         UNCHANGED <<packetsSent, unsentBytes, sendQueue, loop>>
  PROVE  /\ QInv'
         /\ packetsGranted' \in [Message -> Nat]
         /\ sendReady' \in BOOLEAN
<1>1. /\ packetsGranted \in [Message -> Nat] /\ packetsSent \in [Message -> Nat]
      /\ sendReady \in BOOLEAN /\ sendQueue \in Seq(Message)
  BY DEF TypeOK
<1>2. /\ packetsGranted' \in [Message -> Nat]
      /\ sendReady' \in BOOLEAN
      /\ \A x \in Message : /\ packetsGranted[x] <= packetsGranted'[x]
                            /\ packetsGranted[x] <= numPackets(x)
                                 => packetsGranted'[x] <= numPackets(x)
      /\ sendReady' = TRUE \/ (packetsGranted' = packetsGranted /\ sendReady' = sendReady)
  <2>1. CASE packetsGranted[m] < limit
    <3>1. packetsGranted' = [packetsGranted EXCEPT ![m] = limit] /\ sendReady' = TRUE
      BY <2>1 DEF Grant
    <3>2. packetsGranted[m] <= limit /\ \A x \in Message : packetsGranted[x] <= packetsGranted[x]
      BY <1>1, <2>1
    <3> QED BY <1>1, <3>1, <3>2
  <2>2. CASE ~(packetsGranted[m] < limit)
    <3>1. packetsGranted' = packetsGranted /\ sendReady' = sendReady
      BY <2>2 DEF Grant
    <3> QED BY <1>1, <3>1
  <2> QED BY <2>1, <2>2
<1>3. Elements(sendQueue) \subseteq Message
  BY <1>1, PositionLemma
<1>4. packetsSent' = packetsSent /\ unsentBytes' = unsentBytes /\ sendQueue' = sendQueue
  OBVIOUS
<1>5. SendAccounting'
  <2> SUFFICES ASSUME NEW x \in Elements(sendQueue)
               PROVE  /\ packetsSent[x] <= packetsGranted'[x]
                      /\ packetsGranted'[x] <= numPackets(x)
                      /\ unsentBytes[x] = IF packetsSent[x] = numPackets(x) THEN 0
                           ELSE Length[x] - packetsSent[x] * PACKET_DATA_LENGTH
    BY <1>4 DEF SendAccounting
  <2>1. /\ packetsSent[x] <= packetsGranted[x]
        /\ packetsGranted[x] <= numPackets(x)
        /\ unsentBytes[x] = IF packetsSent[x] = numPackets(x) THEN 0
             ELSE Length[x] - packetsSent[x] * PACKET_DATA_LENGTH
    BY DEF QInv, SendAccounting
  <2>2. x \in Message /\ numPackets(x) \in Nat
    BY <1>3, NumPackets
  <2> QED BY <2>1, <2>2, <1>1, <1>2
<1>6. NoLostWakeup'
  BY <1>2, <1>4 DEF QInv, NoLostWakeup, QueueLocked
<1>7. Linked(sendQueue') /\ Ordered(sendQueue', unsentBytes')
  BY <1>4 DEF QInv, ShortestFirst
<1> QED BY <1>2, <1>5, <1>6, <1>7, QueueChange

(* Queueing a message from its first packet, the rest of the queue being q.  *)
LEMMA EnqueueStep ==
  ASSUME TypeOK, QInv, ~QueueLocked, NEW m \in Message, NEW b \in Nat,
         NEW q \in Seq(Message), Linked(q), Ordered(q, unsentBytes),
         Elements(q) = Elements(sendQueue) \ {m},
         Enqueue(m, q, b), UNCHANGED loop
  PROVE  /\ QInv'
         /\ packetsGranted' \in [Message -> Nat]
         /\ packetsSent' \in [Message -> Nat]
         /\ unsentBytes' \in [Message -> Nat]
         /\ sendQueue' \in Seq(Message)
         /\ sendReady' = TRUE
         /\ Elements(sendQueue') = Elements(sendQueue) \cup {m}
<1>1. /\ packetsGranted \in [Message -> Nat] /\ packetsSent \in [Message -> Nat]
      /\ unsentBytes \in [Message -> Nat] /\ sendQueue \in Seq(Message)
  BY DEF TypeOK
<1>2. /\ Ceil(b) \in Nat /\ numPackets(m) \in Nat \ {0} /\ Length[m] \in Nat \ {0}
      /\ PACKET_DATA_LENGTH \in Nat
  BY CeilType, NumPackets, PacketAssumption
<1>3. /\ packetsGranted' \in [Message -> Nat]
      /\ packetsSent' \in [Message -> Nat]
      /\ unsentBytes' \in [Message -> Nat]
      /\ sendReady' = TRUE
      /\ packetsSent'[m] = 0 /\ unsentBytes'[m] = Length[m]
      /\ packetsGranted'[m] <= numPackets(m)
      /\ \A x \in Message \ {m} : /\ packetsGranted'[x] = packetsGranted[x]
                                  /\ packetsSent'[x] = packetsSent[x]
                                  /\ unsentBytes'[x] = unsentBytes[x]
  BY <1>1, <1>2 DEF Enqueue
<1>4. Elements(q) \subseteq Message \ {m}
  BY PositionLemma
<1>5. Ordered(q, unsentBytes')
  <2> SUFFICES ASSUME NEW i \in 1..Len(q), NEW j \in 1..Len(q), i < j
               PROVE  unsentBytes'[q[i]] <= unsentBytes'[q[j]]
    BY DEF Ordered
  <2>1. q[i] \in Message \ {m} /\ q[j] \in Message \ {m}
    BY <1>4 DEF Elements
  <2>2. unsentBytes[q[i]] <= unsentBytes[q[j]]
    BY DEF Ordered
  <2> QED  BY <1>3, <2>1, <2>2
<1>6. sendQueue' = Deprioritize(PushFront(q, m), m, unsentBytes')
  BY DEF Enqueue
<1>7. /\ sendQueue' \in Seq(Message)
      /\ Linked(sendQueue')
      /\ Elements(sendQueue') = Elements(q) \cup {m}
      /\ Ordered(sendQueue', unsentBytes')
  <2>1. m \notin Elements(q) /\ \A e \in Message : unsentBytes'[e] \in Int
    BY <1>3, <1>4
  <2> QED BY <2>1, <1>5, <1>6, InsertLemma
<1>8. Elements(sendQueue') = Elements(sendQueue) \cup {m}
  BY <1>7
<1>9. SendAccounting'
  <2> SUFFICES ASSUME NEW x \in Elements(sendQueue')
               PROVE  /\ packetsSent'[x] <= packetsGranted'[x]
                      /\ packetsGranted'[x] <= numPackets(x)
                      /\ unsentBytes'[x] = IF packetsSent'[x] = numPackets(x) THEN 0
                           ELSE Length[x] - packetsSent'[x] * PACKET_DATA_LENGTH
    BY DEF SendAccounting
  <2>1. CASE x = m
    <3>1. packetsGranted'[m] \in Nat
      BY <1>3
    <3>2. 0 * PACKET_DATA_LENGTH = 0
      BY <1>2
    <3> QED BY <2>1, <3>1, <3>2, <1>2, <1>3
  <2>2. CASE x # m
    <3>1. x \in Elements(sendQueue) /\ x \in Message \ {m}
      BY <2>2, <1>4, <1>7
    <3>2. /\ packetsSent[x] <= packetsGranted[x]
          /\ packetsGranted[x] <= numPackets(x)
          /\ unsentBytes[x] = IF packetsSent[x] = numPackets(x) THEN 0
               ELSE Length[x] - packetsSent[x] * PACKET_DATA_LENGTH
      BY <3>1 DEF QInv, SendAccounting
    <3> QED BY <3>1, <3>2, <1>3
  <2> QED BY <2>1, <2>2
<1>10. NoLostWakeup'
  BY <1>3 DEF NoLostWakeup
<1> QED BY <1>3, <1>7, <1>8, <1>9, <1>10, QueueChange

(* Taking a message that is being sent out of the queue.                     *)
LEMMA DequeueStep ==
  ASSUME TypeOK, QInv, NEW m \in Message, Dequeue(m),
         status[m] = "IN_PROGRESS" => ~QueueLocked,
         UNCHANGED <<info, sendReady, loop>>
  PROVE  /\ QInv'
         /\ sendQueue' \in Seq(Message)
         /\ Elements(sendQueue') =
              IF status[m] = "IN_PROGRESS" THEN Elements(sendQueue) \ {m}
                                           ELSE Elements(sendQueue)
<1>1. sendQueue \in Seq(Message)
  BY DEF TypeOK
<1>2. /\ packetsGranted' = packetsGranted /\ packetsSent' = packetsSent
      /\ unsentBytes' = unsentBytes /\ sendReady' = sendReady
  BY DEF info
<1>3. CASE status[m] # "IN_PROGRESS"
  <2>1. sendQueue' = sendQueue
    BY <1>3 DEF Dequeue
  <2>2. UNCHANGED <<info, queue, it, sending, pc>>
    BY <2>1 DEF queue, loop
  <2> QED BY <1>1, <1>3, <2>1, <2>2, QueueFrame
<1>4. CASE status[m] = "IN_PROGRESS"
  <2>1. sendQueue' = Unlink(sendQueue, m)
    BY <1>4 DEF Dequeue
  <2>2. Linked(sendQueue) /\ Ordered(sendQueue, unsentBytes)
    BY DEF QInv, ShortestFirst
  <2>3. /\ sendQueue' \in Seq(Message)
        /\ Linked(sendQueue')
        /\ Elements(sendQueue') = Elements(sendQueue) \ {m}
        /\ Ordered(sendQueue', unsentBytes)
    BY <1>1, <2>1, <2>2, UnlinkLemma
  <2>4. SendAccounting'
    BY <1>2, <2>3 DEF QInv, SendAccounting
  <2>5. NoLostWakeup'
    BY <1>2, <1>4, <2>3 DEF QInv, NoLostWakeup
  <2> QED BY <1>2, <1>4, <2>3, <2>4, <2>5, QueueChange
<1> QED BY <1>3, <1>4

-----------------------------------------------------------------------------
(* The second half of Inv for one message at a time.                         *)

Marked(x) == it = x /\ \E t \in Thread : pc[t] = "marked"
Waits(x) == x \in tracked /\ numPackets(x) > 1 /\ status[x] = "IN_PROGRESS"

QueueOK(x) ==
  /\ x \in Elements(sendQueue) => x \in tracked
  /\ x \in Elements(sendQueue) <=> Waits(x) \/ Marked(x)

ObjectOK(x) ==
  /\ x \in tracked => life[x] = "live" /\ status[x] # "NOT_STARTED"
  /\ held[x] => life[x] = "live"
  /\ status[x] = "IN_PROGRESS" => numPackets(x) > 1
  /\ x \in messageTimeout \/ x \in pingTimeout => x \in tracked
  /\ /\ x \in tracked /\ status[x] \in {"IN_PROGRESS", "SENT"}
     /\ "NO_KEEP_ALIVE" \notin options[x]
     => x \in messageTimeout /\ x \in pingTimeout
  /\ Marked(x) => status[x] # "IN_PROGRESS"

(* What Inv says of a message.                                               *)
LEMMA Before ==
  ASSUME Inv, NEW x \in Message
  PROVE  ObjectOK(x) /\ (~aborted => QueueOK(x))
<1>1. /\ TypeOK /\ QueueConsistent /\ QueuedAreTracked /\ Lifecycle /\ MarkedIsSent
      /\ NoDangling /\ KeepAliveArmed
  BY DEF Inv
<1>2. ASSUME ~aborted
      PROVE  x \in Elements(sendQueue) <=> Waits(x) \/ Marked(x)
  BY <1>1, <1>2 DEF QueueConsistent, Waits, Marked
<1>3. ~aborted /\ x \in Elements(sendQueue) => x \in tracked
  BY <1>1 DEF QueuedAreTracked
<1>4. /\ x \in tracked => life[x] = "live" /\ status[x] # "NOT_STARTED"
      /\ held[x] => life[x] = "live"
      /\ status[x] = "IN_PROGRESS" => numPackets(x) > 1
  BY <1>1 DEF Lifecycle
<1>5. x \in messageTimeout \/ x \in pingTimeout => x \in tracked
  BY <1>1 DEF NoDangling
<1>6. x \in tracked /\ status[x] \in {"IN_PROGRESS", "SENT"}
         /\ "NO_KEEP_ALIVE" \notin options[x]
         => x \in messageTimeout /\ x \in pingTimeout
  BY <1>1 DEF KeepAliveArmed
<1>7. Marked(x) => status[x] # "IN_PROGRESS"
  BY <1>1 DEF MarkedIsSent, Marked
<1> QED BY <1>2, <1>3, <1>4, <1>5, <1>6, <1>7 DEF ObjectOK, QueueOK

(* What has to be shown of a message after a step.                           *)
LEMMA After ==
  ASSUME TypeOK', QInv',
         \A x \in Message : ObjectOK(x)' /\ (~aborted' => QueueOK(x)')
  PROVE  Inv'
<1>1. /\ sendQueue' \in Seq(Message) /\ tracked' \subseteq Message
      /\ messageTimeout' \subseteq Message /\ pingTimeout' \subseteq Message
  BY DEF TypeOK
<1>2. Elements(sendQueue') \subseteq Message
  BY <1>1, PositionLemma
<1>3. QueuedAreTracked'
  BY <1>2 DEF QueuedAreTracked, QueueOK
<1>4. QueueConsistent'
  <2> SUFFICES ASSUME ~aborted'
               PROVE  Elements(sendQueue)' =
                  {m \in tracked' : numPackets(m) > 1 /\ status'[m] = "IN_PROGRESS"}
                  \cup {m \in Message : it' = m /\ \E t \in Thread : pc'[t] = "marked"}
    BY DEF QueueConsistent
  <2> QED BY <1>1, <1>2 DEF QueueOK, Waits, Marked
<1>5. Lifecycle' /\ MarkedIsSent'
  BY DEF Lifecycle, MarkedIsSent, ObjectOK, Marked
<1>6. NoDangling'
  BY <1>1 DEF NoDangling, ObjectOK
<1>7. KeepAliveArmed'
  BY <1>1 DEF KeepAliveArmed, ObjectOK
<1> QED BY <1>3, <1>4, <1>5, <1>6, <1>7 DEF Inv, QInv

-----------------------------------------------------------------------------
(* Each action keeps Inv. *)

(* allocMessage *)
LEMMA AllocMessageInv ==
  ASSUME Inv, NEW t \in Thread, NEW m \in Message, AllocMessage(t, m)
  PROVE  Inv'
<1>1. TypeOK'
  BY DEF Inv, TypeOK, AllocMessage, timers, info, queue, loop
<1>2. QInv'
  <2>1. QInv /\ UNCHANGED <<info, queue, it, pc, sending>>
    BY Halves DEF AllocMessage, loop
  <2> QED BY <2>1, QueueFrame
<1>3. ASSUME NEW x \in Message
      PROVE  ObjectOK(x)' /\ QueueOK(x)'
  <2>1. TypeOK /\ ~aborted /\ ObjectOK(x) /\ QueueOK(x)
    BY Before DEF AllocMessage, Calls, Inv
  <2>2. ObjectOK(x)'
    BY <2>1 DEF TypeOK, ObjectOK, Marked, AllocMessage, timers, loop
  <2>3. QueueOK(x)'
    BY <2>1 DEF QueueOK, Waits, Marked, AllocMessage, queue, loop
  <2> QED BY <2>2, <2>3
<1> QED BY <1>1, <1>2, <1>3, After

(* dropMessage of a message that is being sent *)
LEMMA DeferDropInv ==
  ASSUME Inv, NEW t \in Thread, NEW m \in Message, DeferDrop(t, m)
  PROVE  Inv'
<1>1. TypeOK'
  BY DEF Inv, TypeOK, DeferDrop, timers, info, queue, loop
<1>2. QInv'
  <2>1. QInv /\ UNCHANGED <<info, queue, it, pc, sending>>
    BY Halves DEF DeferDrop, loop
  <2> QED BY <2>1, QueueFrame
<1>3. ASSUME NEW x \in Message
      PROVE  ObjectOK(x)' /\ QueueOK(x)'
  <2>1. TypeOK /\ ObjectOK(x) /\ QueueOK(x)
    BY Before DEF DeferDrop, Calls, Inv
  <2>2. ObjectOK(x)'
    BY <2>1 DEF TypeOK, ObjectOK, Marked, DeferDrop, timers, info, queue, loop
  <2>3. QueueOK(x)'
    BY <2>1 DEF TypeOK, QueueOK, Waits, Marked, DeferDrop, timers, info, queue, loop
  <2> QED BY <2>2, <2>3
<1> QED BY <1>1, <1>2, <1>3, After

(* handleDonePacket *)
LEMMA HandleDoneInv ==
  ASSUME Inv, NEW t \in Thread, NEW m \in Message, HandleDone(t, m)
  PROVE  Inv'
<1>1. TypeOK'
  BY DEF Inv, TypeOK, HandleDone, CancelTimeouts, SetStatus, Status, object, info, queue, loop
<1>2. QInv'
  <2>1. QInv /\ UNCHANGED <<info, queue, it, pc, sending>>
    BY Halves DEF HandleDone, loop
  <2> QED BY <2>1, QueueFrame
<1>3. ASSUME NEW x \in Message
      PROVE  ObjectOK(x)' /\ QueueOK(x)'
  <2>1. TypeOK /\ ObjectOK(x) /\ QueueOK(x)
    BY Before DEF HandleDone, Calls, Inv
  <2>2. ObjectOK(x)'
    BY <2>1 DEF TypeOK, ObjectOK, Marked, HandleDone, CancelTimeouts, SetStatus, Status, object, info, queue, loop
  <2>3. QueueOK(x)'
    BY <2>1 DEF TypeOK, QueueOK, Waits, Marked, HandleDone, CancelTimeouts, SetStatus, Status, object, info, queue, loop
  <2> QED BY <2>2, <2>3
<1> QED BY <1>1, <1>2, <1>3, After

(* handleErrorPacket *)
LEMMA HandleErrorInv ==
  ASSUME Inv, NEW t \in Thread, NEW m \in Message, HandleError(t, m)
  PROVE  Inv'
<1>1. TypeOK'
  BY DEF Inv, TypeOK, HandleError, CancelTimeouts, SetStatus, Status, object, info, queue, loop
<1>2. QInv'
  <2>1. QInv /\ UNCHANGED <<info, queue, it, pc, sending>>
    BY Halves DEF HandleError, loop
  <2> QED BY <2>1, QueueFrame
<1>3. ASSUME NEW x \in Message
      PROVE  ObjectOK(x)' /\ QueueOK(x)'
  <2>1. TypeOK /\ ObjectOK(x) /\ QueueOK(x)
    BY Before DEF HandleError, Calls, Inv
  <2>2. ObjectOK(x)'
    BY <2>1 DEF TypeOK, ObjectOK, Marked, HandleError, CancelTimeouts, SetStatus, Status, object, info, queue, loop
  <2>3. QueueOK(x)'
    BY <2>1 DEF TypeOK, QueueOK, Waits, Marked, HandleError, CancelTimeouts, SetStatus, Status, object, info, queue, loop
  <2> QED BY <2>2, <2>3
<1> QED BY <1>1, <1>2, <1>3, After

(* checkPingTimeouts *)
LEMMA CheckPingTimeoutInv ==
  ASSUME Inv, NEW t \in Thread, NEW m \in Message, CheckPingTimeout(t, m)
  PROVE  Inv'
<1>1. TypeOK'
  BY DEF Inv, TypeOK, CheckPingTimeout, PingOver, object, info, queue, loop
<1>2. QInv'
  <2>1. QInv /\ UNCHANGED <<info, queue, it, pc, sending>>
    BY Halves DEF CheckPingTimeout, loop
  <2> QED BY <2>1, QueueFrame
<1>3. ASSUME NEW x \in Message
      PROVE  ObjectOK(x)' /\ QueueOK(x)'
  <2>1. TypeOK /\ ObjectOK(x) /\ QueueOK(x)
    BY Before DEF CheckPingTimeout, Calls, Inv
  <2>2. ObjectOK(x)'
    BY <2>1 DEF TypeOK, ObjectOK, Marked, CheckPingTimeout, PingOver, object, info, queue, loop
  <2>3. QueueOK(x)'
    BY <2>1 DEF TypeOK, QueueOK, Waits, Marked, CheckPingTimeout, PingOver, object, info, queue, loop
  <2> QED BY <2>2, <2>3
<1> QED BY <1>1, <1>2, <1>3, After

(* Destroying a message that the application no longer holds.                *)
LEMMA DestroyStep ==
  ASSUME Inv, ~aborted, NEW m \in Message, Destroy(m),
         UNCHANGED <<status, options, sendQueue, it>>,
         held' = [held EXCEPT ![m] = FALSE],
         \A t \in Thread : pc'[t] = "marked" <=> pc[t] = "marked",
         NEW x \in Message
  PROVE  ObjectOK(x)' /\ (~aborted' => QueueOK(x)')
<1>1. TypeOK /\ ObjectOK(x) /\ QueueOK(x)
  BY Before DEF Inv
<1>2. Marked(x)' <=> Marked(x)
  BY DEF Marked
<1>3. ObjectOK(x)'
  BY <1>1, <1>2 DEF TypeOK, ObjectOK, Destroy, CancelTimeouts
<1>4. ASSUME ~aborted'
      PROVE  QueueOK(x)'
  <2>1. m \notin Elements(sendQueue)
    BY <1>4 DEF Destroy
  <2>3. x # m => (Waits(x)' <=> Waits(x))
    BY DEF Waits, Destroy
  <2>4. ~Waits(m)'
    BY DEF Waits, Destroy
  <2>5. CASE x = m
    BY <1>1, <1>2, <2>1, <2>4, <2>5 DEF QueueOK
  <2>6. CASE x # m
    BY <1>1, <1>2, <2>3, <2>6 DEF QueueOK, Destroy
  <2> QED BY <2>5, <2>6
<1> QED BY <1>3, <1>4

(* dropMessage of a message that need not wait                               *)
LEMMA DropMessageInv ==
  ASSUME Inv, NEW t \in Thread, NEW m \in Message, DropMessage(t, m)
  PROVE  Inv'
<1>1. TypeOK'
  BY DEF Inv, TypeOK, DropMessage, Destroy, CancelTimeouts, info, queue, loop
<1>2. QInv'
  <2>1. QInv /\ UNCHANGED <<info, queue, it, pc, sending>>
    BY Halves DEF DropMessage, loop
  <2> QED BY <2>1, QueueFrame
<1>3. ASSUME NEW x \in Message
      PROVE  ObjectOK(x)' /\ (~aborted' => QueueOK(x)')
  <2>1. /\ ~aborted /\ Destroy(m) /\ UNCHANGED <<status, options, sendQueue, it, pc>>
        /\ held' = [held EXCEPT ![m] = FALSE]
    BY DEF DropMessage, Calls, queue, loop
  <2> QED BY <2>1, DestroyStep
<1> QED BY <1>1, <1>2, <1>3, After

(* The last loop of trySend                                                  *)
LEMMA ProcessSentInv ==
  ASSUME Inv, NEW t \in Thread, NEW m \in Message, ProcessSent(t, m)
  PROVE  Inv'
<1>1. /\ ~aborted /\ pc[t] = "post"
      /\ pc' = [pc EXCEPT ![t] = IF sentMessageIds[t] = {m} THEN "idle" ELSE "post"]
      /\ UNCHANGED <<held, options, status, info, queue, sending, it>>
      /\ sentMessageIds' = [sentMessageIds EXCEPT ![t] = @ \ {m}]
  BY DEF ProcessSent, Goto
<1>2. TypeOK
  BY DEF Inv
<1>3. \A u \in Thread : /\ pc'[u] = "acquire" <=> pc[u] = "acquire"
                        /\ pc'[u] = "send" <=> pc[u] = "send"
                        /\ pc'[u] = "marked" <=> pc[u] = "marked"
  BY <1>1, <1>2 DEF TypeOK
<1>4. QInv'
  <2>1. QInv
    BY Halves
  <2> QED BY <1>1, <1>3, <2>1, QueueFrame
<1>5. /\ pc' \in [Thread -> {"idle", "checked", "acquire", "send", "marked", "post"}]
      /\ sentMessageIds' \in [Thread -> SUBSET Message]
  BY <1>1, <1>2 DEF TypeOK
<1>6. (\E u \in Thread : pc[u] = "marked")' <=> \E u \in Thread : pc[u] = "marked"
  BY <1>3
<1>7. CASE m \in tracked /\ ~held[m] /\ Destroy(m)
  <2>1. TypeOK'
    BY <1>1, <1>2, <1>5, <1>7 DEF TypeOK, Destroy, CancelTimeouts, info, queue
  <2>2. ASSUME NEW x \in Message
        PROVE  ObjectOK(x)' /\ (~aborted' => QueueOK(x)')
    <3>1. held' = [held EXCEPT ![m] = FALSE] /\ UNCHANGED <<status, options, sendQueue, it>>
      BY <1>1, <1>2, <1>7 DEF TypeOK, queue
    <3> QED BY <1>1, <1>3, <1>7, <3>1, DestroyStep
  <2> QED BY <1>4, <2>1, <2>2, After
<1>8. CASE /\ m \in tracked => "NO_KEEP_ALIVE" \in options[m]
           /\ CancelTimeouts(m) /\ UNCHANGED <<tracked, life, aborted>>
  <2>1. TypeOK'
    BY <1>1, <1>2, <1>5, <1>8 DEF TypeOK, CancelTimeouts, info, queue
  <2>2. ASSUME NEW x \in Message
        PROVE  ObjectOK(x)' /\ QueueOK(x)'
    <3>1. ObjectOK(x) /\ QueueOK(x)
      BY <1>1, Before
    <3>2. ObjectOK(x)'
      BY <1>1, <1>2, <1>6, <1>8, <3>1 DEF TypeOK, ObjectOK, Marked, CancelTimeouts
    <3>3. QueueOK(x)'
      BY <1>1, <1>6, <1>8, <3>1 DEF QueueOK, Waits, Marked, queue
    <3> QED BY <3>2, <3>3
  <2> QED BY <1>4, <2>1, <2>2, After
<1>9. CASE UNCHANGED <<timers, tracked, life, aborted>>
  <2>1. TypeOK'
    BY <1>1, <1>2, <1>5, <1>9 DEF TypeOK, timers, info, queue
  <2>2. ASSUME NEW x \in Message
        PROVE  ObjectOK(x)' /\ QueueOK(x)'
    <3>1. ObjectOK(x) /\ QueueOK(x)
      BY <1>1, Before
    <3>2. ObjectOK(x)'
      BY <1>1, <1>6, <1>9, <3>1 DEF ObjectOK, Marked, timers
    <3>3. QueueOK(x)'
      BY <1>1, <1>6, <1>9, <3>1 DEF QueueOK, Waits, Marked, queue
    <3> QED BY <3>2, <3>3
  <2> QED BY <1>4, <2>1, <2>2, After
<1> QED BY <1>7, <1>8, <1>9 DEF ProcessSent

(* handleResendPacket *)
LEMMA HandleResendInv ==
  ASSUME Inv, NEW t \in Thread, NEW m \in Message, NEW index \in Nat, NEW num \in Nat,
         HandleResend(t, m, index, num)
  PROVE  Inv'
<1>1. /\ ~aborted /\ ~QueueLocked /\ m \in tracked /\ SetTimeouts(m)
      /\ UNCHANGED <<object, status, packetsSent, unsentBytes, sendQueue, loop, aborted>>
  BY DEF HandleResend, Calls
<1>2. TypeOK /\ QInv
  BY Halves
<1>3. /\ QInv'
      /\ packetsGranted' \in [Message -> Nat]
      /\ sendReady' \in BOOLEAN
  <2>1. CASE InRange(m, index, num)
    <3>1. Grant(m, index + num)
      BY <2>1 DEF HandleResend
    <3>2. index + num \in Nat /\ index + num <= numPackets(m)
      BY <2>1 DEF InRange
    <3> QED BY <1>1, <1>2, <3>1, <3>2, GrantStep
  <2>2. CASE ~InRange(m, index, num)
    <3>1. UNCHANGED <<info, queue, it, pc, sending>>
      BY <1>1, <2>2 DEF HandleResend, info, queue, loop
    <3> QED BY <1>2, <3>1, QueueFrame DEF TypeOK, info, queue
  <2> QED BY <2>1, <2>2
<1>4. TypeOK'
  BY <1>1, <1>2, <1>3 DEF TypeOK, SetTimeouts, object, loop
<1>5. ASSUME NEW x \in Message
      PROVE  ObjectOK(x)' /\ QueueOK(x)'
  <2>1. ObjectOK(x) /\ QueueOK(x)
    BY <1>1, Before
  <2>2. ObjectOK(x)'
    BY <1>1, <1>2, <2>1 DEF TypeOK, ObjectOK, Marked, SetTimeouts, object, loop
  <2>3. QueueOK(x)'
    BY <1>1, <2>1 DEF QueueOK, Waits, Marked, object, loop
  <2> QED BY <2>2, <2>3
<1> QED BY <1>3, <1>4, <1>5, After

(* handleGrantPacket *)
LEMMA HandleGrantInv ==
  ASSUME Inv, NEW t \in Thread, NEW m \in Message, NEW b \in Nat, HandleGrant(t, m, b)
  PROVE  Inv'
<1>1. /\ ~aborted /\ m \in tracked /\ SetTimeouts(m)
      /\ UNCHANGED <<object, status, packetsSent, unsentBytes, sendQueue, loop, aborted>>
  BY DEF HandleGrant, Calls
<1>2. TypeOK /\ QInv
  BY Halves
<1>3. /\ QInv'
      /\ packetsGranted' \in [Message -> Nat]
      /\ sendReady' \in BOOLEAN
  <2> DEFINE limit == IF Ceil(b) > numPackets(m) THEN numPackets(m) ELSE Ceil(b)
  <2>1. CASE ~QueueLocked /\ Grant(m, limit)
    <3>1. Ceil(b) \in Nat /\ numPackets(m) \in Nat
      BY CeilType, NumPackets
    <3>2. limit \in Nat /\ limit <= numPackets(m)
      BY <3>1
    <3> HIDE DEF limit
    <3> QED BY <1>1, <1>2, <2>1, <3>2, GrantStep
  <2>2. CASE UNCHANGED <<packetsGranted, sendReady>>
    <3>1. UNCHANGED <<info, queue, it, pc, sending>>
      BY <1>1, <2>2 DEF info, queue, loop
    <3> QED BY <1>2, <3>1, QueueFrame DEF TypeOK, info, queue
  <2> QED BY <2>1, <2>2 DEF HandleGrant
<1>4. TypeOK'
  BY <1>1, <1>2, <1>3 DEF TypeOK, SetTimeouts, object, loop
<1>5. ASSUME NEW x \in Message
      PROVE  ObjectOK(x)' /\ QueueOK(x)'
  <2>1. ObjectOK(x) /\ QueueOK(x)
    BY <1>1, Before
  <2>2. ObjectOK(x)'
    BY <1>1, <1>2, <2>1 DEF TypeOK, ObjectOK, Marked, SetTimeouts, object, loop
  <2>3. QueueOK(x)'
    BY <1>1, <2>1 DEF QueueOK, Waits, Marked, object, loop
  <2> QED BY <2>2, <2>3
<1> QED BY <1>3, <1>4, <1>5, After

(* A message ends: out of the queue, timeouts stopped.                       *)
LEMMA SettleStep ==
  ASSUME Inv, ~aborted, NEW m \in tracked, NEW s \in {"COMPLETED", "FAILED", "CANCELED"},
         Dequeue(m), SetStatus(m, s), CancelTimeouts(m),
         status[m] = "IN_PROGRESS" => ~QueueLocked,
         UNCHANGED <<object, info, sendReady, loop, aborted>>
  PROVE  Inv'
<1>1. TypeOK /\ QInv /\ m \in Message
  BY Halves DEF TypeOK
<1>2. /\ QInv'
      /\ sendQueue' \in Seq(Message)
      /\ Elements(sendQueue') =
           IF status[m] = "IN_PROGRESS" THEN Elements(sendQueue) \ {m}
                                        ELSE Elements(sendQueue)
  BY <1>1, DequeueStep
<1>3. TypeOK'
  BY <1>1, <1>2 DEF TypeOK, SetStatus, CancelTimeouts, Status, object, info, loop
<1>4. ASSUME NEW x \in Message
      PROVE  ObjectOK(x)' /\ QueueOK(x)'
  <2>1. ObjectOK(x) /\ QueueOK(x)
    BY Before
  <2>2. ObjectOK(x)'
    BY <1>1, <2>1 DEF TypeOK, ObjectOK, Marked, SetStatus, CancelTimeouts, object, loop
  <2>3. Marked(x)' <=> Marked(x)
    BY DEF Marked, loop
  <2>4. tracked' = tracked
    BY DEF object
  <2>5. CASE x = m
    <3>1. ~Waits(x)'
      BY <1>1, <2>5 DEF TypeOK, Waits, SetStatus
    <3>2. CASE status[m] = "IN_PROGRESS"
      <4>1. it = NoMessage
        BY <1>1, <3>2, NoIterator
      <4>2. ~Marked(x)
        BY <4>1, MessageAssumption DEF Marked
      <4> QED BY <1>2, <2>2, <2>3, <2>5, <3>1, <3>2, <4>2 DEF QueueOK
    <3>3. CASE status[m] # "IN_PROGRESS"
      <4>1. ~Waits(x)
        BY <2>5, <3>3 DEF Waits
      <4> QED BY <1>2, <2>1, <2>2, <2>3, <2>4, <2>5, <3>1, <3>3, <4>1 DEF QueueOK
    <3> QED BY <3>2, <3>3
  <2>6. CASE x # m
    <3>1. Waits(x)' <=> Waits(x)
      BY <1>1, <2>4, <2>6 DEF TypeOK, Waits, SetStatus
    <3>2. x \in Elements(sendQueue') <=> x \in Elements(sendQueue)
      BY <1>2, <2>6
    <3> QED BY <2>1, <2>2, <2>3, <2>4, <3>1, <3>2 DEF QueueOK
  <2> QED BY <2>2, <2>5, <2>6
<1> QED BY <1>2, <1>3, <1>4, After

(* cancelMessage *)
LEMMA CancelMessageInv ==
  ASSUME Inv, NEW t \in Thread, NEW m \in Message, CancelMessage(t, m)
  PROVE  Inv'
<1>1. ObjectOK(m)
  BY Before
<1>2. status[m] = "IN_PROGRESS" => ~QueueLocked
  BY <1>1 DEF CancelMessage, ObjectOK
<1>3. /\ ~aborted /\ m \in tracked /\ CancelTimeouts(m) /\ Dequeue(m)
      /\ SetStatus(m, "CANCELED")
      /\ UNCHANGED <<object, info, sendReady, loop, aborted>>
  BY DEF CancelMessage, Calls
<1> QED BY <1>2, <1>3, SettleStep

(* handleUnknownPacket with NO_RETRY *)
LEMMA HandleUnknownNoRetryInv ==
  ASSUME Inv, NEW t \in Thread, NEW m \in Message, HandleUnknownNoRetry(t, m)
  PROVE  Inv'
<1>1. ObjectOK(m)
  BY Before
<1>2. status[m] = "IN_PROGRESS" => ~QueueLocked
  BY <1>1 DEF HandleUnknownNoRetry, ObjectOK
<1>3. /\ ~aborted /\ m \in tracked /\ CancelTimeouts(m) /\ Dequeue(m)
      /\ SetStatus(m, "FAILED")
      /\ UNCHANGED <<object, info, sendReady, loop, aborted>>
  BY DEF HandleUnknownNoRetry, IsUnfinished, Calls
<1> QED BY <1>2, <1>3, SettleStep

(* checkMessageTimeouts *)
LEMMA CheckMessageTimeoutInv ==
  ASSUME Inv, NEW t \in Thread, NEW m \in Message, CheckMessageTimeout(t, m)
  PROVE  Inv'
<1> DEFINE s == IF status[m] = "COMPLETED" THEN "COMPLETED" ELSE "FAILED"
<1>1. ObjectOK(m)
  BY Before
<1>2. /\ ~aborted /\ m \in tracked /\ CancelTimeouts(m) /\ Dequeue(m)
      /\ SetStatus(m, s)
      /\ status[m] = "IN_PROGRESS" => ~QueueLocked
      /\ UNCHANGED <<object, info, sendReady, loop, aborted>>
  BY <1>1 DEF CheckMessageTimeout, ObjectOK, Calls
<1>3. s \in {"COMPLETED", "FAILED", "CANCELED"}
  OBVIOUS
<1> HIDE DEF s
<1> QED BY <1>2, <1>3, SettleStep

(* The message is sent, or queued, from its first packet: sendMessage and    *)
(* the restart of handleUnknownPacket.                                       *)
LEMMA StartStep ==
  ASSUME Inv, ~aborted, NEW m \in Message, life[m] = "live",
         tracked' = tracked \cup {m},
         options' \in [Message -> SUBSET {"NO_RETRY", "NO_KEEP_ALIVE"}],
         \A x \in Message \ {m} : options'[x] = options[x],
         UNCHANGED <<life, held, loop, aborted>>,
         \/ /\ numPackets(m) = 1
            /\ SendSinglePacket(m, options'[m])
         \/ /\ numPackets(m) > 1 /\ ~QueueLocked
            /\ SetStatus(m, "IN_PROGRESS")
            /\ SetTimeouts(m)
            /\ \E b \in Nat : Enqueue(m, Unlink(sendQueue, m), b)
  PROVE  Inv'
<1>1. TypeOK /\ QInv
  BY Halves
<1>2. sendQueue \in Seq(Message) /\ Linked(sendQueue) /\ Ordered(sendQueue, unsentBytes)
  BY <1>1 DEF TypeOK, QInv, ShortestFirst
<1>3. CASE numPackets(m) = 1 /\ SendSinglePacket(m, options'[m])
  <2>1. SetStatus(m, "SENT") /\ UNCHANGED <<info, queue>>
    BY <1>3 DEF SendSinglePacket
  <2>2. QInv'
    <3>1. UNCHANGED <<info, queue, it, pc, sending>>
      BY <2>1 DEF loop
    <3> QED BY <1>1, <3>1, QueueFrame
  <2>3. \/ CancelTimeouts(m) /\ "NO_KEEP_ALIVE" \in options'[m]
        \/ SetTimeouts(m)
    BY <1>3 DEF SendSinglePacket
  <2>4. TypeOK'
    BY <1>1, <2>1, <2>3 DEF TypeOK, SetStatus, Status, SetTimeouts, CancelTimeouts, info, queue, loop
  <2>5. ASSUME NEW x \in Message
        PROVE  ObjectOK(x)' /\ QueueOK(x)'
    <3>1. ObjectOK(x) /\ QueueOK(x)
      BY Before
    <3>2. Marked(x)' <=> Marked(x)
      BY DEF Marked, loop
    <3>3. ObjectOK(x)'
      BY <1>1, <2>1, <2>3, <3>1, <3>2 DEF TypeOK, ObjectOK, SetStatus, SetTimeouts, CancelTimeouts
    <3>4. Waits(x)' <=> Waits(x)
      BY <1>1, <1>3, <2>1, NumPackets DEF TypeOK, Waits, SetStatus
    <3>5. Elements(sendQueue)' = Elements(sendQueue)
      BY <2>1 DEF queue
    <3> QED BY <3>1, <3>2, <3>3, <3>4, <3>5 DEF QueueOK
  <2> QED BY <2>2, <2>4, <2>5, After
<1>4. ASSUME numPackets(m) > 1, ~QueueLocked, SetStatus(m, "IN_PROGRESS"), SetTimeouts(m),
             NEW b \in Nat, Enqueue(m, Unlink(sendQueue, m), b)
      PROVE  Inv'
  <2>1. /\ Unlink(sendQueue, m) \in Seq(Message)
        /\ Linked(Unlink(sendQueue, m))
        /\ Elements(Unlink(sendQueue, m)) = Elements(sendQueue) \ {m}
        /\ Ordered(Unlink(sendQueue, m), unsentBytes)
    BY <1>2, UnlinkLemma
  <2>2. /\ QInv'
        /\ packetsGranted' \in [Message -> Nat]
        /\ packetsSent' \in [Message -> Nat]
        /\ unsentBytes' \in [Message -> Nat]
        /\ sendQueue' \in Seq(Message)
        /\ sendReady' = TRUE
        /\ Elements(sendQueue') = Elements(sendQueue) \cup {m}
    BY <1>1, <1>4, <2>1, EnqueueStep
  <2>3. TypeOK'
    BY <1>1, <1>4, <2>2 DEF TypeOK, SetStatus, Status, SetTimeouts, loop
  <2>4. it = NoMessage
    BY <1>1, <1>4, NoIterator
  <2>5. ASSUME NEW x \in Message
        PROVE  ObjectOK(x)' /\ QueueOK(x)'
    <3>1. ObjectOK(x) /\ QueueOK(x)
      BY Before
    <3>2. ~Marked(x)' /\ ~Marked(x)
      BY <2>4, MessageAssumption DEF Marked, loop
    <3>3. ObjectOK(x)'
      BY <1>1, <1>4, <3>1, <3>2 DEF TypeOK, ObjectOK, SetStatus, SetTimeouts
    <3>4. Waits(x)' <=> Waits(x) \/ x = m
      BY <1>1, <1>4 DEF TypeOK, Waits, SetStatus
    <3> QED BY <2>2, <3>1, <3>2, <3>3, <3>4 DEF QueueOK
  <2> QED BY <2>2, <2>3, <2>5, After
<1> QED BY <1>3, <1>4

(* sendMessage *)
LEMMA SendMessageInv ==
  ASSUME Inv, NEW t \in Thread, NEW m \in Message, NEW opts \in OptionSets, NEW b \in Nat,
         SendMessage(t, m, opts, b)
  PROVE  Inv'
<1>1. ~aborted /\ held[m] /\ status[m] = "NOT_STARTED"
  BY DEF SendMessage, Calls
<1>2. TypeOK /\ ObjectOK(m) /\ QueueOK(m)
  BY <1>1, Before DEF Inv
<1>3. life[m] = "live" /\ Unlink(sendQueue, m) = sendQueue
  BY <1>1, <1>2 DEF ObjectOK, QueueOK, Unlink
<1>4. /\ options' = [options EXCEPT ![m] = opts]
      /\ tracked' = tracked \cup {m}
      /\ UNCHANGED <<life, held, loop, aborted>>
  BY DEF SendMessage
<1>5. /\ options' \in [Message -> SUBSET {"NO_RETRY", "NO_KEEP_ALIVE"}]
      /\ options'[m] = opts
      /\ \A x \in Message \ {m} : options'[x] = options[x]
  BY <1>2, <1>4, OptionAssumption DEF TypeOK
<1>6. \/ /\ numPackets(m) = 1
         /\ SendSinglePacket(m, options'[m])
      \/ /\ numPackets(m) > 1 /\ ~QueueLocked
         /\ SetStatus(m, "IN_PROGRESS")
         /\ SetTimeouts(m)
         /\ Enqueue(m, Unlink(sendQueue, m), b)
  BY <1>3, <1>5 DEF SendMessage
<1> QED BY <1>1, <1>3, <1>4, <1>5, <1>6, StartStep

(* handleUnknownPacket, sending again *)
LEMMA HandleUnknownRestartInv ==
  ASSUME Inv, NEW t \in Thread, NEW m \in Message, NEW b \in Nat,
         HandleUnknownRestart(t, m, b)
  PROVE  Inv'
<1>1. ~aborted /\ m \in tracked /\ UNCHANGED <<object, loop, aborted>>
  BY DEF HandleUnknownRestart, IsUnfinished, Calls
<1>2. TypeOK /\ ObjectOK(m)
  BY <1>1, Before DEF Inv
<1>3. life[m] = "live" /\ tracked' = tracked \cup {m} /\ UNCHANGED <<life, held, loop, aborted>>
  BY <1>1, <1>2 DEF ObjectOK, object
<1>4. /\ options' \in [Message -> SUBSET {"NO_RETRY", "NO_KEEP_ALIVE"}]
      /\ \A x \in Message \ {m} : options'[x] = options[x]
      /\ options'[m] = options[m]
  BY <1>1, <1>2 DEF TypeOK, object
<1>5. \/ /\ numPackets(m) = 1
         /\ SendSinglePacket(m, options'[m])
      \/ /\ numPackets(m) > 1 /\ ~QueueLocked
         /\ SetStatus(m, "IN_PROGRESS")
         /\ SetTimeouts(m)
         /\ Enqueue(m, Unlink(sendQueue, m), b)
  BY <1>4 DEF HandleUnknownRestart
<1> QED BY <1>1, <1>3, <1>4, <1>5, StartStep

-----------------------------------------------------------------------------
(* The steps of trySend. *)

(* A step that changes no message and does not move the mark keeps the       *)
(* second half.                                                              *)
LEMMA ObjectFrame ==
  ASSUME Inv, ~aborted, UNCHANGED <<object, status, timers, sendQueue, aborted>>,
         NEW x \in Message, Marked(x)' <=> Marked(x)
  PROVE  ObjectOK(x)' /\ QueueOK(x)'
<1>1. ObjectOK(x) /\ QueueOK(x)
  BY Before
<1>2. ObjectOK(x)'
  BY <1>1 DEF ObjectOK, object, timers
<1>3. QueueOK(x)'
  BY <1>1 DEF QueueOK, Waits, object
<1> QED BY <1>2, <1>3

(* The thread that holds the queueMutex is alone in the critical part.       *)
LEMMA Alone ==
  ASSUME Inv, NEW t \in Thread, pc[t] \in {"acquire", "send", "marked"}
  PROVE  \A u \in Thread : pc[u] \in {"acquire", "send", "marked"} => u = t
BY DEF Inv, OneSender

(* Reading sendReady                                                         *)
LEMMA CheckReadyInv ==
  ASSUME Inv, NEW t \in Thread, CheckReady(t)
  PROVE  Inv'
<1>1. /\ ~aborted /\ pc[t] = "idle" /\ pc' = [pc EXCEPT ![t] = "checked"]
      /\ UNCHANGED <<object, status, timers, info, queue, sending, it, sentMessageIds, aborted>>
  BY DEF CheckReady, Calls, Goto
<1>2. TypeOK /\ QInv
  BY Halves
<1>3. TypeOK'
  BY <1>1, <1>2 DEF TypeOK, object, timers, info, queue
<1>4. \A u \in Thread : /\ pc'[u] = "acquire" <=> pc[u] = "acquire"
                        /\ pc'[u] = "send" <=> pc[u] = "send"
                        /\ pc'[u] = "marked" <=> pc[u] = "marked"
  BY <1>1, <1>2 DEF TypeOK
<1>5. QInv'
  BY <1>1, <1>2, <1>4, QueueFrame
<1>6. ASSUME NEW x \in Message
      PROVE  ObjectOK(x)' /\ QueueOK(x)'
  <2>1. Marked(x)' <=> Marked(x)
    BY <1>1, <1>4 DEF Marked
  <2> QED BY <1>1, <2>1, ObjectFrame DEF queue
<1> QED BY <1>3, <1>5, <1>6, After

(* test_and_set                                                              *)
LEMMA TestAndSetInv ==
  ASSUME Inv, NEW t \in Thread, TestAndSet(t)
  PROVE  Inv'
<1>1. /\ ~aborted /\ pc[t] = "checked" /\ sending' = TRUE
      /\ pc' = [pc EXCEPT ![t] = IF sending THEN "idle" ELSE "acquire"]
      /\ UNCHANGED <<object, status, timers, info, queue, it, sentMessageIds, aborted>>
  BY DEF TestAndSet, Goto
<1>2. TypeOK /\ QInv
  BY Halves
<1>3. TypeOK'
  BY <1>1, <1>2 DEF TypeOK, object, timers, info, queue
<1>4. \A u \in Thread : /\ pc'[u] = "send" <=> pc[u] = "send"
                        /\ pc'[u] = "marked" <=> pc[u] = "marked"
  BY <1>1, <1>2 DEF TypeOK
<1>5. OneSender'
  <2>1. CASE sending
    <3>1. \A u \in Thread : pc'[u] = "acquire" <=> pc[u] = "acquire"
      BY <1>1, <1>2, <2>1 DEF TypeOK
    <3> QED BY <1>1, <1>2, <1>4, <3>1 DEF QInv, OneSender
  <2>2. CASE ~sending
    <3>1. \A u \in Thread : pc[u] \notin {"acquire", "send", "marked"}
      BY <1>2, <2>2 DEF QInv, OneSender
    <3>2. \A u \in Thread : u # t => pc'[u] = pc[u]
      BY <1>1, <1>2 DEF TypeOK
    <3> QED BY <1>1, <3>1, <3>2 DEF OneSender
  <2> QED BY <2>1, <2>2
<1>6. QInv'
  BY <1>1, <1>2, <1>4, <1>5, CriticalFrame
<1>7. ASSUME NEW x \in Message
      PROVE  ObjectOK(x)' /\ QueueOK(x)'
  <2>1. Marked(x)' <=> Marked(x)
    BY <1>1, <1>4 DEF Marked
  <2> QED BY <1>1, <2>1, ObjectFrame DEF queue
<1> QED BY <1>3, <1>6, <1>7, After

(* Locking the queueMutex                                                    *)
LEMMA LockQueueInv ==
  ASSUME Inv, NEW t \in Thread, LockQueue(t)
  PROVE  Inv'
<1>1. /\ ~aborted /\ pc[t] = "acquire" /\ ~QueueLocked
      /\ sendReady' = FALSE /\ it' = FirstOf(sendQueue, NoMessage)
      /\ pc' = [pc EXCEPT ![t] = "send"]
      /\ UNCHANGED <<object, status, timers, info, sendQueue, sending, sentMessageIds, aborted>>
  BY DEF LockQueue, Goto
<1>2. TypeOK /\ QInv
  BY Halves
<1>3. sendQueue \in Seq(Message) /\ Linked(sendQueue) /\ Elements(sendQueue) \subseteq Message
  BY <1>2, PositionLemma DEF TypeOK, QInv
<1>4. /\ it' \in Elements(sendQueue) \cup {NoMessage}
      /\ it' = NoMessage => Len(sendQueue) = 0
      /\ Len(sendQueue) > 0 => Position(sendQueue, it') = 1
  BY <1>1, <1>3, FirstLemma, MessageAssumption
<1>5. TypeOK'
  BY <1>1, <1>2, <1>3, <1>4 DEF TypeOK, object, timers, info
<1>6. /\ \A u \in Thread : pc[u] \notin {"send", "marked"}
      /\ \A u \in Thread : u # t => pc'[u] = pc[u]
      /\ pc'[t] = "send"
  BY <1>1, <1>2, NoIterator DEF TypeOK
<1>7. QInv'
  <2>1. QueueLocked' /\ ~\E u \in Thread : pc'[u] = "marked"
    BY <1>6 DEF QueueLocked
  <2>2. OneSender'
    <3>1. sending /\ \A u \in Thread : pc[u] \in {"acquire", "send", "marked"} => u = t
      BY <1>1, <1>2 DEF QInv, OneSender
    <3> QED BY <1>1, <1>6, <3>1 DEF OneSender
  <2>3. IteratorValid'
    BY <1>1, <1>4, <2>1 DEF IteratorValid
  <2>4. PassedAreSent'
    <3> SUFFICES ASSUME NEW i \in 1..Len(sendQueue),
                        it' = NoMessage \/ i < Position(sendQueue, it')
                 PROVE  FALSE
      BY <1>1 DEF PassedAreSent
    <3> QED BY <1>3, <1>4
  <2>5. NoLostWakeup'
    BY <2>1 DEF NoLostWakeup
  <2>6. Linked(sendQueue') /\ ShortestFirst' /\ SendAccounting'
    BY <1>1, <1>2 DEF QInv, ShortestFirst, SendAccounting, info
  <2> QED BY <2>2, <2>3, <2>4, <2>5, <2>6 DEF QInv
<1>8. ASSUME NEW x \in Message
      PROVE  ObjectOK(x)' /\ QueueOK(x)'
  <2>1. ~Marked(x)' /\ ~Marked(x)
    BY <1>6 DEF Marked
  <2> QED BY <1>1, <2>1, ObjectFrame
<1> QED BY <1>5, <1>7, <1>8, After

(* What holds while a thread is at a message in the loop.                    *)
LEMMA AtMessage ==
  ASSUME Inv, NEW t \in Thread, Visiting(t)
  PROVE  /\ ~aborted /\ pc[t] = "send" /\ QueueLocked
         /\ it \in Message /\ it \in Elements(sendQueue)
         /\ \A u \in Thread : pc[u] # "marked"
         /\ \A x \in Message : ~Marked(x)
         /\ it \in tracked /\ status[it] = "IN_PROGRESS"
<1>1. ~aborted /\ pc[t] = "send" /\ it # NoMessage
  BY DEF Visiting
<1>2. it \in Message /\ it \in Elements(sendQueue)
  BY <1>1 DEF Inv, TypeOK, IteratorValid
<1>3. \A u \in Thread : pc[u] # "marked"
  BY <1>1, Alone
<1>4. \A x \in Message : ~Marked(x)
  BY <1>3 DEF Marked
<1>5. QueueOK(it)
  BY <1>1, <1>2, Before
<1>6. Waits(it)
  BY <1>2, <1>4, <1>5 DEF QueueOK
<1> QED BY <1>1, <1>2, <1>3, <1>4, <1>6 DEF Waits, QueueLocked

(* Going on to the next message                                              *)
LEMMA NextMessageInv ==
  ASSUME Inv, NEW t \in Thread, NextMessage(t)
  PROVE  Inv'
<1>1. /\ Visiting(t) /\ packetsSent[it] >= packetsGranted[it]
      /\ it' = NextOf(sendQueue, it, NoMessage)
      /\ UNCHANGED <<object, status, timers, info, queue, sending, pc, sentMessageIds, aborted>>
  BY DEF NextMessage
<1>2. TypeOK /\ QInv
  BY Halves
<1>3. /\ ~aborted /\ QueueLocked /\ it \in Message /\ it \in Elements(sendQueue)
      /\ \A u \in Thread : pc[u] # "marked"
      /\ \A x \in Message : ~Marked(x)
  BY <1>1, AtMessage
<1>4. sendQueue \in Seq(Message) /\ Linked(sendQueue) /\ Elements(sendQueue) \subseteq Message
  BY <1>2, PositionLemma DEF TypeOK, QInv
<1>5. /\ it' \in Elements(sendQueue) \cup {NoMessage}
      /\ it' # NoMessage => Position(sendQueue, it') = Position(sendQueue, it) + 1
      /\ it' = NoMessage => Position(sendQueue, it) = Len(sendQueue)
  BY <1>1, <1>3, <1>4, NextLemma, MessageAssumption
<1>6. Position(sendQueue, it) \in 1..Len(sendQueue) /\ sendQueue[Position(sendQueue, it)] = it
  BY <1>3, <1>4, PositionLemma
<1>7. TypeOK'
  BY <1>1, <1>2, <1>4, <1>5 DEF TypeOK, object, timers, info, queue
<1>8. /\ packetsSent' = packetsSent /\ packetsGranted' = packetsGranted
      /\ unsentBytes' = unsentBytes /\ sendQueue' = sendQueue /\ pc' = pc
      /\ sendReady' = sendReady /\ sending' = sending
  BY <1>1 DEF info, queue
<1>9. QInv'
  <2>1. QueueLocked' /\ OneSender' /\ NoLostWakeup'
    BY <1>2, <1>3, <1>8 DEF QInv, QueueLocked, OneSender, NoLostWakeup
  <2>2. IteratorValid'
    BY <1>3, <1>5, <1>8, <2>1 DEF IteratorValid
  <2>3. PassedAreSent'
    <3> SUFFICES ASSUME NEW i \in 1..Len(sendQueue),
                        it' = NoMessage \/ i < Position(sendQueue, it')
                 PROVE  packetsSent[sendQueue[i]] >= packetsGranted[sendQueue[i]]
      BY <1>8 DEF PassedAreSent
    <3>1. i < Position(sendQueue, it) \/ i = Position(sendQueue, it)
      <4>1. Len(sendQueue) \in Nat
        BY <1>4
      <4> HIDE DEF Visiting
      <4> QED BY <1>5, <1>6, <4>1
    <3>2. CASE i < Position(sendQueue, it)
      BY <1>2, <1>3, <3>2 DEF QInv, PassedAreSent
    <3>3. CASE i = Position(sendQueue, it)
      BY <1>1, <1>6, <3>3
    <3> QED BY <3>1, <3>2, <3>3
  <2>4. Linked(sendQueue') /\ ShortestFirst' /\ SendAccounting'
    BY <1>2, <1>8 DEF QInv, ShortestFirst, SendAccounting
  <2> QED BY <2>1, <2>2, <2>3, <2>4 DEF QInv
<1>10. ASSUME NEW x \in Message
       PROVE  ObjectOK(x)' /\ QueueOK(x)'
  <2>1. ~Marked(x)' /\ ~Marked(x)
    BY <1>3, <1>8 DEF Marked
  <2> QED BY <1>1, <1>3, <1>8, <2>1, ObjectFrame
<1> QED BY <1>7, <1>9, <1>10, After

(* Arithmetic of one packet: s of n packets are sent, n packets of P bytes   *)
(* hold L bytes.                                                             *)
LEMMA PacketArithmetic ==
  ASSUME NEW m \in Message, packetsSent[m] \in Nat, packetsSent[m] < numPackets(m)
  PROVE  LET s == packetsSent[m]
             left == Length[m] - s * PACKET_DATA_LENGTH
         IN  /\ PacketDataBytes(m) \in Nat
             /\ left - PacketDataBytes(m) \in Nat
             /\ left - PacketDataBytes(m) =
                  IF s + 1 = numPackets(m) THEN 0
                  ELSE Length[m] - (s + 1) * PACKET_DATA_LENGTH
<1> DEFINE s == packetsSent[m]
           n == numPackets(m)
           P == PACKET_DATA_LENGTH
           L == Length[m]
<1>1. /\ s \in Nat /\ n \in Nat \ {0} /\ P \in Nat \ {0} /\ L \in Nat \ {0}
      /\ s < n /\ (n - 1) * P < L /\ L <= n * P
  BY NumPackets, PacketAssumption
<1>2. PacketDataBytes(m) = IF L - s * P < P THEN L - s * P ELSE P
  BY DEF PacketDataBytes
<1> HIDE DEF s, n, P, L
<1>3. /\ s * P \in Nat /\ (s + 1) * P = s * P + P /\ (n - 1) * P = n * P - P
      /\ s + 1 \in Nat /\ n - 1 \in Nat /\ P \in Nat
  BY <1>1
<1>4. s * P <= (n - 1) * P
  <2>1. s <= n - 1
    BY <1>1
  <2> QED BY <1>1, <1>3, <2>1, MultMonotone
<1>5. CASE s + 1 = n
  <2>1. L - s * P <= P /\ L - s * P > 0
    BY <1>1, <1>3, <1>5
  <2>2. PacketDataBytes(m) = L - s * P
    BY <1>1, <1>2, <1>3, <2>1
  <2> QED BY <1>1, <1>3, <1>5, <2>1, <2>2 DEF s, n, P, L
<1>6. CASE s + 1 # n
  <2>1. s + 1 <= n - 1
    BY <1>1, <1>6
  <2>2. (s + 1) * P <= (n - 1) * P
    BY <1>3, <2>1, MultMonotone
  <2>3. L - s * P > P
    BY <1>1, <1>3, <2>2
  <2>4. PacketDataBytes(m) = P
    BY <1>1, <1>2, <1>3, <2>3
  <2> QED BY <1>1, <1>3, <1>6, <2>3, <2>4 DEF s, n, P, L
<1> QED BY <1>5, <1>6

(* Sending a packet                                                          *)
LEMMA SendPacketInv ==
  ASSUME Inv, NEW t \in Thread, SendPacket(t)
  PROVE  Inv'
<1>1. /\ Visiting(t) /\ packetsSent[it] < packetsGranted[it]
      /\ unsentBytes' = [unsentBytes EXCEPT ![it] = @ - PacketDataBytes(it)]
      /\ sendQueue' = Prioritize(sendQueue, it, unsentBytes')
      /\ packetsSent' = [packetsSent EXCEPT ![it] = @ + 1]
      /\ UNCHANGED <<object, status, timers, packetsGranted, sendReady, loop, aborted>>
  BY DEF SendPacket
<1>2. TypeOK /\ QInv
  BY Halves
<1>3. /\ ~aborted /\ QueueLocked /\ it \in Message /\ it \in Elements(sendQueue)
      /\ \A u \in Thread : pc[u] # "marked"
      /\ \A x \in Message : ~Marked(x)
  BY <1>1, AtMessage
<1>4. /\ sendQueue \in Seq(Message) /\ Linked(sendQueue)
      /\ Elements(sendQueue) \subseteq Message
      /\ packetsSent \in [Message -> Nat] /\ packetsGranted \in [Message -> Nat]
      /\ unsentBytes \in [Message -> Nat]
  BY <1>2, PositionLemma DEF TypeOK, QInv
<1>5. /\ packetsSent[it] \in Nat /\ packetsSent[it] < numPackets(it)
      /\ packetsGranted[it] <= numPackets(it)
      /\ unsentBytes[it] = Length[it] - packetsSent[it] * PACKET_DATA_LENGTH
  <2>1. /\ packetsGranted[it] <= numPackets(it)
        /\ unsentBytes[it] = IF packetsSent[it] = numPackets(it) THEN 0
                             ELSE Length[it] - packetsSent[it] * PACKET_DATA_LENGTH
    BY <1>2, <1>3 DEF QInv, SendAccounting
  <2>2. packetsSent[it] \in Nat /\ packetsGranted[it] \in Nat /\ numPackets(it) \in Nat
    BY <1>3, <1>4, NumPackets
  <2> QED BY <1>1, <2>1, <2>2
<1>6. /\ unsentBytes'[it] \in Nat /\ unsentBytes'[it] <= unsentBytes[it]
      /\ unsentBytes'[it] = IF packetsSent[it] + 1 = numPackets(it) THEN 0
                            ELSE Length[it] - (packetsSent[it] + 1) * PACKET_DATA_LENGTH
  <2>1. /\ PacketDataBytes(it) \in Nat
        /\ unsentBytes[it] - PacketDataBytes(it) \in Nat
        /\ unsentBytes[it] - PacketDataBytes(it) =
             IF packetsSent[it] + 1 = numPackets(it) THEN 0
             ELSE Length[it] - (packetsSent[it] + 1) * PACKET_DATA_LENGTH
    BY <1>3, <1>5, PacketArithmetic
  <2>2. unsentBytes'[it] = unsentBytes[it] - PacketDataBytes(it) /\ unsentBytes[it] \in Nat
    BY <1>1, <1>3, <1>4
  <2> QED BY <2>1, <2>2
<1>7. /\ unsentBytes' \in [Message -> Nat]
      /\ packetsSent' \in [Message -> Nat]
      /\ packetsSent'[it] = packetsSent[it] + 1
      /\ \A x \in Message : x # it => /\ unsentBytes'[x] = unsentBytes[x]
                                      /\ packetsSent'[x] = packetsSent[x]
  BY <1>1, <1>3, <1>4, <1>6
<1> DEFINE q == sendQueue
           r == sendQueue'
           key == unsentBytes'
<1>8. /\ r \in Seq(Message) /\ Len(r) = Len(q) /\ Linked(r) /\ Elements(r) = Elements(q)
      /\ Position(r, it) <= Position(q, it)
      /\ \A i \in 1..Len(q) : i < Position(r, it) => r[i] = q[i]
      /\ (/\ \A i, j \in 1..Len(q) : i < j /\ q[i] # it /\ q[j] # it
                                      => key[q[i]] <= key[q[j]]
          /\ \A i \in 1..Len(q) : i > Position(q, it) => key[it] <= key[q[i]])
         => Ordered(r, key)
  <2>1. r = Prioritize(q, it, key) /\ \A e \in Message : key[e] \in Int
    BY <1>1, <1>7
  <2>2. q \in Seq(Message) /\ Linked(q) /\ it \in Elements(q)
    BY <1>3, <1>4
  <2> HIDE DEF key, r, q
  <2> QED BY <2>1, <2>2, PrioritizeLemma
<1>9. Position(q, it) \in 1..Len(q) /\ q[Position(q, it)] = it
  BY <1>3, <1>4, PositionLemma
<1>10. \A i \in 1..Len(q) : q[i] \in Elements(q) /\ q[i] \in Message
  BY <1>4 DEF Elements
<1>11. Ordered(r, key)
  <2>1. \A i, j \in 1..Len(q) : i < j => unsentBytes[q[i]] <= unsentBytes[q[j]]
    BY <1>2 DEF QInv, ShortestFirst, Ordered
  <2>2. ASSUME NEW i \in 1..Len(q), NEW j \in 1..Len(q), i < j, q[i] # it, q[j] # it
        PROVE  key[q[i]] <= key[q[j]]
    BY <1>7, <1>10, <2>1, <2>2
  <2>3. ASSUME NEW i \in 1..Len(q), i > Position(q, it)
        PROVE  key[it] <= key[q[i]]
    <3>1. q[i] # it
      BY <1>4, <1>9, <2>3 DEF Linked
    <3>2. unsentBytes[it] <= unsentBytes[q[i]]
      BY <1>9, <2>1, <2>3
    <3>3. key[q[i]] = unsentBytes[q[i]] /\ unsentBytes[q[i]] \in Nat /\ unsentBytes[it] \in Nat
      BY <1>3, <1>4, <1>7, <1>10, <3>1
    <3> QED BY <1>6, <3>2, <3>3
  <2> HIDE DEF key, r, q
  <2> QED BY <1>8, <2>2, <2>3
<1>12. TypeOK'
  BY <1>1, <1>2, <1>7, <1>8 DEF TypeOK, object, timers, loop
<1>13. it' = it /\ pc' = pc /\ sending' = sending /\ packetsGranted' = packetsGranted
  BY <1>1 DEF loop
<1>14. QInv'
  <2>1. QueueLocked' /\ OneSender' /\ NoLostWakeup'
    BY <1>2, <1>3, <1>13 DEF QInv, QueueLocked, OneSender, NoLostWakeup
  <2>2. IteratorValid'
    BY <1>3, <1>8, <1>13, <2>1 DEF IteratorValid
  <2>3. PassedAreSent'
    <3> SUFFICES ASSUME NEW i \in 1..Len(r), it = NoMessage \/ i < Position(r, it)
                 PROVE  packetsSent'[r[i]] >= packetsGranted[r[i]]
      BY <1>13 DEF PassedAreSent
    <3>1. i < Position(r, it)
      BY <1>3, MessageAssumption
    <3>2. i \in 1..Len(q) /\ r[i] = q[i]
      BY <1>8, <3>1
    <3>3. i < Position(q, it)
      <4>1. Position(r, it) \in 1..Len(r)
        BY <1>3, <1>8, PositionLemma
      <4> HIDE DEF q, r
      <4> QED BY <1>8, <1>9, <3>1, <4>1
    <3>4. packetsSent[q[i]] >= packetsGranted[q[i]]
      BY <1>2, <1>3, <3>2, <3>3 DEF QInv, PassedAreSent
    <3>5. packetsSent'[q[i]] >= packetsSent[q[i]] /\ packetsSent[q[i]] \in Nat
          /\ packetsGranted[q[i]] \in Nat /\ packetsSent'[q[i]] \in Nat
      <4>1. q[i] \in Message
        BY <1>10, <3>2
      <4>2. /\ packetsSent[q[i]] \in Nat /\ packetsGranted[q[i]] \in Nat
            /\ packetsSent'[q[i]] \in Nat
        BY <1>4, <1>7, <4>1
      <4>3. CASE q[i] = it
        BY <1>5, <1>7, <4>2, <4>3
      <4>4. CASE q[i] # it
        BY <1>7, <4>1, <4>2, <4>4
      <4> QED BY <4>2, <4>3, <4>4
    <3> QED BY <3>2, <3>4, <3>5
  <2>4. SendAccounting'
    <3> SUFFICES ASSUME NEW x \in Elements(r)
                 PROVE  /\ packetsSent'[x] <= packetsGranted[x]
                        /\ packetsGranted[x] <= numPackets(x)
                        /\ unsentBytes'[x] = IF packetsSent'[x] = numPackets(x) THEN 0
                             ELSE Length[x] - packetsSent'[x] * PACKET_DATA_LENGTH
      BY <1>13 DEF SendAccounting
    <3>1. x \in Message /\ x \in Elements(q)
      BY <1>4, <1>8
    <3>2. CASE x = it
      <4>1. packetsGranted[it] \in Nat
        BY <1>3, <1>4
      <4> QED BY <1>1, <1>5, <1>6, <1>7, <3>2, <4>1
    <3>3. CASE x # it
      BY <1>2, <1>7, <3>1, <3>3 DEF QInv, SendAccounting
    <3> QED BY <3>2, <3>3
  <2> QED BY <1>8, <1>11, <2>1, <2>2, <2>3, <2>4 DEF QInv, ShortestFirst
<1>15. ASSUME NEW x \in Message
       PROVE  ObjectOK(x)' /\ QueueOK(x)'
  <2>1. ObjectOK(x) /\ QueueOK(x)
    BY <1>3, Before
  <2>2. ~Marked(x)' /\ ~Marked(x)
    BY <1>3, <1>13 DEF Marked
  <2>3. ObjectOK(x)'
    BY <1>1, <2>1, <2>2 DEF ObjectOK, object, timers
  <2>4. QueueOK(x)'
    BY <1>1, <1>8, <2>1, <2>2 DEF QueueOK, Waits, object
  <2> QED BY <2>3, <2>4
<1> QED BY <1>12, <1>14, <1>15, After

(* Marking the message SENT                                                  *)
LEMMA StoreSentInv ==
  ASSUME Inv, NEW t \in Thread, StoreSent(t)
  PROVE  Inv'
<1>1. /\ Visiting(t) /\ packetsSent[it] >= numPackets(it)
      /\ sentMessageIds' = [sentMessageIds EXCEPT ![t] = @ \cup {it}]
      /\ status' = [status EXCEPT ![it] = "SENT"]
      /\ pc' = [pc EXCEPT ![t] = "marked"]
      /\ UNCHANGED <<object, timers, info, queue, sending, it, aborted>>
  BY DEF StoreSent, SetStatus, Goto
<1>2. TypeOK /\ QInv
  BY Halves
<1>3. /\ ~aborted /\ pc[t] = "send" /\ QueueLocked
      /\ it \in Message /\ it \in Elements(sendQueue)
      /\ \A u \in Thread : pc[u] # "marked"
      /\ \A x \in Message : ~Marked(x)
      /\ it \in tracked /\ status[it] = "IN_PROGRESS"
  BY <1>1, AtMessage
<1>4. TypeOK'
  BY <1>1, <1>2, <1>3 DEF TypeOK, Status, object, timers, info, queue
<1>5. pc'[t] = "marked" /\ \A u \in Thread : u # t => pc'[u] = pc[u]
  BY <1>1, <1>2 DEF TypeOK
<1>6. /\ packetsSent' = packetsSent /\ packetsGranted' = packetsGranted
      /\ unsentBytes' = unsentBytes /\ sendQueue' = sendQueue /\ sendReady' = sendReady
      /\ sending' = sending /\ it' = it
  BY <1>1 DEF info, queue
<1>7. QInv'
  <2>1. QueueLocked'
    BY <1>5 DEF QueueLocked
  <2>2. OneSender'
    <3>1. sending /\ \A u \in Thread : pc[u] \in {"acquire", "send", "marked"} => u = t
      BY <1>2, <1>3 DEF QInv, OneSender
    <3> QED BY <1>5, <1>6, <3>1 DEF OneSender
  <2>3. IteratorValid'
    BY <1>1, <1>3, <1>6, <2>1, MessageAssumption DEF IteratorValid
  <2>4. NoLostWakeup' /\ PassedAreSent'
    BY <1>2, <1>3, <1>6, <2>1 DEF QInv, NoLostWakeup, PassedAreSent
  <2>5. Linked(sendQueue') /\ ShortestFirst' /\ SendAccounting'
    BY <1>2, <1>6 DEF QInv, ShortestFirst, SendAccounting
  <2> QED BY <2>2, <2>3, <2>4, <2>5 DEF QInv
<1>8. ASSUME NEW x \in Message
      PROVE  ObjectOK(x)' /\ QueueOK(x)'
  <2>1. ObjectOK(x) /\ QueueOK(x) /\ ~Marked(x)
    BY <1>3, Before
  <2>2. Marked(x)' <=> x = it
    BY <1>5, <1>6 DEF Marked
  <2>3. ObjectOK(x)'
    BY <1>1, <1>2, <1>3, <2>1, <2>2 DEF TypeOK, ObjectOK, object, timers
  <2>4. Waits(x)' <=> Waits(x) /\ x # it
    BY <1>1, <1>2, <1>3 DEF TypeOK, Waits, object
  <2>5. QueueOK(x)'
    BY <1>1, <1>3, <1>6, <2>1, <2>2, <2>4 DEF QueueOK, object
  <2> QED BY <2>3, <2>5
<1> QED BY <1>4, <1>7, <1>8, After

(* Removing the message that was marked SENT                                 *)
LEMMA RemoveSentInv ==
  ASSUME Inv, NEW t \in Thread, RemoveSent(t)
  PROVE  Inv'
<1>1. /\ ~aborted /\ pc[t] = "marked"
      /\ it' = NextOf(sendQueue, it, NoMessage)
      /\ sendQueue' = Unlink(sendQueue, it)
      /\ pc' = [pc EXCEPT ![t] = "send"]
      /\ UNCHANGED <<object, status, timers, info, sendReady, sending, sentMessageIds, aborted>>
  BY DEF RemoveSent, Goto
<1>2. TypeOK /\ QInv
  BY Halves
<1>3. /\ it \in Message /\ it \in Elements(sendQueue) /\ QueueLocked
  BY <1>1, <1>2 DEF TypeOK, QInv, IteratorValid, QueueLocked
<1>4. /\ sendQueue \in Seq(Message) /\ Linked(sendQueue)
      /\ Ordered(sendQueue, unsentBytes)
      /\ Elements(sendQueue) \subseteq Message
  BY <1>2, PositionLemma DEF TypeOK, QInv, ShortestFirst
<1>5. /\ sendQueue' \in Seq(Message)
      /\ Linked(sendQueue')
      /\ Elements(sendQueue') = Elements(sendQueue) \ {it}
      /\ Ordered(sendQueue', unsentBytes)
  BY <1>1, <1>4, UnlinkLemma
<1>6. /\ it' \in Elements(sendQueue') \cup {NoMessage}
      /\ \A i \in 1..Len(sendQueue') :
           (it' = NoMessage \/ i < Position(sendQueue', it'))
             => /\ i \in 1..Len(sendQueue) /\ i < Position(sendQueue, it)
                /\ sendQueue'[i] = sendQueue[i]
  BY <1>1, <1>3, <1>4, RemoveLemma, MessageAssumption
<1>7. TypeOK'
  BY <1>1, <1>2, <1>4, <1>5, <1>6 DEF TypeOK, object, timers, info
<1>8. /\ packetsSent' = packetsSent /\ packetsGranted' = packetsGranted
      /\ unsentBytes' = unsentBytes /\ sendReady' = sendReady /\ sending' = sending
  BY <1>1 DEF info
<1>9. /\ pc'[t] = "send" /\ \A u \in Thread : u # t => pc'[u] = pc[u]
      /\ \A u \in Thread : pc[u] \in {"acquire", "send", "marked"} => u = t
      /\ sending
  BY <1>1, <1>2 DEF TypeOK, QInv, OneSender
<1>10. ~\E u \in Thread : pc'[u] = "marked"
  BY <1>9
<1>11. QInv'
  <2>1. QueueLocked' /\ OneSender'
    BY <1>8, <1>9 DEF QueueLocked, OneSender
  <2>2. NoLostWakeup'
    BY <2>1 DEF NoLostWakeup
  <2>3. IteratorValid'
    BY <1>6, <1>10, <2>1 DEF IteratorValid
  <2>4. PassedAreSent'
    <3> SUFFICES ASSUME NEW i \in 1..Len(sendQueue'),
                        it' = NoMessage \/ i < Position(sendQueue', it')
                 PROVE  packetsSent[sendQueue'[i]] >= packetsGranted[sendQueue'[i]]
      BY <1>8 DEF PassedAreSent
    <3>1. i \in 1..Len(sendQueue) /\ i < Position(sendQueue, it) /\ sendQueue'[i] = sendQueue[i]
      BY <1>6
    <3>2. packetsSent[sendQueue[i]] >= packetsGranted[sendQueue[i]]
      BY <1>2, <1>3, <3>1 DEF QInv, PassedAreSent
    <3> QED BY <3>1, <3>2
  <2>5. SendAccounting'
    BY <1>2, <1>5, <1>8 DEF QInv, SendAccounting
  <2> QED BY <1>5, <1>8, <2>1, <2>2, <2>3, <2>4, <2>5 DEF QInv, ShortestFirst
<1>12. ASSUME NEW x \in Message
       PROVE  ObjectOK(x)' /\ QueueOK(x)'
  <2>1. ObjectOK(x) /\ QueueOK(x)
    BY <1>1, Before
  <2>2. ~Marked(x)' /\ (Marked(x) <=> x = it)
    BY <1>1, <1>10 DEF Marked
  <2>3. ObjectOK(x)'
    BY <1>1, <2>1, <2>2 DEF ObjectOK, object, timers
  <2>4. Waits(x)' <=> Waits(x)
    BY <1>1 DEF Waits, object
  <2>5. x = it => ~Waits(x)
    BY <2>1, <2>2 DEF ObjectOK, Waits
  <2>6. QueueOK(x)'
    BY <1>1, <1>5, <2>1, <2>2, <2>4, <2>5 DEF QueueOK, object
  <2> QED BY <2>3, <2>6
<1> QED BY <1>7, <1>11, <1>12, After

(* Leaving the critical part, at the byte limit or at the end of the queue   *)
LEMMA UnlockQueueInv ==
  ASSUME Inv, NEW t \in Thread, ~aborted, pc[t] = "send", UnlockQueue(t),
         sendReady' \in BOOLEAN, NoLostWakeup'
  PROVE  Inv'
<1>1. /\ sending' = FALSE /\ it' = NoMessage
      /\ pc' = [pc EXCEPT ![t] = IF sentMessageIds[t] = {} THEN "idle" ELSE "post"]
      /\ UNCHANGED <<object, status, timers, info, sendQueue, sentMessageIds, aborted>>
  BY DEF UnlockQueue, Goto
<1>2. TypeOK /\ QInv
  BY Halves
<1>3. TypeOK'
  BY <1>1, <1>2 DEF TypeOK, object, timers, info
<1>4. /\ \A u \in Thread : pc'[u] \notin {"acquire", "send", "marked"}
      /\ \A u \in Thread : pc[u] # "marked"
  <2>1. \A u \in Thread : pc[u] \in {"acquire", "send", "marked"} => u = t
    BY Alone
  <2>2. pc'[t] \in {"idle", "post"} /\ \A u \in Thread : u # t => pc'[u] = pc[u]
    BY <1>1, <1>2 DEF TypeOK
  <2> QED BY <2>1, <2>2
<1>5. QInv'
  <2>1. OneSender' /\ IteratorValid' /\ PassedAreSent'
    BY <1>1, <1>4 DEF OneSender, IteratorValid, PassedAreSent, QueueLocked
  <2>2. Linked(sendQueue') /\ ShortestFirst' /\ SendAccounting'
    BY <1>1, <1>2 DEF QInv, ShortestFirst, SendAccounting, info
  <2> QED BY <2>1, <2>2 DEF QInv
<1>6. ASSUME NEW x \in Message
      PROVE  ObjectOK(x)' /\ QueueOK(x)'
  <2>1. ~Marked(x)' /\ ~Marked(x)
    BY <1>4 DEF Marked
  <2> QED BY <1>1, <2>1, ObjectFrame
<1> QED BY <1>3, <1>5, <1>6, After

(* The byte limit of the driver                                              *)
LEMMA HitByteLimitInv ==
  ASSUME Inv, NEW t \in Thread, HitByteLimit(t)
  PROVE  Inv'
<1>1. ~aborted /\ pc[t] = "send" /\ UnlockQueue(t) /\ sendReady' = TRUE
  BY DEF HitByteLimit, Visiting
<1>2. NoLostWakeup'
  BY <1>1 DEF NoLostWakeup
<1> QED BY <1>1, <1>2, UnlockQueueInv

(* The end of the queue: everything granted has been sent                    *)
LEMMA ReachEndInv ==
  ASSUME Inv, NEW t \in Thread, ReachEnd(t)
  PROVE  Inv'
<1>1. ~aborted /\ pc[t] = "send" /\ it = NoMessage /\ UnlockQueue(t) /\ sendReady' = sendReady
  BY DEF ReachEnd
<1>2. TypeOK /\ PassedAreSent /\ QueueLocked
  BY <1>1 DEF Inv, QueueLocked
<1>3. /\ packetsSent' = packetsSent /\ packetsGranted' = packetsGranted
      /\ sendQueue' = sendQueue
  BY <1>1 DEF UnlockQueue, info
<1>4. ASSUME NEW x \in Elements(sendQueue)
      PROVE  ~(packetsSent[x] < packetsGranted[x])
  <2>1. PICK i \in 1..Len(sendQueue) : sendQueue[i] = x
    BY DEF Elements
  <2>2. packetsSent[x] >= packetsGranted[x]
    BY <1>1, <1>2, <2>1 DEF PassedAreSent
  <2>3. x \in Message
    BY <1>2, PositionLemma DEF TypeOK
  <2>4. packetsSent[x] \in Nat /\ packetsGranted[x] \in Nat
    BY <1>2, <2>3 DEF TypeOK
  <2> QED BY <2>2, <2>4
<1>5. NoLostWakeup'
  BY <1>3, <1>4 DEF NoLostWakeup
<1>6. sendReady' \in BOOLEAN
  BY <1>1, <1>2 DEF TypeOK
<1> QED BY <1>1, <1>5, <1>6, UnlockQueueInv

-----------------------------------------------------------------------------
(* The invariant holds initially                                             *)
LEMMA InitInv == Init => Inv
<1> SUFFICES ASSUME Init
             PROVE  Inv
  OBVIOUS
<1>1. /\ \A m \in Message : life[m] = "free" /\ status[m] = "NOT_STARTED" /\ ~held[m]
      /\ tracked = {} /\ messageTimeout = {} /\ pingTimeout = {}
      /\ sendQueue = <<>> /\ it = NoMessage
      /\ \A t \in Thread : pc[t] = "idle"
  BY DEF Init
<1>2. TypeOK
  <2>1. /\ life \in [Message -> {"free", "live", "destroyed"}]
        /\ status \in [Message -> Status]
        /\ packetsGranted \in [Message -> Nat] /\ packetsSent \in [Message -> Nat]
        /\ unsentBytes \in [Message -> Nat]
        /\ pc \in [Thread -> {"idle", "checked", "acquire", "send", "marked", "post"}]
    BY DEF Init, Status
  <2>2. /\ options \in [Message -> SUBSET {"NO_RETRY", "NO_KEEP_ALIVE"}]
        /\ sentMessageIds \in [Thread -> SUBSET Message]
    BY DEF Init
  <2>3. sendQueue \in Seq(Message) /\ it \in Message \cup {NoMessage}
    BY <1>1
  <2>4. held \in [Message -> BOOLEAN]
    BY Zenon DEF Init
  <2>5. sendReady \in BOOLEAN /\ sending \in BOOLEAN /\ aborted \in BOOLEAN
    BY DEF Init
  <2> QED BY <1>1, <2>1, <2>2, <2>3, <2>4, <2>5 DEF TypeOK
<1>3. Len(sendQueue) = 0 /\ Elements(sendQueue) = {}
  BY <1>1 DEF Elements
<1>4. OneSender /\ Linked(sendQueue) /\ IteratorValid /\ MarkedIsSent /\ PassedAreSent
  BY <1>1, <1>3 DEF OneSender, Linked, IteratorValid, MarkedIsSent, PassedAreSent
<1>5. Lifecycle /\ QueuedAreTracked /\ QueueConsistent
  BY <1>1, <1>3 DEF Lifecycle, QueuedAreTracked, QueueConsistent
<1>6. NoLostWakeup /\ ShortestFirst /\ SendAccounting /\ NoDangling /\ KeepAliveArmed
  BY <1>1, <1>3 DEF NoLostWakeup, ShortestFirst, Ordered, SendAccounting, NoDangling,
                    KeepAliveArmed
<1> QED BY <1>2, <1>4, <1>5, <1>6 DEF Inv

(* A step of trySend preserves the invariant                                 *)
LEMMA TrySendInv ==
  ASSUME Inv, NEW t \in Thread, TrySend(t)
  PROVE  Inv'
<1>1. CASE CheckReady(t)
  BY <1>1, CheckReadyInv
<1>2. CASE TestAndSet(t)
  BY <1>2, TestAndSetInv
<1>3. CASE LockQueue(t)
  BY <1>3, LockQueueInv
<1>4. CASE SendPacket(t)
  BY <1>4, SendPacketInv
<1>5. CASE StoreSent(t)
  BY <1>5, StoreSentInv
<1>6. CASE RemoveSent(t)
  BY <1>6, RemoveSentInv
<1>7. CASE NextMessage(t)
  BY <1>7, NextMessageInv
<1>8. CASE HitByteLimit(t)
  BY <1>8, HitByteLimitInv
<1>9. CASE ReachEnd(t)
  BY <1>9, ReachEndInv
<1>10. ASSUME NEW m \in Message, ProcessSent(t, m)
       PROVE  Inv'
  BY <1>10, ProcessSentInv
<1> QED BY <1>1, <1>2, <1>3, <1>4, <1>5, <1>6, <1>7, <1>8, <1>9, <1>10 DEF TrySend

(* A call of the application preserves the invariant                         *)
LEMMA ApplicationInv ==
  ASSUME Inv, NEW t \in Thread, NEW m \in Message, Application(t, m)
  PROVE  Inv'
<1>1. CASE AllocMessage(t, m)
  BY <1>1, AllocMessageInv
<1>2. ASSUME NEW opts \in OptionSets, NEW b \in UnscheduledByteLimits,
             SendMessage(t, m, opts, b)
      PROVE  Inv'
  <2>1. b \in Nat
    BY LimitAssumption
  <2> QED BY <1>2, <2>1, SendMessageInv
<1>3. CASE CancelMessage(t, m)
  BY <1>3, CancelMessageInv
<1>4. CASE DropMessage(t, m)
  BY <1>4, DropMessageInv
<1>5. CASE DeferDrop(t, m)
  BY <1>5, DeferDropInv
<1> QED BY <1>1, <1>2, <1>3, <1>4, <1>5 DEF Application

(* A packet that arrives preserves the invariant                             *)
LEMMA ReceiveInv ==
  ASSUME Inv, NEW t \in Thread, NEW m \in Message, Receive(t, m)
  PROVE  Inv'
<1>1. CASE HandleDone(t, m)
  BY <1>1, HandleDoneInv
<1>2. CASE HandleError(t, m)
  BY <1>2, HandleErrorInv
<1>3. ASSUME NEW i \in 0..numPackets(m), NEW n \in ResendNums, HandleResend(t, m, i, n)
      PROVE  Inv'
  <2>1. i \in Nat /\ n \in Nat
    BY NumPackets, LimitAssumption
  <2> QED BY <1>3, <2>1, HandleResendInv
<1>4. ASSUME NEW b \in GrantByteLimits, HandleGrant(t, m, b)
      PROVE  Inv'
  <2>1. b \in Nat
    BY LimitAssumption
  <2> QED BY <1>4, <2>1, HandleGrantInv
<1>5. CASE HandleUnknownNoRetry(t, m)
  BY <1>5, HandleUnknownNoRetryInv
<1>6. ASSUME NEW b \in UnscheduledByteLimits, HandleUnknownRestart(t, m, b)
      PROVE  Inv'
  <2>1. b \in Nat
    BY LimitAssumption
  <2> QED BY <1>6, <2>1, HandleUnknownRestartInv
<1> QED BY <1>1, <1>2, <1>3, <1>4, <1>5, <1>6 DEF Receive

(* Every step preserves the invariant                                        *)
LEMMA NextInv == Inv /\ [Next]_vars => Inv'
<1> SUFFICES ASSUME Inv, [Next]_vars
             PROVE  Inv'
  OBVIOUS
<1>1. CASE Next
  <2>1. PICK t \in Thread :
          \/ TrySend(t)
          \/ \E m \in Message : Application(t, m) \/ Receive(t, m) \/ CheckTimeouts(t, m)
    BY <1>1 DEF Next
  <2>2. CASE TrySend(t)
    BY <2>2, TrySendInv
  <2>3. ASSUME NEW m \in Message,
               Application(t, m) \/ Receive(t, m) \/ CheckTimeouts(t, m)
        PROVE  Inv'
    <3>1. CASE CheckTimeouts(t, m)
      BY <3>1, CheckMessageTimeoutInv, CheckPingTimeoutInv DEF CheckTimeouts
    <3> QED BY <2>3, <3>1, ApplicationInv, ReceiveInv
  <2> QED BY <2>1, <2>2, <2>3
<1>2. CASE UNCHANGED vars
  <2>1. UNCHANGED <<life, held, options, tracked, status, messageTimeout, pingTimeout,
                    packetsGranted, packetsSent, unsentBytes, sendQueue, sendReady,
                    sending, pc, it, sentMessageIds, aborted>>
    BY <1>2 DEF vars, object, timers, info, queue, loop
  <2>2. TypeOK'
    BY <2>1 DEF Inv, TypeOK
  <2>3. OneSender'
    BY <2>1 DEF Inv, OneSender
  <2>4. QInv'
    BY <2>1, <2>3, Halves, CriticalFrame DEF info, queue
  <2>5. ASSUME NEW x \in Message
        PROVE  ObjectOK(x)' /\ (~aborted' => QueueOK(x)')
    <3>1. ObjectOK(x) /\ (~aborted => QueueOK(x))
      BY Before
    <3> QED BY <2>1, <3>1 DEF ObjectOK, QueueOK, Waits, Marked
  <2> QED BY <2>2, <2>4, <2>5, After
<1> QED BY <1>1, <1>2

(* Inv holds in every state the Sender reaches, for any number of threads    *)
(* and messages of any length.                                               *)
THEOREM SenderInv == Spec => []Inv
BY InitInv, NextInv, PTL DEF Spec

(* The variables of the Sender keep their types.                             *)
THEOREM SenderTypeOK == Spec => []TypeOK
<1>1. Inv => TypeOK
  BY DEF Inv
<1> QED BY <1>1, SenderInv, PTL

(* The sendQueue holds exactly the multi-packet messages IN_PROGRESS, but    *)
(* for the message that trySend has marked SENT and not yet removed.         *)
THEOREM SenderQueueConsistent == Spec => []QueueConsistent
<1>1. Inv => QueueConsistent
  BY DEF Inv
<1> QED BY <1>1, SenderInv, PTL

(* No granted packet is left behind with sendReady false.                    *)
THEOREM SenderNoLostWakeup == Spec => []NoLostWakeup
<1>1. Inv => NoLostWakeup
  BY DEF Inv
<1> QED BY <1>1, SenderInv, PTL

(* The sendQueue is always in SRPT order.                                    *)
THEOREM SenderShortestFirst == Spec => []ShortestFirst
<1>1. Inv => ShortestFirst
  BY DEF Inv
<1> QED BY <1>1, SenderInv, PTL

(* trySend never sends more than is granted, and its byte count is that of   *)
(* the packets that are left.                                                *)
THEOREM SenderAccounting == Spec => []SendAccounting
<1>1. Inv => SendAccounting
  BY DEF Inv
<1> QED BY <1>1, SenderInv, PTL

(* No timeout list, bucket or application refers to a destroyed message.     *)
THEOREM SenderNoDangling == Spec => []NoDangling
<1>1. Inv => NoDangling
  BY DEF Inv
<1> QED BY <1>1, SenderInv, PTL

(* Every unsettled message with keep-alive has both timeouts armed.          *)
THEOREM SenderKeepAlive == Spec => []KeepAliveArmed
<1>1. Inv => KeepAliveArmed
  BY DEF Inv
<1> QED BY <1>1, SenderInv, PTL

-----------------------------------------------------------------------------
(* A settled message stays settled: from the state in which a step of any    *)
(* thread finds it, no handler and no pass of trySend makes it IN_PROGRESS   *)
(* or SENT again.                                                            *)
THEOREM SenderNeverRevived == Spec => NeverRevived
<1>1. ASSUME Inv, Next
      PROVE  \A m \in Message : status[m] \in {"COMPLETED", "FAILED", "CANCELED"}
               => status'[m] \in {"COMPLETED", "FAILED", "CANCELED"}
  <2> DEFINE Over == {"COMPLETED", "FAILED", "CANCELED"}
             Keeps == \A x \in Message : status[x] \in Over => status'[x] \in Over
  <2>1. TypeOK
    BY <1>1 DEF Inv
  <2>2. PICK t \in Thread :
          \/ TrySend(t)
          \/ \E m \in Message : Application(t, m) \/ Receive(t, m) \/ CheckTimeouts(t, m)
    BY <1>1 DEF Next
  <2>3. ASSUME TrySend(t)
        PROVE  Keeps
    <3>1. CASE StoreSent(t)
      <4>1. Visiting(t) /\ status' = [status EXCEPT ![it] = "SENT"]
        BY <3>1 DEF StoreSent, SetStatus
      <4>2. status[it] = "IN_PROGRESS"
        BY <1>1, <4>1, AtMessage
      <4> QED BY <2>1, <4>1, <4>2 DEF TypeOK
    <3>2. CASE ~StoreSent(t)
      <4>1. status' = status
        BY <2>3, <3>2 DEF TrySend, CheckReady, TestAndSet, LockQueue, SendPacket, RemoveSent,
              NextMessage, HitByteLimit, ReachEnd, UnlockQueue, ProcessSent
      <4> QED BY <4>1
    <3> QED BY <3>1, <3>2
  <2>4. ASSUME NEW m \in Message,
               Application(t, m) \/ Receive(t, m) \/ CheckTimeouts(t, m)
        PROVE  Keeps
    <3>1. \/ status' = status
          \/ \E s \in Status : /\ status' = [status EXCEPT ![m] = s]
                               /\ s \in Over \/ status[m] \notin Over
      <4>1. CASE Application(t, m)
        BY <4>1 DEF Application, AllocMessage, SendMessage, CancelMessage, DropMessage,
              DeferDrop, SendSinglePacket, SetStatus, Status
      <4>2. CASE Receive(t, m)
        BY <4>2 DEF Receive, HandleDone, HandleError, HandleResend, HandleGrant,
              HandleUnknownNoRetry, HandleUnknownRestart, IsUnfinished, SendSinglePacket,
              SetStatus, Status
      <4>3. CASE CheckTimeouts(t, m)
        BY <4>3 DEF CheckTimeouts, CheckMessageTimeout, CheckPingTimeout, SetStatus, Status
      <4> QED BY <2>4, <4>1, <4>2, <4>3
    <3> QED BY <2>1, <3>1 DEF TypeOK
  <2> QED BY <2>2, <2>3, <2>4
<1>2. Inv /\ [Next]_vars
        => [\A m \in Message : status[m] \in {"COMPLETED", "FAILED", "CANCELED"}
              => status'[m] \in {"COMPLETED", "FAILED", "CANCELED"}]_vars
  BY <1>1
<1> QED BY <1>2, SenderInv, PTL DEF Spec, NeverRevived

-----------------------------------------------------------------------------
(* What DroppedWaits says of one message.                                    *)
Waiting(x) ==
  x \in tracked /\ ~held[x] =>
    \/ status[x] \in {"IN_PROGRESS", "FAILED"}
    \/ \E t \in Thread : x \in sentMessageIds[t]

(* DroppedWaits, message by message.                                         *)
LEMMA DroppedWaitsSplit == TypeOK => (DroppedWaits <=> \A x \in Message : Waiting(x))
BY DEF TypeOK, DroppedWaits, Waiting

(* A call of thread t on message m: the message is dropped only while it is  *)
(* IN_PROGRESS, and a dropped one fails, is sent again or, if it was already *)
(* sent, waits in some thread's sentMessageIds whatever answer comes.        *)
LEMMA CallWaits ==
  ASSUME Inv, \A x \in Message : Waiting(x), NEW t \in Thread, NEW m \in Message,
         Application(t, m) \/ Receive(t, m) \/ CheckTimeouts(t, m)
  PROVE  \A x \in Message : Waiting(x)'
<1>1. TypeOK /\ Lifecycle
  BY DEF Inv
<1>2. sentMessageIds' = sentMessageIds
  <2>1. CASE Application(t, m)
    BY <2>1 DEF Application, AllocMessage, SendMessage, CancelMessage, DropMessage,
          DeferDrop, loop
  <2>2. CASE Receive(t, m)
    BY <2>2 DEF Receive, HandleDone, HandleError, HandleResend, HandleGrant,
          HandleUnknownNoRetry, HandleUnknownRestart, loop
  <2>3. CASE CheckTimeouts(t, m)
    BY <2>3 DEF CheckTimeouts, CheckMessageTimeout, CheckPingTimeout, loop
  <2> QED BY <2>1, <2>2, <2>3
<1>3. CASE Application(t, m)
  <2>1. CASE AllocMessage(t, m)
    BY <1>1, <1>2, <2>1 DEF AllocMessage, Waiting, TypeOK
  <2>2. ASSUME NEW opts \in OptionSets, NEW b \in UnscheduledByteLimits,
               SendMessage(t, m, opts, b)
        PROVE  \A x \in Message : Waiting(x)'
    <3>1. held[m] /\ held' = held /\ tracked' = tracked \cup {m}
      BY <2>2 DEF SendMessage
    <3>2. \E s \in Status : status' = [status EXCEPT ![m] = s]
      BY <2>2 DEF SendMessage, SendSinglePacket, SetStatus, Status
    <3> QED BY <1>1, <1>2, <3>1, <3>2 DEF Waiting, TypeOK
  <2>3. CASE CancelMessage(t, m)
    BY <1>1, <1>2, <2>3 DEF CancelMessage, SetStatus, Waiting, TypeOK, object
  <2>4. CASE DropMessage(t, m)
    BY <1>1, <1>2, <2>4 DEF DropMessage, Destroy, Waiting, TypeOK
  <2>5. CASE DeferDrop(t, m)
    BY <1>1, <1>2, <2>5 DEF DeferDrop, Waiting, TypeOK
  <2> QED BY <1>3, <2>1, <2>2, <2>3, <2>4, <2>5 DEF Application
<1>4. CASE Receive(t, m) \/ CheckTimeouts(t, m)
  <2>1. held' = held /\ tracked' = tracked
    <3>1. CASE Receive(t, m)
      BY <3>1 DEF Receive, HandleDone, HandleError, HandleResend, HandleGrant,
            HandleUnknownNoRetry, HandleUnknownRestart, object
    <3>2. CASE CheckTimeouts(t, m)
      BY <3>2 DEF CheckTimeouts, CheckMessageTimeout, CheckPingTimeout, object
    <3> QED BY <1>4, <3>1, <3>2
  <2>2. \/ status' = status
        \/ \E s \in Status : /\ status' = [status EXCEPT ![m] = s]
                             /\ s \in {"IN_PROGRESS", "FAILED"}
                                \/ status[m] \notin {"IN_PROGRESS", "FAILED"}
    <3>1. CASE Receive(t, m)
      <4>1. ASSUME NEW b \in UnscheduledByteLimits, HandleUnknownRestart(t, m, b)
            PROVE  \E s \in Status : /\ status' = [status EXCEPT ![m] = s]
                                     /\ s = "IN_PROGRESS" \/ status[m] = "SENT"
        <5>1. CASE numPackets(m) = 1
          <6>1. status' = [status EXCEPT ![m] = "SENT"]
            BY <4>1, <5>1 DEF HandleUnknownRestart, SendSinglePacket, SetStatus
          <6>2. status[m] = "SENT"
            BY <1>1, <4>1, <5>1 DEF HandleUnknownRestart, IsUnfinished, Lifecycle
          <6> QED BY <6>1, <6>2 DEF Status
        <5>2. CASE numPackets(m) # 1
          BY <4>1, <5>2 DEF HandleUnknownRestart, SetStatus, Status
        <5> QED BY <5>1, <5>2
      <4>2. CASE ~\E b \in UnscheduledByteLimits : HandleUnknownRestart(t, m, b)
        BY <3>1, <4>2 DEF Receive, HandleDone, HandleError, HandleResend, HandleGrant,
              HandleUnknownNoRetry, SetStatus, Status
      <4> QED BY <4>1, <4>2
    <3>2. CASE CheckTimeouts(t, m)
      BY <3>2 DEF CheckTimeouts, CheckMessageTimeout, CheckPingTimeout, SetStatus, Status
    <3> QED BY <1>4, <3>1, <3>2
  <2> QED BY <1>1, <1>2, <2>1, <2>2 DEF Waiting, TypeOK
<1> QED BY <1>3, <1>4

(* A step of trySend: a message that becomes SENT enters sentMessageIds, and *)
(* one that leaves it is destroyed if it was dropped.                        *)
LEMMA TrySendWaits ==
  ASSUME Inv, \A x \in Message : Waiting(x), NEW t \in Thread, TrySend(t)
  PROVE  \A x \in Message : Waiting(x)'
<1>1. TypeOK
  BY DEF Inv
<1>2. CASE StoreSent(t)
  <2>1. /\ held' = held /\ tracked' = tracked
        /\ status' = [status EXCEPT ![it] = "SENT"]
        /\ sentMessageIds' = [sentMessageIds EXCEPT ![t] = @ \cup {it}]
    BY <1>2 DEF StoreSent, SetStatus, object
  <2> QED BY <1>1, <2>1 DEF Waiting, TypeOK
<1>3. ASSUME NEW m \in Message, ProcessSent(t, m)
      PROVE  \A x \in Message : Waiting(x)'
  <2>1. /\ held' = held /\ status' = status
        /\ sentMessageIds' = [sentMessageIds EXCEPT ![t] = @ \ {m}]
        /\ tracked' = tracked \/ tracked' = tracked \ {m}
        /\ m \in tracked' => held[m]
    BY <1>3 DEF ProcessSent, Destroy
  <2> QED BY <1>1, <2>1 DEF Waiting, TypeOK
<1>4. CASE ~StoreSent(t) /\ ~\E m \in Message : ProcessSent(t, m)
  <2>1. UNCHANGED <<held, tracked, status, sentMessageIds>>
    BY <1>4 DEF TrySend, CheckReady, TestAndSet, LockQueue, SendPacket, RemoveSent,
          NextMessage, HitByteLimit, ReachEnd, UnlockQueue, object, loop
  <2> QED BY <2>1 DEF Waiting
<1> QED BY <1>2, <1>3, <1>4

(* With any number of threads, a dropped message is kept only while its      *)
(* packets are being sent, while some thread still has to reclaim it, or     *)
(* because it FAILED in between.                                             *)
THEOREM SenderDroppedWaits == Spec => []DroppedWaits
<1> DEFINE J == Inv /\ \A x \in Message : Waiting(x)
<1>1. Init => J
  BY InitInv DEF Init, Waiting
<1>2. J /\ [Next]_vars => J'
  <2> SUFFICES ASSUME J, [Next]_vars
               PROVE  \A x \in Message : Waiting(x)'
    BY NextInv
  <2>1. CASE Next
    BY <2>1, CallWaits, TrySendWaits DEF Next
  <2>2. CASE UNCHANGED vars
    BY <2>2 DEF vars, object, loop, Waiting
  <2> QED BY <2>1, <2>2
<1>3. J => DroppedWaits
  BY DroppedWaitsSplit DEF Inv
<1> QED BY <1>1, <1>2, <1>3, PTL DEF Spec

-----------------------------------------------------------------------------
(* One thread makes all the calls.                                           *)
SingleThread == \A t, u \in Thread : t = u

(* What a single thread has sent and not yet processed it has sent in this   *)
(* call of trySend, so nothing has started the message again.                *)
SentIsFresh ==
  \A t \in Thread, m \in Message :
    m \in sentMessageIds[t] => /\ pc[t] \in {"send", "marked", "post"}
                               /\ status[m] # "IN_PROGRESS"

(* The invariant of the single-threaded Sender.                              *)
SingleInv == Inv /\ NoAbort /\ SentIsFresh /\ ArmedWhileSending

(* A single thread that is outside the loop of trySend leaves none marked.   *)
LEMMA NotMarked ==
  ASSUME SingleThread, NEW t \in Thread, pc[t] # "marked"
  PROVE  ~\E u \in Thread : pc[u] = "marked"
BY DEF SingleThread

(* With nothing marked, a message that is not IN_PROGRESS is not queued, so  *)
(* destroying it does not trip the assertion of ~Node().                     *)
LEMMA NotQueued ==
  ASSUME SingleInv, NEW m \in Message, status[m] # "IN_PROGRESS",
         ~\E u \in Thread : pc[u] = "marked"
  PROVE  m \notin Elements(sendQueue)
BY DEF SingleInv, NoAbort, Inv, QueueConsistent

(* Steps of the application, of packets and of timeouts start from an idle   *)
(* thread, which has nothing left to process.                                *)
LEMMA SingleCall ==
  ASSUME SingleThread, SingleInv, NEW t \in Thread, NEW m \in Message,
         Application(t, m) \/ Receive(t, m) \/ CheckTimeouts(t, m)
  PROVE  NoAbort' /\ SentIsFresh' /\ ArmedWhileSending'
<1>1. TypeOK /\ ~aborted
  BY DEF SingleInv, Inv, NoAbort
<1>2. pc[t] = "idle" /\ UNCHANGED loop
  <2>1. CASE Application(t, m)
    BY <2>1 DEF Application, AllocMessage, SendMessage, CancelMessage, DropMessage,
          DeferDrop, Calls
  <2>2. CASE Receive(t, m)
    BY <2>2 DEF Receive, HandleDone, HandleError, HandleResend, HandleGrant,
          HandleUnknownNoRetry, HandleUnknownRestart, Calls
  <2>3. CASE CheckTimeouts(t, m)
    BY <2>3 DEF CheckTimeouts, CheckMessageTimeout, CheckPingTimeout, Calls
  <2> QED BY <2>1, <2>2, <2>3
<1>3. \A u \in Thread : sentMessageIds[u] = {}
  BY <1>1, <1>2 DEF SingleInv, SentIsFresh, SingleThread, TypeOK
<1>4. SentIsFresh'
  BY <1>2, <1>3 DEF SentIsFresh, loop
<1>5. ~aborted'
  <2>1. CASE DropMessage(t, m)
    <3>1. status[m] # "IN_PROGRESS" /\ aborted' = (m \in Elements(sendQueue))
      BY <2>1 DEF DropMessage, Destroy
    <3>2. m \notin Elements(sendQueue)
      BY <1>2, <3>1, NotMarked, NotQueued
    <3> QED BY <3>1, <3>2
  <2>2. CASE ~DropMessage(t, m)
    <3>1. CASE Application(t, m)
      BY <1>1, <2>2, <3>1 DEF Application, AllocMessage, SendMessage, CancelMessage, DeferDrop
    <3>2. CASE Receive(t, m)
      BY <1>1, <3>2 DEF Receive, HandleDone, HandleError, HandleResend, HandleGrant,
            HandleUnknownNoRetry, HandleUnknownRestart
    <3>3. CASE CheckTimeouts(t, m)
      BY <1>1, <3>3 DEF CheckTimeouts, CheckMessageTimeout, CheckPingTimeout
    <3> QED BY <3>1, <3>2, <3>3
  <2> QED BY <2>1, <2>2
<1>6. ArmedWhileSending'
  <2> SUFFICES ASSUME NEW x \in tracked', status'[x] = "IN_PROGRESS"
               PROVE  x \in messageTimeout' /\ x \in pingTimeout'
    BY DEF ArmedWhileSending
  <2>1. ArmedWhileSending /\ Lifecycle
    BY DEF SingleInv, Inv
  <2>2. CASE Application(t, m)
    <3>1. CASE AllocMessage(t, m) \/ DeferDrop(t, m)
      BY <2>1, <3>1 DEF AllocMessage, DeferDrop, ArmedWhileSending, timers
    <3>2. CASE \E opts \in OptionSets, b \in UnscheduledByteLimits : SendMessage(t, m, opts, b)
      BY <1>1, <2>1, <3>2 DEF SendMessage, SendSinglePacket, SetStatus, SetTimeouts,
            CancelTimeouts, ArmedWhileSending, TypeOK
    <3>3. CASE CancelMessage(t, m)
      BY <1>1, <2>1, <3>3 DEF CancelMessage, SetStatus, CancelTimeouts, ArmedWhileSending,
            TypeOK, object
    <3>4. CASE DropMessage(t, m)
      BY <2>1, <3>4 DEF DropMessage, Destroy, CancelTimeouts, ArmedWhileSending
    <3> QED BY <2>2, <3>1, <3>2, <3>3, <3>4 DEF Application
  <2>3. CASE Receive(t, m)
    <3>1. CASE HandleDone(t, m) \/ HandleError(t, m) \/ HandleUnknownNoRetry(t, m)
      BY <1>1, <2>1, <3>1 DEF HandleDone, HandleError, HandleUnknownNoRetry, SetStatus,
            CancelTimeouts, ArmedWhileSending, TypeOK, object
    <3>2. CASE \E i \in 0..numPackets(m), n \in ResendNums : HandleResend(t, m, i, n)
      BY <2>1, <3>2 DEF HandleResend, SetTimeouts, ArmedWhileSending, object
    <3>3. CASE \E b \in GrantByteLimits : HandleGrant(t, m, b)
      BY <2>1, <3>3 DEF HandleGrant, SetTimeouts, ArmedWhileSending, object
    <3>4. CASE \E b \in UnscheduledByteLimits : HandleUnknownRestart(t, m, b)
      BY <1>1, <2>1, <3>4 DEF HandleUnknownRestart, SendSinglePacket, SetStatus, SetTimeouts,
            CancelTimeouts, ArmedWhileSending, TypeOK, object
    <3> QED BY <2>3, <3>1, <3>2, <3>3, <3>4 DEF Receive
  <2>4. CASE CheckTimeouts(t, m)
    <3>1. CASE CheckMessageTimeout(t, m)
      BY <1>1, <2>1, <3>1 DEF CheckMessageTimeout, SetStatus, CancelTimeouts,
            ArmedWhileSending, TypeOK, object
    <3>2. CASE CheckPingTimeout(t, m)
      BY <2>1, <3>2 DEF CheckPingTimeout, PingOver, ArmedWhileSending, object
    <3> QED BY <2>4, <3>1, <3>2 DEF CheckTimeouts
  <2> QED BY <2>2, <2>3, <2>4
<1> QED BY <1>4, <1>5, <1>6 DEF NoAbort

(* A step of trySend: what it has sent stays SENT until it is processed.     *)
LEMMA SingleTrySend ==
  ASSUME SingleThread, SingleInv, NEW t \in Thread, TrySend(t)
  PROVE  NoAbort' /\ SentIsFresh' /\ ArmedWhileSending'
<1>1. TypeOK /\ ~aborted /\ SentIsFresh /\ ArmedWhileSending /\ \A u \in Thread : u = t
  BY DEF SingleInv, Inv, NoAbort, SingleThread
<1>2. CASE CheckReady(t) \/ TestAndSet(t) \/ LockQueue(t)
  <2>1. /\ UNCHANGED <<object, status, timers, sentMessageIds, aborted>>
        /\ pc[t] \notin {"send", "marked", "post"}
    BY <1>2 DEF CheckReady, TestAndSet, LockQueue, Calls
  <2>2. \A u \in Thread : sentMessageIds'[u] = {}
    BY <1>1, <2>1 DEF SentIsFresh, TypeOK
  <2> QED BY <1>1, <2>1, <2>2 DEF SentIsFresh, NoAbort, ArmedWhileSending, object, timers
<1>3. CASE SendPacket(t) \/ RemoveSent(t) \/ NextMessage(t)
  <2>1. /\ UNCHANGED <<object, status, timers, sentMessageIds, aborted>>
        /\ pc'[t] \in {"send", "marked"}
    BY <1>1, <1>3 DEF SendPacket, RemoveSent, NextMessage, Visiting, Goto, loop, TypeOK
  <2> QED BY <1>1, <2>1 DEF SentIsFresh, NoAbort, ArmedWhileSending, object, timers
<1>4. CASE StoreSent(t)
  <2>1. /\ Visiting(t)
        /\ sentMessageIds' = [sentMessageIds EXCEPT ![t] = @ \cup {it}]
        /\ status' = [status EXCEPT ![it] = "SENT"]
        /\ pc' = [pc EXCEPT ![t] = "marked"]
        /\ UNCHANGED <<object, timers, aborted>>
    BY <1>4 DEF StoreSent, SetStatus, Goto
  <2>2. it \in Message
    BY <2>1, AtMessage DEF SingleInv
  <2>3. SentIsFresh'
    BY <1>1, <2>1, <2>2 DEF SentIsFresh, TypeOK
  <2>4. ArmedWhileSending'
    BY <1>1, <2>1, <2>2 DEF ArmedWhileSending, TypeOK, object, timers
  <2> QED BY <1>1, <2>1, <2>3, <2>4 DEF NoAbort
<1>5. CASE HitByteLimit(t) \/ ReachEnd(t)
  <2>1. /\ UNCHANGED <<object, status, timers, sentMessageIds, aborted>>
        /\ pc' = [pc EXCEPT ![t] = IF sentMessageIds[t] = {} THEN "idle" ELSE "post"]
    BY <1>5 DEF HitByteLimit, ReachEnd, UnlockQueue, Goto
  <2>2. SentIsFresh'
    BY <1>1, <2>1 DEF SentIsFresh, TypeOK
  <2> QED BY <1>1, <2>1, <2>2 DEF NoAbort, ArmedWhileSending, object, timers
<1>6. ASSUME NEW m \in Message, ProcessSent(t, m)
      PROVE  NoAbort' /\ SentIsFresh' /\ ArmedWhileSending'
  <2>1. /\ pc[t] = "post" /\ m \in sentMessageIds[t]
        /\ sentMessageIds' = [sentMessageIds EXCEPT ![t] = @ \ {m}]
        /\ pc' = [pc EXCEPT ![t] = IF sentMessageIds[t] = {m} THEN "idle" ELSE "post"]
        /\ status' = status
    BY <1>6 DEF ProcessSent, Goto
  <2>2. status[m] # "IN_PROGRESS"
    BY <1>1, <2>1 DEF SentIsFresh
  <2>3. m \notin Elements(sendQueue)
    BY <2>1, <2>2, NotMarked, NotQueued
  <2>4. SentIsFresh'
    BY <1>1, <2>1 DEF SentIsFresh, TypeOK
  <2>5. ~aborted'
    BY <1>1, <1>6, <2>3 DEF ProcessSent, Destroy
  <2>6. /\ tracked' \subseteq tracked
        /\ messageTimeout \subseteq messageTimeout' \cup {m}
        /\ pingTimeout \subseteq pingTimeout' \cup {m}
    BY <1>6 DEF ProcessSent, Destroy, CancelTimeouts, timers
  <2>7. ArmedWhileSending'
    BY <1>1, <2>1, <2>2, <2>6 DEF ArmedWhileSending
  <2> QED BY <2>4, <2>5, <2>7 DEF NoAbort
<1> QED BY <1>2, <1>3, <1>4, <1>5, <1>6 DEF TrySend

(* With one thread no assertion fails, in particular no message is destroyed *)
(* while it is linked in the sendQueue: the races of dropMessage and of the  *)
(* reclaiming loop of trySend need a second thread.  A message that is still *)
(* being sent then always has its timeouts armed.                            *)
THEOREM SingleThreadSafe ==
  ASSUME SingleThread
  PROVE  Spec => [](NoAbort /\ ArmedWhileSending)
<1>1. Init => SingleInv
  <2>1. Init => NoAbort /\ SentIsFresh /\ ArmedWhileSending
    BY DEF Init, NoAbort, SentIsFresh, ArmedWhileSending
  <2> QED BY <2>1, InitInv DEF SingleInv
<1>2. SingleInv /\ [Next]_vars => SingleInv'
  <2> SUFFICES ASSUME SingleInv, [Next]_vars
               PROVE  NoAbort' /\ SentIsFresh' /\ ArmedWhileSending'
    BY NextInv DEF SingleInv
  <2>1. CASE Next
    BY <2>1, SingleCall, SingleTrySend DEF Next
  <2>2. CASE UNCHANGED vars
    BY <2>2 DEF SingleInv, vars, object, timers, loop, NoAbort, SentIsFresh,
          ArmedWhileSending
  <2> QED BY <2>1, <2>2
<1>3. SingleInv => NoAbort /\ ArmedWhileSending
  BY DEF SingleInv
<1> QED BY <1>1, <1>2, <1>3, PTL DEF Spec

(* With one thread, in the words of the run that checks it: whatever its     *)
(* options, a message that waits for a GRANT has both timeouts armed.        *)
THEOREM SingleThreadArmed ==
  ASSUME SingleThread
  PROVE  Spec => []ArmedWhileSending
BY SingleThreadSafe, PTL
=============================================================================
