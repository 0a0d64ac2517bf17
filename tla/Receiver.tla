------------------------------ MODULE Receiver ------------------------------
(***************************************************************************)
(* Homa::Core::Receiver (src/src/Receiver.cc, src/src/Receiver.h): the      *)
(* incoming messages of one transport, the schedule of those that need      *)
(* GRANTs, and the queue from which the application receives them.          *)
(*                                                                          *)
(* Every operation holds the message's bucket mutex for its whole body and  *)
(* is one step; one that also takes the schedulerMutex waits while          *)
(* trySendGrants holds it.  trySendGrants itself is one step per message it *)
(* visits, because operations that do not need the schedulerMutex run       *)
(* beside it.                                                               *)
(*                                                                          *)
(* A Message stands for a message id.  Its state is "NONE" while the        *)
(* Receiver has no object for it: before the first DATA packet, and again   *)
(* after the object is destroyed (a late DATA packet then makes a new one). *)
(* Left out: packet contents, priorities, the performance counters, and     *)
(* when a timeout expires (any armed timeout may).                          *)
(***************************************************************************)
EXTENDS IntrusiveList, FiniteSets

CONSTANTS
  Message,                \* ids of the messages peers may send
  Peer,                   \* the peers' addresses
  Source,                 \* Source[m]: the peer that sends m
  Length,                 \* Length[m]: totalLength of the message
  PACKET_DATA_LENGTH,     \* payload bytes of a full DATA packet
  UnscheduledIndexLimits, \* the unscheduledIndexLimits a DATA packet may carry
  degreeOvercommitment,   \* Policy::Scheduled
  minScheduledBytes,
  maxScheduledBytes,
  NoPeer                  \* scheduledPeers.end()

Ceil(bytes) == (bytes + PACKET_DATA_LENGTH - 1) \div PACKET_DATA_LENGTH

numExpectedPackets(m) == Ceil(Length[m])

Indices(m) == 0..(numExpectedPackets(m) - 1)

ASSUME PeerAssumption == NoPeer \notin Peer /\ Source \in [Message -> Peer]
ASSUME LengthAssumption == Length \in [Message -> Nat \ {0}]
ASSUME PacketAssumption == PACKET_DATA_LENGTH \in Nat \ {0}
ASSUME UnscheduledAssumption == UnscheduledIndexLimits \subseteq Nat
ASSUME PolicyAssumption ==
  /\ degreeOvercommitment \in Nat
  /\ minScheduledBytes \in Nat /\ maxScheduledBytes \in Nat
  /\ minScheduledBytes <= maxScheduledBytes

VARIABLES
  state,                 \* Message::State, or "NONE"
  packets,               \* the indices setPacket has stored
  numUnscheduledPackets, \* from the DATA packet that created the message
  bytesRemaining,        \* ScheduledMessageInfo of each message
  bytesGranted,
  schedule,              \* peers: scheduledPeers;
                         \* messages: scheduledMessages of each peer
  messageTimeout,        \* the messages with an armed messageTimeout
  resendTimeout,         \* the messages with an armed resendTimeout
  receivedMessages,      \* completely received, not yet given out
  delivered,             \* messages the application has and has not released
  granting,              \* trySendGrants holds the schedulerMutex
  it,                    \* its iterator over scheduledPeers
  slot                   \* and the number of messages visited

msgVars  == <<state, packets, numUnscheduledPackets>>
timers   == <<messageTimeout, resendTimeout>>
grantVars == <<bytesRemaining, bytesGranted, schedule>>
inbox    == <<receivedMessages, delivered>>
loop     == <<granting, it, slot>>
vars     == <<msgVars, timers, grantVars, inbox, loop>>

(* Message::scheduled: the message exceeds its unscheduled limit.            *)
Exceeds(m, limit) == numExpectedPackets(m) > limit
NeedsGrants(m) == Exceeds(m, numUnscheduledPackets[m])

(* info->peer != nullptr: the message is linked in its peer's list.          *)
InSchedule(m) == m \in Elements(schedule.messages[Source[m]])

(* Mutant of PacketBytes: every packet counts as full.                       *)
FullPacketBytes(m, i) == PACKET_DATA_LENGTH

(* Payload of packet i of m.                                                 *)
PacketBytes(m, i) ==
  IF i = numExpectedPackets(m) - 1
  THEN Length[m] - i * PACKET_DATA_LENGTH ELSE PACKET_DATA_LENGTH

Init ==
  /\ state = [m \in Message |-> "NONE"]
  /\ packets = [m \in Message |-> {}]
  /\ numUnscheduledPackets = [m \in Message |-> 0]
  /\ bytesRemaining = [m \in Message |-> 0]
  /\ bytesGranted = [m \in Message |-> 0]
  /\ schedule = [peers |-> <<>>, messages |-> [p \in Peer |-> <<>>]]
  /\ messageTimeout = {} /\ resendTimeout = {}
  /\ receivedMessages = <<>> /\ delivered = {}
  /\ granting = FALSE /\ it = NoPeer /\ slot = 0

-----------------------------------------------------------------------------
(* The schedule s, with the bytesRemaining of each message in rem.           *)

(* Peer::ComparePriority compares the peers' first messages.                 *)
PeerKey(messages, rem) ==
  [p \in Peer |-> IF messages[p] = <<>> THEN 0 ELSE rem[messages[p][1]]]

(* Receiver::schedule *)
Schedule(s, m, rem) ==
  LET p == Source[m]
      messages == [s.messages EXCEPT ![p] = Deprioritize(PushFront(@, m), m, rem)]
      key == PeerKey(messages, rem)
  IN  [messages |-> messages,
       peers |-> IF p \notin Elements(s.peers)
                 THEN Deprioritize(PushFront(s.peers, p), p, key)
                 ELSE IF messages[p][1] = m THEN Prioritize(s.peers, p, key)
                 ELSE s.peers]

(* Mutant of Unschedule: the peer stays where it is.                         *)
UnscheduleInPlace(s, m, rem) ==
  LET messages == [s.messages EXCEPT ![Source[m]] = Unlink(@, m)]
  IN  [messages |-> messages,
       peers |-> IF messages[Source[m]] = <<>> THEN Unlink(s.peers, Source[m])
                                               ELSE s.peers]

(* Receiver::unschedule *)
Unschedule(s, m, rem) ==
  LET p == Source[m]
      messages == [s.messages EXCEPT ![p] = Unlink(@, m)]
      key == PeerKey(messages, rem)
      next == NextOf(s.peers, p, NoPeer)
  IN  [messages |-> messages,
       peers |-> IF messages[p] = <<>> THEN Unlink(s.peers, p)
                 ELSE IF next = NoPeer THEN s.peers
                 ELSE IF ~(key[next] < key[p]) THEN s.peers
                 ELSE Deprioritize(s.peers, p, key)]

(* Receiver::updateSchedule *)
UpdateSchedule(s, m, rem) ==
  LET p == Source[m]
      messages == [s.messages EXCEPT ![p] = Prioritize(@, m, rem)]
  IN  [messages |-> messages,
       peers |-> IF messages[p][1] = m
                 THEN Prioritize(s.peers, p, PeerKey(messages, rem))
                 ELSE s.peers]

-----------------------------------------------------------------------------
(* Handlers of incoming packets. *)

(* Receiver::handleDataPacket, an unknown message: create and schedule it.   *)
(* The schedulerMutex is released before the packet is added, which is a     *)
(* second step; until then only trySendGrants can touch the message, since   *)
(* its bucket mutex is held.  A known message without packets is at this     *)
(* point.                                                                    *)
CreateMessage(m, limit) ==
  /\ state[m] = "NONE"
  /\ Exceeds(m, limit) => ~granting
  /\ state' = [state EXCEPT ![m] = "IN_PROGRESS"]
  /\ numUnscheduledPackets' = [numUnscheduledPackets EXCEPT ![m] = limit]
  /\ bytesRemaining' = [bytesRemaining EXCEPT ![m] = Length[m]]
  /\ bytesGranted' = [bytesGranted EXCEPT ![m] = 0]
  /\ schedule' = IF Exceeds(m, limit) THEN Schedule(schedule, m, bytesRemaining')
                                      ELSE schedule
  /\ UNCHANGED <<packets, timers, inbox, loop>>

(* The end of handleDataPacket: packet i is new.                             *)
StorePacket(m, i) ==
  /\ packets' = [packets EXCEPT ![m] = @ \cup {i}]
  /\ messageTimeout' = messageTimeout \cup {m}
  /\ IF Cardinality(packets[m]) + 1 < numExpectedPackets(m)
     THEN /\ resendTimeout' = resendTimeout \cup {m}
          /\ UNCHANGED <<state, receivedMessages>>
     ELSE /\ state' = [state EXCEPT ![m] = "COMPLETED"]
          /\ resendTimeout' = resendTimeout \ {m}
          /\ receivedMessages' = Append(receivedMessages, m)

(* Mutant of HandleData: duplicates are not dropped.                         *)
HandleDuplicate(m, i) ==
  /\ state[m] # "NONE"
  /\ NeedsGrants(m) => ~granting
  /\ StorePacket(m, i)
  /\ UNCHANGED <<numUnscheduledPackets, grantVars, delivered, loop>>

(* Receiver::handleDataPacket, add a packet to a message; one that is there  *)
(* already is dropped.                                                       *)
HandleData(m, i) ==
  /\ state[m] # "NONE" /\ i \notin packets[m]
  /\ NeedsGrants(m) => ~granting
  /\ IF InSchedule(m)
     THEN /\ bytesRemaining' = [bytesRemaining EXCEPT ![m] = @ - PacketBytes(m, i)]
          /\ schedule' = UpdateSchedule(schedule, m, bytesRemaining')
     ELSE UNCHANGED <<bytesRemaining, schedule>>
  /\ StorePacket(m, i)
  /\ UNCHANGED <<numUnscheduledPackets, bytesGranted, delivered, loop>>

(* The message is in its bucket and the bucket mutex is free.                *)
Findable(m) == packets[m] # {}

(* Mutant of HandleBusy: a complete message waits for packets again.         *)
HandleAnyBusy(m) ==
  /\ Findable(m)
  /\ messageTimeout' = messageTimeout \cup {m}
  /\ resendTimeout' = resendTimeout \cup {m}
  /\ UNCHANGED <<msgVars, grantVars, inbox, loop>>

(* Receiver::handleBusyPacket *)
HandleBusy(m) ==
  /\ Findable(m)
  /\ messageTimeout' = messageTimeout \cup {m}
  /\ resendTimeout' = IF state[m] = "IN_PROGRESS" THEN resendTimeout \cup {m}
                                                  ELSE resendTimeout
  /\ UNCHANGED <<msgVars, grantVars, inbox, loop>>

(* The byteLimit of the GRANT that answers a PING for a known message; a     *)
(* PING for an unknown one is answered UNKNOWN.                              *)
PingedLimit(m) == IF NeedsGrants(m) THEN bytesGranted[m] ELSE 0

(* Receiver::handlePingPacket *)
HandlePing(m) ==
  /\ Findable(m)
  /\ NeedsGrants(m) => ~granting
  /\ messageTimeout' = messageTimeout \cup {m}
  /\ UNCHANGED <<msgVars, resendTimeout, grantVars, inbox, loop>>

-----------------------------------------------------------------------------
(* The application. *)

(* Mutant of ReceiveMessage: the newest message first.                       *)
ReceiveNewest ==
  /\ receivedMessages # <<>>
  /\ delivered' = delivered \cup {receivedMessages[Len(receivedMessages)]}
  /\ receivedMessages' = SubSeq(receivedMessages, 1, Len(receivedMessages) - 1)
  /\ UNCHANGED <<msgVars, timers, grantVars, loop>>

(* Receiver::receiveMessage *)
ReceiveMessage ==
  /\ receivedMessages # <<>>
  /\ delivered' = delivered \cup {Head(receivedMessages)}
  /\ receivedMessages' = Tail(receivedMessages)
  /\ UNCHANGED <<msgVars, timers, grantVars, loop>>

(* Destroy the object of m: out of the bucket, the timeout lists and the     *)
(* schedule.                                                                 *)
Destroy(m) ==
  /\ NeedsGrants(m) => ~granting
  /\ messageTimeout' = messageTimeout \ {m}
  /\ resendTimeout' = resendTimeout \ {m}
  /\ schedule' = IF InSchedule(m) THEN Unschedule(schedule, m, bytesRemaining)
                                  ELSE schedule
  /\ state' = [state EXCEPT ![m] = "NONE"]
  /\ packets' = [packets EXCEPT ![m] = {}]
  /\ UNCHANGED <<numUnscheduledPackets, bytesRemaining, bytesGranted>>

(* Receiver::dropMessage, reached from InMessage::release                    *)
DropMessage(m) ==
  /\ m \in delivered
  /\ delivered' = delivered \ {m}
  /\ Destroy(m)
  /\ UNCHANGED <<receivedMessages, loop>>

-----------------------------------------------------------------------------
(* Timeouts, one iteration of the checking loops. *)

(* Mutant of AbandonMessage: the timeouts are stopped, the message stays.    *)
AbandonTimeouts(m) ==
  /\ m \in messageTimeout /\ state[m] = "IN_PROGRESS"
  /\ messageTimeout' = messageTimeout \ {m}
  /\ resendTimeout' = resendTimeout \ {m}
  /\ UNCHANGED <<msgVars, grantVars, inbox, loop>>

(* Receiver::checkMessageTimeouts, a message not completely received         *)
AbandonMessage(m) ==
  /\ m \in messageTimeout /\ state[m] = "IN_PROGRESS"
  /\ Destroy(m)
  /\ UNCHANGED <<inbox, loop>>

(* Receiver::checkMessageTimeouts, a message the application has or will get *)
MarkDropped(m) ==
  /\ m \in messageTimeout /\ state[m] # "IN_PROGRESS"
  /\ messageTimeout' = messageTimeout \ {m}
  /\ resendTimeout' = resendTimeout \ {m}
  /\ state' = [state EXCEPT ![m] = "DROPPED"]
  /\ UNCHANGED <<packets, numUnscheduledPackets, grantVars, inbox, loop>>

(* Receiver::checkResendTimeouts stops at this index when it looks for       *)
(* packets that are granted and missing; it asks for nothing while the       *)
(* sender is blocked on this receiver.                                       *)
BlockedOnReceiver(m) ==
  NeedsGrants(m) /\ Length[m] - bytesRemaining[m] >= bytesGranted[m]

GrantIndexLimit(m) ==
  IF NeedsGrants(m) /\ numUnscheduledPackets[m] * PACKET_DATA_LENGTH < bytesGranted[m]
  THEN Ceil(bytesGranted[m]) ELSE numUnscheduledPackets[m]

(* Mutant of Requested: only packets beyond the unscheduled ones.            *)
RequestedScheduled(m) ==
  IF BlockedOnReceiver(m) \/ ~NeedsGrants(m) THEN {}
  ELSE (numUnscheduledPackets[m]..(GrantIndexLimit(m) - 1)) \ packets[m]

(* The packets that the RESENDs ask for, one RESEND per contiguous range.    *)
Requested(m) ==
  IF BlockedOnReceiver(m) THEN {} ELSE (0..(GrantIndexLimit(m) - 1)) \ packets[m]

(* checkResendTimeouts arms an expired resendTimeout again and sends the     *)
(* RESENDs, so it leaves the state as it is; it asserts that the message is  *)
(* still IN_PROGRESS (ResendOnlyInProgress).                                 *)

-----------------------------------------------------------------------------
(* Receiver::trySendGrants *)

(* Lock the scheduler unless another poller is at it; nothing to do if no    *)
(* peer is scheduled.                                                        *)
StartGranting ==
  /\ ~granting
  /\ schedule.peers # <<>>
  /\ granting' = TRUE /\ it' = FirstOf(schedule.peers, NoPeer) /\ slot' = 0
  /\ UNCHANGED <<msgVars, timers, grantVars, inbox>>

(* Mutants of NewGrantLimit: the window starts at what was granted instead of *)
(* what was received; a window that is wide enough is narrowed.              *)
WidenedGrantLimit(m) ==
  IF bytesGranted[m] + maxScheduledBytes < Length[m]
  THEN bytesGranted[m] + maxScheduledBytes ELSE Length[m]
NarrowedGrantLimit(m) ==
  LET receivedBytes == Length[m] - bytesRemaining[m]
  IN  IF bytesGranted[m] - receivedBytes < minScheduledBytes
      THEN IF receivedBytes + maxScheduledBytes < Length[m]
           THEN receivedBytes + maxScheduledBytes ELSE Length[m]
      ELSE receivedBytes + minScheduledBytes

(* The bytesGranted of m after its slot: raised if too little of it is       *)
(* granted and unreceived.                                                   *)
NewGrantLimit(m) ==
  LET receivedBytes == Length[m] - bytesRemaining[m]
  IN  IF bytesGranted[m] - receivedBytes < minScheduledBytes
      THEN IF receivedBytes + maxScheduledBytes < Length[m]
           THEN receivedBytes + maxScheduledBytes ELSE Length[m]
      ELSE bytesGranted[m]

(* Mutant of FullyGranted: one byte too many.                                *)
GrantedBeyond(m, limit) == Length[m] < limit

FullyGranted(m, limit) == Length[m] <= limit

(* Grant to the first message of the next peer; a message that is granted    *)
(* completely leaves the schedule.                                           *)
GrantSlot ==
  LET m == schedule.messages[it][1]
  IN  /\ granting /\ it # NoPeer /\ slot < degreeOvercommitment
      /\ bytesGranted' = [bytesGranted EXCEPT ![m] = NewGrantLimit(m)]
      /\ it' = NextOf(schedule.peers, it, NoPeer)
      /\ schedule' = IF FullyGranted(m, bytesGranted'[m])
                     THEN Unschedule(schedule, m, bytesRemaining) ELSE schedule
      /\ slot' = slot + 1
      /\ UNCHANGED <<msgVars, timers, bytesRemaining, inbox, granting>>

FinishGranting ==
  /\ granting /\ (it = NoPeer \/ slot >= degreeOvercommitment)
  /\ granting' = FALSE /\ it' = NoPeer /\ slot' = 0
  /\ UNCHANGED <<msgVars, timers, grantVars, inbox>>

-----------------------------------------------------------------------------
ReceivePacket(m) ==
  \/ \E u \in UnscheduledIndexLimits : CreateMessage(m, u)
  \/ \E i \in Indices(m) : HandleData(m, i)
  \/ HandleBusy(m)
  \/ HandlePing(m)

CheckMessageTimeout(m) == AbandonMessage(m) \/ MarkDropped(m)

TrySendGrants == StartGranting \/ GrantSlot \/ FinishGranting

Next ==
  \/ TrySendGrants
  \/ ReceiveMessage
  \/ \E m \in Message : ReceivePacket(m) \/ DropMessage(m) \/ CheckMessageTimeout(m)

Spec == Init /\ [][Next]_vars

-----------------------------------------------------------------------------
(* Correctness. *)

(* The messages that exist.                                                  *)
Known == {m \in Message : state[m] # "NONE"}

(* The schedule is in SRPT order: each peer's messages by bytesRemaining, and *)
(* the peers by that of their first message, whatever mixture of arrivals,    *)
(* grants and removals led there.                                             *)
ScheduleOrdered ==
  /\ \A p \in Peer : Ordered(schedule.messages[p], bytesRemaining)
  /\ Ordered(schedule.peers, PeerKey(schedule.messages, bytesRemaining))

(* A message is in the schedule exactly while it exists, needs GRANTs and is  *)
(* not granted completely; one that was forgotten would never be granted, one *)
(* that was left behind would be freed memory.  A peer is linked exactly      *)
(* while it has a scheduled message, and once: the assertions in schedule,    *)
(* trySendGrants and Peer::ComparePriority.                                   *)
ScheduledExactly ==
  /\ \A p \in Peer :
       /\ Linked(schedule.messages[p])
       /\ Elements(schedule.messages[p]) =
            {m \in Known : Source[m] = p /\ NeedsGrants(m) /\ bytesGranted[m] < Length[m]}
  /\ Linked(schedule.peers)
  /\ Elements(schedule.peers) = {p \in Peer : schedule.messages[p] # <<>>}

(* The GRANTs outstanding for a scheduled message never exceed                *)
(* maxScheduledBytes beyond what has arrived, nor the message.                *)
GrantWindow ==
  \A m \in Known : InSchedule(m) =>
    /\ bytesGranted[m] <= Length[m] - bytesRemaining[m] + maxScheduledBytes
    /\ bytesGranted[m] <= Length[m]

(* While a message is scheduled its bytesRemaining agrees with the packets    *)
(* that are missing (SRPT order and grants are computed from it).             *)
RemainingAccounted ==
  \A m \in Known : InSchedule(m) =>
    LET missing == Indices(m) \ packets[m]
        last == numExpectedPackets(m) - 1
    IN  bytesRemaining[m] =
          IF last \in missing
          THEN (Cardinality(missing) - 1) * PACKET_DATA_LENGTH + PacketBytes(m, last)
          ELSE Cardinality(missing) * PACKET_DATA_LENGTH

(* A GRANT never takes back what was granted to the same message: the assert  *)
(* newGrantLimit >= bytesGranted.                                             *)
GrantsGrow ==
  [][\A m \in Message : m \in Known /\ m \in Known' => bytesGranted'[m] >= bytesGranted[m]]_vars

(* A completely received message is in exactly one place: once in the queue   *)
(* or with the application; nothing else is.                                  *)
DeliveredOnce ==
  /\ Linked(receivedMessages)
  /\ Elements(receivedMessages) \cap delivered = {}
  /\ Elements(receivedMessages) \cup delivered =
       {m \in Known : packets[m] = Indices(m)}
  /\ \A m \in Known : state[m] = "IN_PROGRESS" <=> packets[m] # Indices(m)

(* The resendTimeout is armed exactly while a message is IN_PROGRESS (the     *)
(* assert in checkResendTimeouts) and has a packet, and then the              *)
(* messageTimeout is too: an unfinished message is always either completed or *)
(* given up.                                                                  *)
ResendOnlyInProgress ==
  /\ resendTimeout = {m \in Message : state[m] = "IN_PROGRESS" /\ Findable(m)}
  /\ resendTimeout \subseteq messageTimeout
  /\ messageTimeout \subseteq Known

-----------------------------------------------------------------------------
(* Liveness. *)

(* poll() is called again and again; the application takes what is there.     *)
(* Strong fairness for the timeouts: the same poll() calls trySendGrants and   *)
(* then checkTimeouts, so no poller takes the schedulerMutex twice without     *)
(* going through (and, if need be, waiting for) the buckets in between.        *)
PollFairness ==
  /\ WF_vars(TrySendGrants)
  /\ WF_vars(ReceiveMessage)
  /\ \A m \in Message : SF_vars(CheckMessageTimeout(m))

LiveSpec == Spec /\ PollFairness

(* From some point on the peers are silent.                                   *)
Silence == <>[][~\E m \in Message : ReceivePacket(m)]_vars

(* A message whose sender falls silent does not stay IN_PROGRESS for ever: it *)
(* leaves the bucket and the schedule.                                        *)
AbandonedEventually ==
  Silence =>
    \A m \in Message :
      (state[m] = "IN_PROGRESS" /\ Findable(m)) ~> state[m] # "IN_PROGRESS"

(* A completely received message reaches the application.                     *)
DeliveredEventually ==
  \A m \in Message : m \in Elements(receivedMessages) ~> m \in delivered
=============================================================================
