------------------------------- MODULE Sender -------------------------------
(***************************************************************************)
(* Homa::Core::Sender (src/src/Sender.cc, src/src/Sender.h): the outgoing   *)
(* messages of one transport, the queue they wait in and the threads that   *)
(* work on them.                                                            *)
(*                                                                          *)
(* Every public method runs in some thread of Thread.  A method that holds  *)
(* a bucket's mutex for its whole body is one step (the queueMutex, where   *)
(* it takes it too, has to be free).  trySend() is the exception: it works  *)
(* under the queueMutex without any bucket mutex, writes message->state     *)
(* there, and only afterwards visits the buckets of the messages it has     *)
(* sent, so it is a sequence of steps between which other threads run.      *)
(*                                                                          *)
(* A Message stands for one Sender::Message object and the id sendMessage   *)
(* gives it: ids are never reused.  Left out: packet contents, priorities,  *)
(* destinations, the performance counters, and when a timeout expires (any  *)
(* armed timeout may, see TimeoutManager for the expiry times).             *)
(***************************************************************************)
EXTENDS IntrusiveList

CONSTANTS
  Message,               \* the messages the application may send
  Thread,                \* the threads that call into the transport
  Length,                \* Length[m]: messageLength, in bytes
  PACKET_DATA_LENGTH,    \* payload bytes of a full DATA packet
  UnscheduledByteLimits, \* what Policy::Manager may answer
  GrantByteLimits,       \* the byteLimits a GRANT may carry
  ResendNums,            \* the nums a RESEND may carry
  OptionSets,            \* the option sets the application uses
  NoMessage              \* sendQueue.end()

Ceil(bytes) == (bytes + PACKET_DATA_LENGTH - 1) \div PACKET_DATA_LENGTH

numPackets(m) == Ceil(Length[m])

ASSUME MessageAssumption == NoMessage \notin Message
ASSUME LengthAssumption == Length \in [Message -> Nat \ {0}]
ASSUME PacketAssumption == PACKET_DATA_LENGTH \in Nat \ {0}
ASSUME LimitAssumption == /\ UnscheduledByteLimits \subseteq Nat
                          /\ GrantByteLimits \subseteq Nat
                          /\ ResendNums \subseteq Nat
ASSUME OptionAssumption == OptionSets \subseteq SUBSET {"NO_RETRY", "NO_KEEP_ALIVE"}

VARIABLES
  life,            \* "free", "live" or "destroyed": the object in the pool
  status,          \* message->state
  held,            \* message->held
  options,         \* message->options
  tracked,         \* the messages linked in their bucket
  messageTimeout,  \* the messages with an armed messageTimeout
  pingTimeout,     \* the messages with an armed pingTimeout
  packetsGranted,  \* QueuedMessageInfo of each message
  packetsSent,
  unsentBytes,
  sendQueue,       \* Intrusive::List of queued messages
  sendReady,       \* hint that there is a granted packet to send
  sending,         \* some thread is inside trySend's critical part
  pc,              \* where each thread is in trySend
  it,              \* the iterator of the thread that holds the queueMutex
  sentMessageIds,  \* per thread, messages whose SENT it still has to process
  aborted          \* an assertion has failed

timers == <<messageTimeout, pingTimeout>>
object == <<life, held, options, tracked>>
info   == <<packetsGranted, packetsSent, unsentBytes>>
queue  == <<sendQueue, sendReady>>
loop   == <<sending, pc, it, sentMessageIds>>
vars   == <<object, status, timers, info, queue, loop, aborted>>

Status == {"NOT_STARTED", "IN_PROGRESS", "SENT", "COMPLETED", "FAILED", "CANCELED"}

(* Nobody but a thread inside trySend keeps the queueMutex over a step.      *)
QueueLocked == \E t \in Thread : pc[t] \in {"send", "marked"}

(* Thread t is free to make a call.                                          *)
Calls(t) == ~aborted /\ pc[t] = "idle"

Init ==
  /\ life = [m \in Message |-> "free"]
  /\ status = [m \in Message |-> "NOT_STARTED"]
  /\ held = [m \in Message |-> FALSE]
  /\ options = [m \in Message |-> {}]
  /\ tracked = {} /\ messageTimeout = {} /\ pingTimeout = {}
  /\ packetsGranted = [m \in Message |-> 0]
  /\ packetsSent = [m \in Message |-> 0]
  /\ unsentBytes = [m \in Message |-> 0]
  /\ sendQueue = <<>> /\ sendReady = FALSE
  /\ sending = FALSE
  /\ pc = [t \in Thread |-> "idle"]
  /\ it = NoMessage
  /\ sentMessageIds = [t \in Thread |-> {}]
  /\ aborted = FALSE

-----------------------------------------------------------------------------
(* Shared pieces of the handlers. *)

SetTimeouts(m) ==
  /\ messageTimeout' = messageTimeout \cup {m}
  /\ pingTimeout' = pingTimeout \cup {m}

CancelTimeouts(m) ==
  /\ messageTimeout' = messageTimeout \ {m}
  /\ pingTimeout' = pingTimeout \ {m}

SetStatus(m, s) == status' = [status EXCEPT ![m] = s]

(* Mutant of Destroy: the timeouts are left armed.                           *)
DestroyArmed(m) ==
  /\ tracked' = tracked \ {m}
  /\ life' = [life EXCEPT ![m] = "destroyed"]
  /\ aborted' = (m \in Elements(sendQueue))
  /\ UNCHANGED timers

(* Take m out of its bucket and destroy it.  ~Node() asserts that the        *)
(* message is not linked in a list any more.                                 *)
Destroy(m) ==
  /\ CancelTimeouts(m)
  /\ tracked' = tracked \ {m}
  /\ life' = [life EXCEPT ![m] = "destroyed"]
  /\ aborted' = (m \in Elements(sendQueue))

(* (Re)queue m from its first packet, q being the queue without m.           *)
Enqueue(m, q, byteLimit) ==
  /\ packetsGranted' =
       [packetsGranted EXCEPT ![m] = IF Ceil(byteLimit) < numPackets(m)
                                     THEN Ceil(byteLimit) ELSE numPackets(m)]
  /\ packetsSent' = [packetsSent EXCEPT ![m] = 0]
  /\ unsentBytes' = [unsentBytes EXCEPT ![m] = Length[m]]
  /\ sendQueue' = Deprioritize(PushFront(q, m), m, unsentBytes')
  /\ sendReady' = TRUE

(* Send the only packet of m; nothing is left to time out with NO_KEEP_ALIVE.*)
SendSinglePacket(m, opts) ==
  /\ SetStatus(m, "SENT")
  /\ IF "NO_KEEP_ALIVE" \in opts THEN CancelTimeouts(m) ELSE SetTimeouts(m)
  /\ UNCHANGED <<info, queue>>

(* Mutant of Grant: trySend is not told.                                     *)
GrantQuietly(m, limit) ==
  /\ packetsGranted' = [packetsGranted EXCEPT ![m] = IF @ < limit THEN limit ELSE @]
  /\ UNCHANGED sendReady

(* Raise the number of packets m may send; sendReady tells trySend.          *)
Grant(m, limit) ==
  IF packetsGranted[m] < limit
  THEN /\ packetsGranted' = [packetsGranted EXCEPT ![m] = limit]
       /\ sendReady' = TRUE
  ELSE UNCHANGED <<packetsGranted, sendReady>>

(* Mutant of Dequeue: the message stays in the sendQueue.                    *)
StayQueued(m) == UNCHANGED sendQueue

(* Take m out of the sendQueue if it is still waiting there.                 *)
Dequeue(m) ==
  sendQueue' = IF status[m] = "IN_PROGRESS" THEN Unlink(sendQueue, m)
                                            ELSE sendQueue

-----------------------------------------------------------------------------
(* Calls of the application. *)

(* Sender::allocMessage *)
AllocMessage(t, m) ==
  /\ Calls(t)
  /\ life[m] = "free"
  /\ life' = [life EXCEPT ![m] = "live"]
  /\ held' = [held EXCEPT ![m] = TRUE]
  /\ UNCHANGED <<status, options, tracked, timers, info, queue, loop, aborted>>

(* Sender::sendMessage; the application sends a message once.                *)
SendMessage(t, m, opts, byteLimit) ==
  /\ Calls(t)
  /\ held[m] /\ status[m] = "NOT_STARTED"
  /\ options' = [options EXCEPT ![m] = opts]
  /\ tracked' = tracked \cup {m}
  /\ \/ /\ numPackets(m) = 1
        /\ SendSinglePacket(m, opts)
     \/ /\ numPackets(m) > 1 /\ ~QueueLocked
        /\ SetStatus(m, "IN_PROGRESS")
        /\ SetTimeouts(m)
        /\ Enqueue(m, sendQueue, byteLimit)
  /\ UNCHANGED <<life, held, loop, aborted>>

(* Sender::cancelMessage *)
CancelMessage(t, m) ==
  /\ Calls(t)
  /\ held[m] /\ m \in tracked
  /\ numPackets(m) > 1 /\ status[m] = "IN_PROGRESS" => ~QueueLocked
  /\ CancelTimeouts(m)
  /\ Dequeue(m)
  /\ SetStatus(m, "CANCELED")
  /\ UNCHANGED <<object, info, sendReady, loop, aborted>>

(* Sender::dropMessage of a message that need not wait to be sent            *)
DropMessage(t, m) ==
  /\ Calls(t)
  /\ held[m] /\ status[m] # "IN_PROGRESS"
  /\ held' = [held EXCEPT ![m] = FALSE]
  /\ Destroy(m)
  /\ UNCHANGED <<status, options, info, queue, loop>>

(* Mutant of DeferDrop: also wait when the message is SENT.                  *)
DeferWhenSent(t, m) ==
  /\ Calls(t)
  /\ held[m] /\ status[m] \in {"IN_PROGRESS", "SENT"}
  /\ held' = [held EXCEPT ![m] = FALSE]
  /\ UNCHANGED <<life, status, options, tracked, timers, info, queue, loop, aborted>>

(* Sender::dropMessage of a message that is still being sent                 *)
DeferDrop(t, m) ==
  /\ Calls(t)
  /\ held[m] /\ status[m] = "IN_PROGRESS"
  /\ held' = [held EXCEPT ![m] = FALSE]
  /\ UNCHANGED <<life, status, options, tracked, timers, info, queue, loop, aborted>>

-----------------------------------------------------------------------------
(* Handlers of incoming packets.  A packet for a message that is in no       *)
(* bucket is dropped; where a handler ignores a packet it takes no step.     *)

(* Mutant of HandleDone: the status is not looked at.                        *)
HandleAnyDone(t, m) ==
  /\ Calls(t)
  /\ m \in tracked
  /\ CancelTimeouts(m)
  /\ SetStatus(m, "COMPLETED")
  /\ UNCHANGED <<object, info, queue, loop, aborted>>

(* Sender::handleDonePacket *)
HandleDone(t, m) ==
  /\ Calls(t)
  /\ m \in tracked /\ status[m] = "SENT"
  /\ CancelTimeouts(m)
  /\ SetStatus(m, "COMPLETED")
  /\ UNCHANGED <<object, info, queue, loop, aborted>>

(* Sender::handleErrorPacket *)
HandleError(t, m) ==
  /\ Calls(t)
  /\ m \in tracked /\ status[m] = "SENT"
  /\ CancelTimeouts(m)
  /\ SetStatus(m, "FAILED")
  /\ UNCHANGED <<object, info, queue, loop, aborted>>

(* Mutant of InRange: only the start of the range is checked.                *)
StartsInRange(m, index, num) == index < numPackets(m)

(* A RESEND may be read as a grant if its range lies inside the message.     *)
InRange(m, index, num) == index < numPackets(m) /\ index + num <= numPackets(m)

(* The packets that answer a RESEND; if there are none and the range is      *)
(* legal the answer is BUSY.                                                 *)
Resent(m, index, num) ==
  IF InRange(m, index, num)
  THEN {i \in index..(index + num - 1) : i < packetsSent[m]}
  ELSE {}

(* Sender::handleResendPacket                                                *)
HandleResend(t, m, index, num) ==
  /\ Calls(t)
  /\ m \in tracked /\ numPackets(m) >= 2
  /\ ~QueueLocked
  /\ SetTimeouts(m)
  /\ IF InRange(m, index, num) THEN Grant(m, index + num)
                               ELSE UNCHANGED <<packetsGranted, sendReady>>
  /\ UNCHANGED <<object, status, packetsSent, unsentBytes, sendQueue, loop, aborted>>

(* Sender::handleGrantPacket *)
HandleGrant(t, m, byteLimit) ==
  /\ Calls(t)
  /\ m \in tracked
  /\ SetTimeouts(m)
  /\ \/ /\ status[m] = "IN_PROGRESS" /\ ~QueueLocked
        /\ Grant(m, IF Ceil(byteLimit) > numPackets(m) THEN numPackets(m)
                                                       ELSE Ceil(byteLimit))
     \/ /\ status[m] # "IN_PROGRESS"
        /\ UNCHANGED <<packetsGranted, sendReady>>
  /\ UNCHANGED <<object, status, packetsSent, unsentBytes, sendQueue, loop, aborted>>

(* Mutant of IsUnfinished: the status is not looked at.                      *)
IsTracked(m) == m \in tracked

(* An UNKNOWN matters to a message that is not "done" already.               *)
IsUnfinished(m) == m \in tracked /\ status[m] \in {"IN_PROGRESS", "SENT"}

(* Sender::handleUnknownPacket for a message that must not be retried        *)
HandleUnknownNoRetry(t, m) ==
  /\ Calls(t)
  /\ IsUnfinished(m)
  /\ "NO_RETRY" \in options[m]
  /\ numPackets(m) > 1 => ~QueueLocked
  /\ Dequeue(m)
  /\ CancelTimeouts(m)
  /\ SetStatus(m, "FAILED")
  /\ UNCHANGED <<object, info, sendReady, loop, aborted>>

(* Sender::handleUnknownPacket for a message that is sent again from the     *)
(* start, with the unscheduled limit of the current policy                   *)
HandleUnknownRestart(t, m, byteLimit) ==
  /\ Calls(t)
  /\ IsUnfinished(m)
  /\ "NO_RETRY" \notin options[m]
  /\ \/ /\ numPackets(m) = 1
        /\ SendSinglePacket(m, options[m])
     \/ /\ numPackets(m) > 1 /\ ~QueueLocked
        /\ SetStatus(m, "IN_PROGRESS")
        /\ SetTimeouts(m)
        /\ Enqueue(m, Unlink(sendQueue, m), byteLimit)
  /\ UNCHANGED <<object, loop, aborted>>

-----------------------------------------------------------------------------
(* Timeouts, one iteration of the checking loops. *)

(* Sender::checkMessageTimeouts *)
CheckMessageTimeout(t, m) ==
  /\ Calls(t)
  /\ m \in messageTimeout
  /\ status[m] = "IN_PROGRESS" => ~QueueLocked
  /\ Dequeue(m)
  /\ SetStatus(m, IF status[m] = "COMPLETED" THEN "COMPLETED" ELSE "FAILED")
  /\ CancelTimeouts(m)
  /\ UNCHANGED <<object, info, sendReady, loop, aborted>>

(* Mutants of PingOver: no ping once the message is SENT; none at all with   *)
(* NO_KEEP_ALIVE.                                                            *)
PingOverWhenSent(m) == status[m] \in {"SENT", "COMPLETED", "FAILED"}
PingOverUnlessKept(m) ==
  status[m] \in {"COMPLETED", "FAILED"} \/ "NO_KEEP_ALIVE" \in options[m]

(* No ping is due: the message is over, or sent and not kept alive.          *)
PingOver(m) ==
  \/ status[m] \in {"COMPLETED", "FAILED"}
  \/ "NO_KEEP_ALIVE" \in options[m] /\ status[m] = "SENT"

(* The ping of m is sent: the sender is not blocked on itself.               *)
Pinged(m) ==
  /\ ~PingOver(m)
  /\ status[m] = "IN_PROGRESS" => packetsSent[m] >= packetsGranted[m]

(* Sender::checkPingTimeouts *)
CheckPingTimeout(t, m) ==
  /\ Calls(t)
  /\ m \in pingTimeout
  /\ status[m] = "IN_PROGRESS" => ~QueueLocked
  /\ pingTimeout' = IF PingOver(m) THEN pingTimeout \ {m} ELSE pingTimeout
  /\ messageTimeout' =
       IF PingOver(m) /\ status[m] = "SENT" THEN messageTimeout \ {m}
                                            ELSE messageTimeout
  /\ UNCHANGED <<object, status, info, queue, loop, aborted>>

-----------------------------------------------------------------------------
(* Sender::trySend *)

Goto(t, place) == pc' = [pc EXCEPT ![t] = place]

(* if (!sendReady) return *)
CheckReady(t) ==
  /\ Calls(t)
  /\ sendReady
  /\ Goto(t, "checked")
  /\ UNCHANGED <<object, status, timers, info, queue, sending, it, sentMessageIds, aborted>>

(* Mutant of TestAndSet: the old value is ignored.                           *)
SetOnly(t) ==
  /\ ~aborted /\ pc[t] = "checked"
  /\ sending' = TRUE
  /\ Goto(t, "acquire")
  /\ UNCHANGED <<object, status, timers, info, queue, it, sentMessageIds, aborted>>

(* if (sending.test_and_set()) return *)
TestAndSet(t) ==
  /\ ~aborted /\ pc[t] = "checked"
  /\ sending' = TRUE
  /\ Goto(t, IF sending THEN "idle" ELSE "acquire")
  /\ UNCHANGED <<object, status, timers, info, queue, it, sentMessageIds, aborted>>

(* Lock the queueMutex; assume that everything granted will be sent.         *)
LockQueue(t) ==
  /\ ~aborted /\ pc[t] = "acquire"
  /\ ~QueueLocked
  /\ sendReady' = FALSE
  /\ it' = FirstOf(sendQueue, NoMessage)
  /\ Goto(t, "send")
  /\ UNCHANGED <<object, status, timers, info, sendQueue, sending, sentMessageIds, aborted>>

(* Thread t is in the loop over the sendQueue, at message it.                *)
Visiting(t) == ~aborted /\ pc[t] = "send" /\ it # NoMessage

(* Payload of the packet that m sends next.                                  *)
PacketDataBytes(m) ==
  IF Length[m] - packetsSent[m] * PACKET_DATA_LENGTH < PACKET_DATA_LENGTH
  THEN Length[m] - packetsSent[m] * PACKET_DATA_LENGTH
  ELSE PACKET_DATA_LENGTH

(* Send the next granted packet of the message.                              *)
SendPacket(t) ==
  /\ Visiting(t)
  /\ packetsSent[it] < packetsGranted[it]
  /\ unsentBytes' = [unsentBytes EXCEPT ![it] = @ - PacketDataBytes(it)]
  /\ sendQueue' = Prioritize(sendQueue, it, unsentBytes')
  /\ packetsSent' = [packetsSent EXCEPT ![it] = @ + 1]
  /\ UNCHANGED <<object, status, timers, packetsGranted, sendReady, loop, aborted>>

(* The last packet of the message is sent: state.store(SENT) ...             *)
StoreSent(t) ==
  /\ Visiting(t)
  /\ packetsSent[it] >= numPackets(it)
  /\ sentMessageIds' = [sentMessageIds EXCEPT ![t] = @ \cup {it}]
  /\ SetStatus(it, "SENT")
  /\ Goto(t, "marked")
  /\ UNCHANGED <<object, timers, info, queue, sending, it, aborted>>

(* ... and only then it = sendQueue.remove(it).                              *)
RemoveSent(t) ==
  /\ ~aborted /\ pc[t] = "marked"
  /\ it' = NextOf(sendQueue, it, NoMessage)
  /\ sendQueue' = Unlink(sendQueue, it)
  /\ Goto(t, "send")
  /\ UNCHANGED <<object, status, timers, info, sendReady, sending, sentMessageIds, aborted>>

(* Every granted packet is sent; go to the next message.                     *)
NextMessage(t) ==
  /\ Visiting(t)
  /\ packetsSent[it] < numPackets(it) /\ packetsSent[it] >= packetsGranted[it]
  /\ it' = NextOf(sendQueue, it, NoMessage)
  /\ UNCHANGED <<object, status, timers, info, queue, sending, pc, sentMessageIds, aborted>>

(* Mutant of UnlockQueue: no sending.clear().                                *)
UnlockOnly(t) ==
  /\ it' = NoMessage
  /\ Goto(t, IF sentMessageIds[t] = {} THEN "idle" ELSE "post")
  /\ UNCHANGED <<object, status, timers, info, sendQueue, sending, sentMessageIds, aborted>>

(* sending.clear() and unlock; what is left is the loop over sentMessageIds. *)
UnlockQueue(t) ==
  /\ sending' = FALSE
  /\ it' = NoMessage
  /\ Goto(t, IF sentMessageIds[t] = {} THEN "idle" ELSE "post")
  /\ UNCHANGED <<object, status, timers, info, sendQueue, sentMessageIds, aborted>>

(* DRIVER_QUEUED_BYTE_LIMIT is reached; how many bytes the driver has queued *)
(* is not modelled, so this may happen at any packet.                        *)
HitByteLimit(t) ==
  /\ Visiting(t)
  /\ packetsSent[it] < packetsGranted[it]
  /\ sendReady' = TRUE
  /\ UnlockQueue(t)

(* The loop reached sendQueue.end().                                         *)
ReachEnd(t) ==
  /\ ~aborted /\ pc[t] = "send" /\ it = NoMessage
  /\ UNCHANGED sendReady
  /\ UnlockQueue(t)

(* Under the bucket mutex of a sent message, if it is still there: destroy   *)
(* it if it was dropped meanwhile, stop its timeouts with NO_KEEP_ALIVE.     *)
ProcessSent(t, m) ==
  /\ ~aborted /\ pc[t] = "post" /\ m \in sentMessageIds[t]
  /\ sentMessageIds' = [sentMessageIds EXCEPT ![t] = @ \ {m}]
  /\ Goto(t, IF sentMessageIds[t] = {m} THEN "idle" ELSE "post")
  /\ \/ /\ m \in tracked /\ ~held[m]
        /\ Destroy(m)
     \/ /\ m \in tracked /\ held[m] /\ "NO_KEEP_ALIVE" \in options[m]
        /\ CancelTimeouts(m)
        /\ UNCHANGED <<tracked, life, aborted>>
     \/ /\ m \in tracked => held[m] /\ "NO_KEEP_ALIVE" \notin options[m]
        /\ UNCHANGED <<timers, tracked, life, aborted>>
  /\ UNCHANGED <<held, options, status, info, queue, sending, it>>

-----------------------------------------------------------------------------
Application(t, m) ==
  \/ AllocMessage(t, m)
  \/ \E opts \in OptionSets, b \in UnscheduledByteLimits : SendMessage(t, m, opts, b)
  \/ CancelMessage(t, m)
  \/ DropMessage(t, m)
  \/ DeferDrop(t, m)

Receive(t, m) ==
  \/ HandleDone(t, m)
  \/ HandleError(t, m)
  \/ \E i \in 0..numPackets(m), n \in ResendNums : HandleResend(t, m, i, n)
  \/ \E b \in GrantByteLimits : HandleGrant(t, m, b)
  \/ HandleUnknownNoRetry(t, m)
  \/ \E b \in UnscheduledByteLimits : HandleUnknownRestart(t, m, b)

CheckTimeouts(t, m) == CheckMessageTimeout(t, m) \/ CheckPingTimeout(t, m)

TrySend(t) ==
  \/ CheckReady(t) \/ TestAndSet(t) \/ LockQueue(t)
  \/ SendPacket(t) \/ StoreSent(t) \/ RemoveSent(t) \/ NextMessage(t)
  \/ HitByteLimit(t) \/ ReachEnd(t)
  \/ \E m \in Message : ProcessSent(t, m)

Next ==
  \E t \in Thread :
    \/ TrySend(t)
    \/ \E m \in Message : Application(t, m) \/ Receive(t, m) \/ CheckTimeouts(t, m)

Spec == Init /\ [][Next]_vars

-----------------------------------------------------------------------------
(* Correctness. *)

TypeOK ==
  /\ life \in [Message -> {"free", "live", "destroyed"}]
  /\ status \in [Message -> Status]
  /\ held \in [Message -> BOOLEAN]
  /\ options \in [Message -> SUBSET {"NO_RETRY", "NO_KEEP_ALIVE"}]
  /\ tracked \subseteq Message
  /\ messageTimeout \subseteq Message
  /\ pingTimeout \subseteq Message
  /\ packetsGranted \in [Message -> Nat]
  /\ packetsSent \in [Message -> Nat]
  /\ unsentBytes \in [Message -> Nat]
  /\ sendQueue \in Seq(Message)
  /\ sendReady \in BOOLEAN
  /\ sending \in BOOLEAN
  /\ pc \in [Thread -> {"idle", "checked", "acquire", "send", "marked", "post"}]
  /\ it \in Message \cup {NoMessage}
  /\ sentMessageIds \in [Thread -> SUBSET Message]
  /\ aborted \in BOOLEAN

(* The sendQueue holds exactly the multi-packet messages that are            *)
(* IN_PROGRESS, apart from the one trySend has just marked SENT.  The asserts *)
(* on sendQueue.contains() in handleUnknownPacket, cancelMessage and          *)
(* checkMessageTimeouts, and on the state in trySend, rest on it.             *)
QueueConsistent ==
  ~aborted =>
    Elements(sendQueue) =
      {m \in tracked : numPackets(m) > 1 /\ status[m] = "IN_PROGRESS"}
      \cup {m \in Message : it = m /\ \E t \in Thread : pc[t] = "marked"}

(* trySend skips its work when sendReady is false: while nobody is working    *)
(* on the queue, a queued message with a granted, unsent packet implies       *)
(* sendReady.  A lost hint would leave the packet unsent until another event. *)
NoLostWakeup ==
  (\E m \in Elements(sendQueue) : packetsSent[m] < packetsGranted[m])
    => sendReady \/ QueueLocked

(* The sendQueue is in SRPT order after every insertion, restart and packet   *)
(* sent, which trySend relies on when it serves the queue from the front.     *)
ShortestFirst == Ordered(sendQueue, unsentBytes)

(* The bytes trySend believes are left are those of the packets it has not    *)
(* sent, and it never sends beyond what is granted or what the message has:   *)
(* its asserts on packetsGranted and unsentBytes.                             *)
SendAccounting ==
  \A m \in Elements(sendQueue) :
    /\ packetsSent[m] <= packetsGranted[m]
    /\ packetsGranted[m] <= numPackets(m)
    /\ unsentBytes[m] = IF packetsSent[m] = numPackets(m) THEN 0
                        ELSE Length[m] - packetsSent[m] * PACKET_DATA_LENGTH

(* A message that is not settled and not sent with NO_KEEP_ALIVE has both     *)
(* timeouts armed, so a silent receiver is always noticed, whatever order     *)
(* packets, timeouts and trySend come in.                                     *)
KeepAliveArmed ==
  \A m \in tracked :
    /\ status[m] \in {"IN_PROGRESS", "SENT"}
    /\ "NO_KEEP_ALIVE" \notin options[m]
    => m \in messageTimeout /\ m \in pingTimeout

(* A destroyed message is in no bucket and in no timeout list, and the        *)
(* application holds no destroyed message: packets, timeouts and the          *)
(* application never reach freed memory that way.                             *)
NoDangling ==
  /\ messageTimeout \cup pingTimeout \subseteq tracked
  /\ \A m \in Message : m \in tracked \/ held[m] => life[m] = "live"

(* A message that is over is never sent again: no late UNKNOWN, GRANT or      *)
(* RESEND brings it back to IN_PROGRESS or SENT.                              *)
NeverRevived ==
  [][\A m \in Message : status[m] \in {"COMPLETED", "FAILED", "CANCELED"}
        => status'[m] \in {"COMPLETED", "FAILED", "CANCELED"}]_vars

(* No assertion of the code fails, in particular not the one in ~Node(): a    *)
(* message is never destroyed while the sendQueue still links it.  True when  *)
(* one thread makes all the calls.                                            *)
NoAbort == ~aborted

(* A message that is still being sent has its timeouts armed, whatever its    *)
(* options: it may wait for a GRANT that never comes.  True when one thread   *)
(* makes all the calls.                                                       *)
ArmedWhileSending ==
  \A m \in tracked : status[m] = "IN_PROGRESS" => m \in messageTimeout /\ m \in pingTimeout

(* dropMessage leaves a message to be destroyed later only while there is     *)
(* something to wait for, or for ever if the message FAILED meanwhile: no     *)
(* step destroys that one.                                                    *)
DroppedWaits ==
  \A m \in tracked : ~held[m] =>
    \/ status[m] \in {"IN_PROGRESS", "FAILED"}
    \/ \E t \in Thread : m \in sentMessageIds[t]

-----------------------------------------------------------------------------
(* The inductive invariant behind the properties above. *)

(* One thread at a time is between test_and_set and clear.                   *)
OneSender ==
  \A t \in Thread : pc[t] \in {"acquire", "send", "marked"} =>
    /\ sending
    /\ \A u \in Thread : pc[u] \in {"acquire", "send", "marked"} => u = t

(* The iterator refers to a linked message, and only while the queueMutex is *)
(* held; a message that is marked SENT has no packets left.                  *)
IteratorValid ==
  /\ it # NoMessage => QueueLocked /\ it \in Elements(sendQueue)
  /\ (\E t \in Thread : pc[t] = "marked")
       => it # NoMessage /\ packetsSent[it] >= numPackets(it)

(* Between allocation and destruction.                                       *)
Lifecycle ==
  \A m \in Message :
    /\ m \in tracked => life[m] = "live" /\ status[m] # "NOT_STARTED"
    /\ held[m] => life[m] = "live"
    /\ status[m] = "IN_PROGRESS" => numPackets(m) > 1

(* A message that is marked SENT is not being sent again before it is        *)
(* removed from the queue.                                                   *)
MarkedIsSent ==
  (\E t \in Thread : pc[t] = "marked")
    => \A m \in Message : it = m => status[m] # "IN_PROGRESS"

(* A message that is still linked is still in its bucket.                    *)
QueuedAreTracked == ~aborted => Elements(sendQueue) \subseteq tracked

(* What the loop of trySend has passed has nothing left to send.             *)
PassedAreSent ==
  QueueLocked =>
    \A i \in 1..Len(sendQueue) :
      (it = NoMessage \/ i < Position(sendQueue, it))
        => packetsSent[sendQueue[i]] >= packetsGranted[sendQueue[i]]

Inv ==
  /\ TypeOK
  /\ OneSender
  /\ Linked(sendQueue)
  /\ IteratorValid
  /\ Lifecycle
  /\ MarkedIsSent
  /\ QueuedAreTracked
  /\ QueueConsistent
  /\ PassedAreSent
  /\ NoLostWakeup
  /\ ShortestFirst
  /\ SendAccounting
  /\ NoDangling
  /\ KeepAliveArmed

-----------------------------------------------------------------------------
(* Liveness. *)

(* Transport::poll is called again and again ("must be called eagerly to      *)
(* ensure messages are sent"), so a thread that can make a step of trySend    *)
(* eventually does, and the driver's queue drains, so a packet that may be    *)
(* sent is not held back by the byte limit for ever.                          *)
PollFairness ==
  \A t \in Thread :
    /\ WF_vars(TrySend(t))
    /\ SF_vars(SendPacket(t))

(* Timeouts are checked again and again by the same poll().  It is a premise  *)
(* of EventuallySettled alone: GrantedAreSent must not hold merely because a  *)
(* stranded message times out in the end.                                     *)
TimeoutFairness ==
  \A m \in Message :
    WF_vars(\E t \in Thread : CheckMessageTimeout(t, m))

LiveSpec == Spec /\ PollFairness

(* From some point on the receiver is silent.                                 *)
Silence == <>[][~\E t \in Thread, m \in Message : Receive(t, m)]_vars

(* Granted packets of a queued message are eventually sent, unless the        *)
(* message leaves the queue: no interleaving of the threads' trySend calls    *)
(* and the sendReady / sending flags strands it.                              *)
GrantedAreSent ==
  Silence =>
    \A m \in Message :
      (m \in Elements(sendQueue) /\ packetsSent[m] < packetsGranted[m])
        ~> (aborted \/ m \notin Elements(sendQueue) \/ packetsSent[m] >= packetsGranted[m])

(* If the receiver goes silent every message with keep-alive is settled, so   *)
(* an application that waits for COMPLETED or FAILED does not wait for ever.  *)
EventuallySettled ==
  TimeoutFairness /\ Silence =>
    \A m \in Message :
      (m \in tracked /\ "NO_KEEP_ALIVE" \notin options[m])
        ~> (aborted \/ m \notin tracked \/ status[m] \in {"COMPLETED", "FAILED", "CANCELED"})
=============================================================================
