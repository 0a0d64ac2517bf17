----------------------------- MODULE Transport ------------------------------
(***************************************************************************)
(* Two transports and the network between them (src/src/TransportImpl.cc,   *)
(* src/src/ControlPacket.h, src/src/Protocol.h): the Sender of one and the  *)
(* Receiver of the other, composed.  The steps are those of the modules     *)
(* Sender and Receiver; this module adds the packets they exchange, how     *)
(* processPacket hands them out, and what the network does to them.         *)
(*                                                                          *)
(* A channel delivers in order, unless it loses, duplicates or delays a     *)
(* packet.  Time is not modelled; what the lengths of the intervals         *)
(* (src/src/TransportImpl.cc:30-37, milliseconds where a poll takes          *)
(* microseconds) ensure is: a timeout expires when the packets under way     *)
(* have arrived and nothing is left to send or to grant; a sender whom        *)
(* RESENDs reach does not ping, since RESEND_INTERVAL_US is shorter than      *)
(* PING_INTERVAL_US; and a message times out only after its last ping (resend) *)
(* went without an answer, on the receiving side not while the sender pings.  *)
(* That a timeout expires earlier is a fault too, and there are at most       *)
(* MaxFaults faults in all.                                                   *)
(***************************************************************************)
EXTENDS Integers, Sequences, FiniteSets

CONSTANTS
  Message, Thread, Length, PACKET_DATA_LENGTH, UnscheduledByteLimits,
  OptionSets, NoMessage, Peer, Source, degreeOvercommitment,
  minScheduledBytes, maxScheduledBytes, NoPeer,
  NoPacket,        \* no packet is being handled
  MaxFaults        \* bound on the faults of network and clock

ASSUME MessageAssumption == NoMessage \notin Message
ASSUME LengthAssumption == Length \in [Message -> Nat \ {0}]
ASSUME PacketAssumption == PACKET_DATA_LENGTH \in Nat \ {0}
ASSUME LimitAssumption == UnscheduledByteLimits \subseteq Nat
ASSUME OptionAssumption == OptionSets \subseteq SUBSET {"NO_RETRY", "NO_KEEP_ALIVE"}
ASSUME PeerAssumption == NoPeer \notin Peer /\ Source \in [Message -> Peer]
ASSUME PolicyAssumption ==
  /\ degreeOvercommitment \in Nat
  /\ minScheduledBytes \in Nat /\ maxScheduledBytes \in Nat
  /\ minScheduledBytes <= maxScheduledBytes

VARIABLES
  \* the Sender
  life, status, held, options, tracked, messageTimeout, pingTimeout,
  packetsGranted, packetsSent, unsentBytes, sendQueue, sendReady, sending,
  pc, it, sentMessageIds, aborted,
  \* the Receiver
  state, packets, numUnscheduledPackets, bytesRemaining, bytesGranted,
  schedule, inMessageTimeout, resendTimeout, receivedMessages, delivered,
  granting, peerIt, slot,
  \* the network
  toReceiver, toSender, \* the packets under way, oldest first
  faults,               \* faults so far
  \* the transports
  arriving,              \* DATA packet whose message was just created
  unscheduledIndexLimit, \* in the DataHeaders of each message
  quietSender,           \* a ping was due since the receiver was heard of
  quietReceiver,         \* a resend was due since the sender was heard of
  answered,              \* the messages in hand that were replied to
  replies,               \* what the receiving application ever replied
  givenOut,              \* messages it was ever given
  copies                 \* how often it was given each message less how often
                         \* it has released it

(* What a packet may carry is up to the packets here, not to the components. *)
S == INSTANCE Sender WITH GrantByteLimits <- Nat, ResendNums <- Nat
R == INSTANCE Receiver WITH UnscheduledIndexLimits <- Nat,
       messageTimeout <- inMessageTimeout, it <- peerIt

senderVars == <<life, status, held, options, tracked, messageTimeout, pingTimeout,
  packetsGranted, packetsSent, unsentBytes, sendQueue, sendReady, sending,
  pc, it, sentMessageIds, aborted>>
receiverVars == <<state, packets, numUnscheduledPackets, bytesRemaining,
  bytesGranted, schedule, inMessageTimeout, resendTimeout, receivedMessages,
  delivered, granting, peerIt, slot>>
network == <<toReceiver, toSender, faults>>
clocks == <<quietSender, quietReceiver>>
application == <<answered, replies, givenOut, copies>>
vars == <<senderVars, receiverVars, network, arriving, unscheduledIndexLimit, clocks, application>>

Init ==
  /\ S!Init /\ R!Init
  /\ toReceiver = <<>> /\ toSender = <<>> /\ faults = 0
  /\ arriving = NoPacket
  /\ unscheduledIndexLimit = [m \in Message |-> 0]
  /\ quietSender = [m \in Message |-> FALSE]
  /\ quietReceiver = [m \in Message |-> FALSE]
  /\ answered = {} /\ replies = [m \in Message |-> {}] /\ givenOut = {}
  /\ copies = [m \in Message |-> 0]

-----------------------------------------------------------------------------
(* Packets. *)

(* DataHeader; totalLength is Length[m]. *)
Data(m, limit, i) ==
  [opcode |-> "DATA", message |-> m, unscheduledIndexLimit |-> limit, index |-> i]

(* GrantHeader and ResendHeader, without the priority. *)
GrantPacket(m, byteLimit) == [opcode |-> "GRANT", message |-> m, byteLimit |-> byteLimit]

ResendPacket(m, index, num) ==
  [opcode |-> "RESEND", message |-> m, index |-> index, num |-> num]

(* DoneHeader, ErrorHeader, UnknownHeader, BusyHeader and PingHeader. *)
Control(opcode, m) == [opcode |-> opcode, message |-> m]

(* The DATA packets of some indices.                                          *)
DataPackets(m, indices) == {Data(m, unscheduledIndexLimit[m], i) : i \in indices}

(* One RESEND for each contiguous range of a set of indices.                  *)
ResendPackets(m, indices) ==
  LET IsRange(i, n) == /\ i - 1 \notin indices /\ i + n \notin indices
                       /\ i..(i + n - 1) \subseteq indices
  IN  {p \in {ResendPacket(m, i, n) : i \in indices, n \in 1..Cardinality(indices)} :
         IsRange(p.index, p.num)}

(* The packets of a set in the order in which they are sent, by their index:  *)
(* there is one such sequence.                                                *)
InOrder(ps) ==
  {s \in [1..Cardinality(ps) -> ps] :
     \A j, k \in 1..Cardinality(ps) : j < k => s[j].index < s[k].index}

(* Nothing is left to deliver, to send or to grant.                           *)
Quiescent ==
  /\ toReceiver = <<>> /\ toSender = <<>>
  /\ ~sendReady
  /\ \A k \in 1..Len(schedule.peers) : k <= degreeOvercommitment =>
       LET m == schedule.messages[schedule.peers[k]][1]
       IN  R!NewGrantLimit(m) = bytesGranted[m]

(* A timeout expires: early is one of the faults.                            *)
Expires(inTime) ==
  \/ inTime /\ UNCHANGED faults
  \/ ~inTime /\ faults < MaxFaults /\ faults' = faults + 1

(* The receiver misses packets and asks for them every RESEND_INTERVAL_US:    *)
(* handleResendPacket sets the ping timeout each time, also when it ignores   *)
(* the RESEND because the range is not one of the message's.                  *)
AskedToResend(m) ==
  m \in resendTimeout /\ R!Requested(m) # {} /\ S!numPackets(m) > 1

RangesIgnored(m) ==
  \A p \in ResendPackets(m, R!Requested(m)) : ~S!InRange(m, p.index, p.num)

(* ControlPacket::send and Driver::sendPacket: the packets join the channel. *)
ToReceiver(ps) == toReceiver' = toReceiver \o ps /\ UNCHANGED toSender
ToSender(ps) == toSender' = toSender \o ps /\ UNCHANGED toReceiver

-----------------------------------------------------------------------------
(* The sending application and the Sender's part of poll(). *)

SenderOnly == UNCHANGED <<receiverVars, arriving, quietReceiver, application>>

(* The unscheduledIndexLimit that sendMessage and handleUnknownPacket write   *)
(* into every DataHeader of m: it is not clamped to the message.              *)
WriteHeaders(m, byteLimit) ==
  unscheduledIndexLimit' = [unscheduledIndexLimit EXCEPT ![m] = S!Ceil(byteLimit)]

(* Policy::Manager answers with RTT_BYTES, which never changes, when the      *)
(* message is sent and when it is started over.                               *)
SameLimit(m, byteLimit) == S!Ceil(byteLimit) = unscheduledIndexLimit[m]

(* The only packet of a message goes out at once, with the headers just written. *)
FirstPacket(m) ==
  IF S!numPackets(m) = 1 THEN <<Data(m, unscheduledIndexLimit'[m], 0)>> ELSE <<>>

HeardFromReceiver(m) == quietSender' = [quietSender EXCEPT ![m] = FALSE]

(* OutMessage::send *)
SendMessage(t, m) ==
  \E opts \in OptionSets, b \in UnscheduledByteLimits :
    /\ S!SendMessage(t, m, opts, b)
    /\ WriteHeaders(m, b)
    /\ ToReceiver(FirstPacket(m)) /\ UNCHANGED faults
    /\ HeardFromReceiver(m)
    /\ SenderOnly

(* Transport::alloc, OutMessage::cancel and OutMessage::release *)
OutMessageCall(t, m) ==
  /\ \/ S!AllocMessage(t, m) \/ S!CancelMessage(t, m)
     \/ S!DropMessage(t, m) \/ S!DeferDrop(t, m)
  /\ UNCHANGED <<network, unscheduledIndexLimit, quietSender>>
  /\ SenderOnly

(* Sender::trySend.  The packets of these messages fit into the driver's      *)
(* queue, so HitByteLimit is not among its steps.                             *)
TrySend(t) ==
  /\ \/ /\ S!SendPacket(t) /\ UNCHANGED faults
        /\ ToReceiver(<<Data(it, unscheduledIndexLimit[it], packetsSent[it])>>)
     \/ /\ \/ S!CheckReady(t) \/ S!TestAndSet(t) \/ S!LockQueue(t)
           \/ S!StoreSent(t) \/ S!RemoveSent(t) \/ S!NextMessage(t)
           \/ S!ReachEnd(t)
           \/ \E m \in Message : S!ProcessSent(t, m)
        /\ UNCHANGED network
  /\ UNCHANGED <<unscheduledIndexLimit, quietSender>>
  /\ SenderOnly

(* Sender::checkPingTimeouts *)
CheckPingTimeout(t, m) ==
  /\ Expires(Quiescent /\ ~AskedToResend(m))
  /\ S!CheckPingTimeout(t, m)
  /\ ToReceiver(IF S!Pinged(m) THEN <<Control("PING", m)>> ELSE <<>>)
  /\ quietSender' = [quietSender EXCEPT ![m] = TRUE]
  /\ UNCHANGED unscheduledIndexLimit
  /\ SenderOnly

(* Sender::checkMessageTimeouts *)
CheckOutTimeout(t, m) ==
  /\ Expires(Quiescent /\ quietSender[m])
  /\ S!CheckMessageTimeout(t, m)
  /\ UNCHANGED <<toReceiver, toSender, unscheduledIndexLimit, quietSender>>
  /\ SenderOnly

(* What handleResendPacket sends: nothing if the range is not legal, BUSY if  *)
(* none of it was sent yet.                                                   *)
ResendAnswers(m, index, num) ==
  IF ~S!InRange(m, index, num) THEN {<<>>}
  ELSE IF index >= packetsSent[m] THEN {<<Control("BUSY", m)>>}
  ELSE InOrder(DataPackets(m, S!Resent(m, index, num)))

(* TransportImpl::processPacket, a packet for the Sender.  A handler that     *)
(* finds nothing to do drops the packet.                                      *)
SenderReceives(t) ==
  /\ toSender # <<>> /\ S!Calls(t)
  /\ LET p == Head(toSender)
         m == p.message
         Reply(ps) == toReceiver' = toReceiver \o ps
         Untouched == UNCHANGED unscheduledIndexLimit
     IN  \/ /\ \/ p.opcode = "DONE" /\ S!HandleDone(t, m)
               \/ p.opcode = "ERROR" /\ S!HandleError(t, m)
            /\ Reply(<<>>) /\ Untouched /\ UNCHANGED quietSender
         \/ /\ p.opcode = "GRANT" /\ S!HandleGrant(t, m, p.byteLimit)
            /\ Reply(<<>>) /\ Untouched /\ HeardFromReceiver(m)
         \/ /\ p.opcode = "RESEND" /\ S!HandleResend(t, m, p.index, p.num)
            /\ \E ps \in ResendAnswers(m, p.index, p.num) : Reply(ps)
            /\ Untouched /\ HeardFromReceiver(m)
         \/ /\ p.opcode = "UNKNOWN" /\ S!HandleUnknownNoRetry(t, m)
            /\ Reply(<<>>) /\ Untouched /\ UNCHANGED quietSender
         \/ \E b \in UnscheduledByteLimits :
              /\ SameLimit(m, b)
              /\ p.opcode = "UNKNOWN" /\ S!HandleUnknownRestart(t, m, b)
              /\ WriteHeaders(m, b)
              /\ Reply(FirstPacket(m)) /\ HeardFromReceiver(m)
         \/ /\ \/ m \notin tracked
               \/ p.opcode \in {"DONE", "ERROR"} /\ status[m] # "SENT"
               \/ p.opcode = "RESEND" /\ S!numPackets(m) < 2
               \/ p.opcode = "UNKNOWN" /\ ~S!IsUnfinished(m)
            /\ Reply(<<>>) /\ Untouched /\ UNCHANGED <<senderVars, quietSender>>
  /\ toSender' = Tail(toSender)
  /\ UNCHANGED faults
  /\ SenderOnly

-----------------------------------------------------------------------------
(* The Receiver's part of poll() and the receiving application. *)

ReceiverOnly == UNCHANGED <<senderVars, unscheduledIndexLimit, quietSender>>

HeardFromSender(m) == quietReceiver' = [quietReceiver EXCEPT ![m] = FALSE]

(* TransportImpl::processPacket, a packet for the Receiver.                   *)
ReceiverReceives ==
  /\ toReceiver # <<>> /\ arriving = NoPacket
  /\ LET p == Head(toReceiver)
         m == p.message
         Reply(ps) == toSender' = toSender \o ps
     IN  \/ /\ p.opcode = "DATA" /\ R!CreateMessage(m, p.unscheduledIndexLimit)
            /\ arriving' = p
            /\ Reply(<<>>) /\ UNCHANGED quietReceiver
         \/ /\ p.opcode = "DATA" /\ R!HandleData(m, p.index)
            /\ Reply(<<>>) /\ HeardFromSender(m) /\ UNCHANGED arriving
         \/ /\ p.opcode = "BUSY" /\ R!HandleBusy(m)
            /\ Reply(<<>>) /\ HeardFromSender(m) /\ UNCHANGED arriving
         \/ /\ p.opcode = "PING" /\ R!HandlePing(m)
            /\ Reply(<<GrantPacket(m, R!PingedLimit(m))>>)
            /\ HeardFromSender(m) /\ UNCHANGED arriving
         \/ /\ p.opcode = "PING" /\ state[m] = "NONE"
            /\ Reply(<<Control("UNKNOWN", m)>>)
            /\ UNCHANGED <<receiverVars, quietReceiver, arriving>>
         \/ /\ \/ p.opcode = "BUSY" /\ state[m] = "NONE"
               \/ p.opcode = "DATA" /\ p.index \in packets[m]
            /\ Reply(<<>>)
            /\ UNCHANGED <<receiverVars, quietReceiver, arriving>>
  /\ toReceiver' = Tail(toReceiver)
  /\ UNCHANGED <<faults, application>>
  /\ ReceiverOnly

(* The rest of handleDataPacket, after the message was created.               *)
AddFirstPacket ==
  /\ arriving # NoPacket
  /\ R!HandleData(arriving.message, arriving.index)
  /\ HeardFromSender(arriving.message)
  /\ arriving' = NoPacket
  /\ UNCHANGED <<network, application>>
  /\ ReceiverOnly

(* Receiver::trySendGrants: a GRANT for a slot whose limit was raised.        *)
TrySendGrants ==
  /\ \/ R!StartGranting /\ UNCHANGED network
     \/ /\ R!GrantSlot
        /\ LET m == schedule.messages[peerIt][1]
           IN  ToSender(IF bytesGranted'[m] = bytesGranted[m] THEN <<>>
                        ELSE <<GrantPacket(m, bytesGranted'[m])>>)
        /\ UNCHANGED faults
     \/ R!FinishGranting /\ UNCHANGED network
  /\ UNCHANGED <<arriving, quietReceiver, application>>
  /\ ReceiverOnly

(* Receiver::checkResendTimeouts *)
CheckResendTimeout(m) ==
  /\ Expires(Quiescent)
  /\ m \in resendTimeout
  /\ R!NeedsGrants(m) => ~granting
  /\ \E ps \in InOrder(ResendPackets(m, R!Requested(m))) : ToSender(ps)
  /\ quietReceiver' = [quietReceiver EXCEPT ![m] = TRUE]
  /\ UNCHANGED <<receiverVars, arriving, application>>
  /\ ReceiverOnly

(* The sender has nothing more to say: it would ping, or is kept from it by   *)
(* RESENDs that it ignores.                                                   *)
SenderSilent(m) == m \in pingTimeout => AskedToResend(m) /\ RangesIgnored(m)

(* Receiver::checkMessageTimeouts; a message that is complete has no resend   *)
(* intervals to count and may be marked at any time.                          *)
CheckInTimeout(m) ==
  /\ \/ /\ Expires(Quiescent /\ quietReceiver[m] /\ SenderSilent(m))
        /\ R!AbandonMessage(m)
     \/ R!MarkDropped(m) /\ UNCHANGED faults
  /\ UNCHANGED <<toReceiver, toSender, arriving, quietReceiver, application>>
  /\ ReceiverOnly

(* Transport::receive *)
ReceiveMessage ==
  /\ R!ReceiveMessage
  /\ givenOut' = givenOut \cup {Head(receivedMessages)}
  /\ copies' = [copies EXCEPT ![Head(receivedMessages)] = @ + 1]
  /\ UNCHANGED <<network, arriving, quietReceiver, answered, replies>>
  /\ ReceiverOnly

(* InMessage::acknowledge and InMessage::fail; the application replies to an  *)
(* InMessage at most once.                                                    *)
Reply(m, opcode) ==
  /\ m \in delivered \ answered
  /\ ToSender(<<Control(opcode, m)>>)
  /\ answered' = answered \cup {m}
  /\ replies' = [replies EXCEPT ![m] = @ \cup {opcode}]
  /\ UNCHANGED <<receiverVars, arriving, quietReceiver, faults, givenOut, copies>>
  /\ ReceiverOnly

(* InMessage::release *)
ReleaseInMessage(m) ==
  /\ R!DropMessage(m)
  /\ answered' = answered \ {m}
  /\ copies' = [copies EXCEPT ![m] = @ - 1]
  /\ UNCHANGED <<network, arriving, quietReceiver, replies, givenOut>>
  /\ ReceiverOnly

-----------------------------------------------------------------------------
(* The network. *)

Lost(channel) == Tail(channel)
Duplicated(channel) == <<Head(channel)>> \o channel
Delayed(channel) == Append(Tail(channel), Head(channel))

Fault ==
  /\ faults < MaxFaults
  /\ faults' = faults + 1
  /\ \/ /\ toReceiver # <<>>
        /\ toReceiver' \in {Lost(toReceiver), Duplicated(toReceiver), Delayed(toReceiver)}
        /\ UNCHANGED toSender
     \/ /\ toSender # <<>>
        /\ toSender' \in {Lost(toSender), Duplicated(toSender), Delayed(toSender)}
        /\ UNCHANGED toReceiver
  /\ UNCHANGED <<senderVars, receiverVars, arriving, unscheduledIndexLimit, clocks, application>>

-----------------------------------------------------------------------------
(* One thread polls each transport: it finishes trySend, trySendGrants and     *)
(* handleDataPacket before it does anything else, and what happens on the     *)
(* other side meanwhile might as well have happened before or after.          *)
Busy == (\E t \in Thread : pc[t] # "idle") \/ granting \/ arriving # NoPacket

Working ==
  \/ \E t \in Thread : pc[t] # "idle" /\ TrySend(t)
  \/ granting /\ TrySendGrants
  \/ AddFirstPacket

SenderPoll(t) ==
  \/ SenderReceives(t)
  \/ TrySend(t)
  \/ \E m \in Message : CheckPingTimeout(t, m) \/ CheckOutTimeout(t, m)

ReceiverPoll ==
  \/ ReceiverReceives
  \/ TrySendGrants
  \/ \E m \in Message : CheckResendTimeout(m) \/ CheckInTimeout(m)

Application ==
  \/ \E t \in Thread, m \in Message : SendMessage(t, m) \/ OutMessageCall(t, m)
  \/ ReceiveMessage
  \/ \E m \in Message : ReleaseInMessage(m) \/ \E r \in {"DONE", "ERROR"} : Reply(m, r)

Next ==
  \/ Busy /\ Working
  \/ ~Busy /\ (ReceiverPoll \/ Application \/ Fault \/ \E t \in Thread : SenderPoll(t))

Spec == Init /\ [][Next]_vars

-----------------------------------------------------------------------------
(* Correctness. *)

Packet ==
  [opcode : {"DATA"}, message : Message, unscheduledIndexLimit : Nat, index : Nat]
  \cup [opcode : {"GRANT"}, message : Message, byteLimit : Nat]
  \cup [opcode : {"RESEND"}, message : Message, index : Nat, num : Nat \ {0}]
  \cup [opcode : {"DONE", "ERROR", "UNKNOWN", "BUSY", "PING"}, message : Message]

(* The packets that may be under way to the receiver: DATA is part of a        *)
(* message that was sent.                                                     *)
Started(m) == status[m] # "NOT_STARTED"

Inbound ==
  {p \in Packet : p.opcode = "DATA" =>
                    Started(p.message) /\ p.index < S!numPackets(p.message)}

(* The packets that may be under way to the sender: DONE only after the       *)
(* application's acknowledge().                                               *)
Outbound == {p \in Packet : p.opcode = "DONE" => "DONE" \in replies[p.message]}

(* What the packets under way say is true, now and for as long as the network *)
(* keeps them: with the invariants of Sender and Receiver this is inductive.  *)
Exchange ==
  /\ toReceiver \in Seq(Inbound) /\ toSender \in Seq(Outbound)
  /\ arriving # NoPacket => arriving \in Inbound /\ arriving.opcode = "DATA"
  /\ unscheduledIndexLimit \in [Message -> Nat]
  /\ replies \in [Message -> SUBSET {"DONE", "ERROR"}]
  /\ \A m \in Message : state[m] # "NONE" => Started(m)
  /\ copies = [m \in Message |-> IF m \in delivered THEN 1 ELSE 0]

(* The service that the two transports provide over the network: retries,     *)
(* GRANTs and timeouts are hidden, and the outcome a sending application sees *)
(* agrees with what the receiving application did.                            *)
Service == INSTANCE MessageService WITH
  outcome <- [m \in Message |-> IF status[m] \in {"IN_PROGRESS", "SENT"} THEN "PENDING"
                                                                        ELSE status[m]],
  inHand <- copies

(* Every step of the protocol is a step of the service or invisible to the    *)
(* applications: whatever is lost, duplicated, delayed or retried, a message  *)
(* is COMPLETED only if it was delivered and acknowledged; COMPLETED and      *)
(* FAILED stay until the sending application cancels the message, after which *)
(* it may FAIL but is never COMPLETED; and the receiving application is not   *)
(* given a copy of a message while it holds another.                          *)
ImplementsService == Service!ServiceSpec

-----------------------------------------------------------------------------
(* Liveness. *)

(* Both transports are polled again and again.                                *)
(* Strong fairness, since a handler that waits for a lock gets it, and a      *)
(* timeout that expires again and again is noticed.  Only timeouts that       *)
(* expire in time have to: what comes too early is a fault.                   *)
InTime == UNCHANGED faults

PollFairness ==
  /\ WF_vars(Busy /\ Working)
  /\ SF_vars(~Busy /\ \E t \in Thread : TrySend(t))
  /\ SF_vars(~Busy /\ TrySendGrants)
  /\ SF_vars(~Busy /\ (ReceiverReceives \/ \E t \in Thread : SenderReceives(t)))
  /\ SF_vars(~Busy /\ InTime /\ \E t \in Thread, m \in Message : CheckPingTimeout(t, m))
  /\ SF_vars(~Busy /\ InTime /\ \E m \in Message : CheckResendTimeout(m))
  /\ SF_vars(~Busy /\ InTime
                   /\ \E m \in Message : state[m] = "IN_PROGRESS" /\ CheckInTimeout(m))
  /\ SF_vars(~Busy /\ InTime /\ \E t \in Thread, m \in Message : CheckOutTimeout(t, m))

(* The receiving application takes the messages that arrive, replies to them  *)
(* and releases them; a reply that is lost is only missed after the release.  *)
ApplicationFairness ==
  SF_vars(~Busy /\ \/ ReceiveMessage
                   \/ \E m \in Message :
                        \/ \E r \in {"DONE", "ERROR"} : Reply(m, r)
                        \/ m \in answered /\ ReleaseInMessage(m))

LiveSpec == Spec /\ PollFairness /\ ApplicationFairness

(* From some point on the receiving application releases no message it has    *)
(* not replied to: it would be sent again for ever.                           *)
RepliesFirst == <>[][\A m \in Message : ReleaseInMessage(m) => m \in answered]_vars

(* Every message that is sent is settled in the end, whatever was lost: the   *)
(* retransmissions, restarts and timeouts of the two sides never wait for     *)
(* each other, or keep each other alive, for ever.  In particular a RESEND    *)
(* that the Sender ignores does not keep both sides from starting over.       *)
EverySendSettles ==
  RepliesFirst =>
    \A m \in Message :
      (m \in tracked /\ "NO_KEEP_ALIVE" \notin options[m])
        ~> (m \notin tracked \/ status[m] \in {"COMPLETED", "FAILED", "CANCELED"})
=============================================================================
