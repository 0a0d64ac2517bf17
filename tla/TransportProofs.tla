-------------------------- MODULE TransportProofs ---------------------------
(***************************************************************************)
(* Proofs about the composition of Sender, Receiver and network: each side  *)
(* takes only steps of its own specification, so that what was proved of    *)
(* the components holds here too, and the whole implements MessageService.  *)
(***************************************************************************)
EXTENDS Transport, FiniteSetTheorems, SequenceTheorems, TLAPS

(* The components with their theorems.                                       *)
SP == INSTANCE SenderProofs WITH GrantByteLimits <- Nat, ResendNums <- Nat
RP == INSTANCE ReceiverProofs WITH UnscheduledIndexLimits <- Nat,
        messageTimeout <- inMessageTimeout, it <- peerIt

-----------------------------------------------------------------------------
(* The two instances of a component are the same specification. *)

(* The steps of the Sender.                                                  *)
LEMMA SameSenderNext ==
  S!Next <=> SP!Next
BY DEF
  S!Next, SP!Next, S!TrySend, SP!TrySend, S!Application, SP!Application, S!Receive,
  SP!Receive, S!CheckTimeouts, SP!CheckTimeouts, S!CheckReady, SP!CheckReady,
  S!TestAndSet, SP!TestAndSet, S!LockQueue, SP!LockQueue, S!SendPacket,
  SP!SendPacket, S!StoreSent, SP!StoreSent, S!RemoveSent, SP!RemoveSent,
  S!NextMessage, SP!NextMessage, S!HitByteLimit, SP!HitByteLimit, S!ReachEnd,
  SP!ReachEnd, S!ProcessSent, SP!ProcessSent, S!AllocMessage, SP!AllocMessage,
  S!SendMessage, SP!SendMessage, S!CancelMessage, SP!CancelMessage, S!DropMessage,
  SP!DropMessage, S!DeferDrop, SP!DeferDrop, S!HandleDone, SP!HandleDone,
  S!HandleError, SP!HandleError, S!numPackets, SP!numPackets, S!HandleResend,
  SP!HandleResend, S!HandleGrant, SP!HandleGrant, S!HandleUnknownNoRetry,
  SP!HandleUnknownNoRetry, S!HandleUnknownRestart, SP!HandleUnknownRestart,
  S!CheckMessageTimeout, SP!CheckMessageTimeout, S!CheckPingTimeout,
  SP!CheckPingTimeout, S!Calls, SP!Calls, S!Goto, SP!Goto, S!object, SP!object,
  S!timers, SP!timers, S!info, SP!info, S!queue, SP!queue, S!QueueLocked,
  SP!QueueLocked, S!FirstOf, SP!FirstOf, S!Visiting, SP!Visiting,
  S!PacketDataBytes, SP!PacketDataBytes, S!Prioritize, SP!Prioritize, S!loop,
  SP!loop, S!SetStatus, SP!SetStatus, S!NextOf, SP!NextOf, S!Unlink, SP!Unlink,
  S!UnlockQueue, SP!UnlockQueue, S!Destroy, SP!Destroy, S!CancelTimeouts,
  SP!CancelTimeouts, S!SendSinglePacket, SP!SendSinglePacket, S!SetTimeouts,
  SP!SetTimeouts, S!Enqueue, SP!Enqueue, S!Dequeue, SP!Dequeue, S!Ceil, SP!Ceil,
  S!InRange, SP!InRange, S!Grant, SP!Grant, S!IsUnfinished, SP!IsUnfinished,
  S!PingOver, SP!PingOver, S!Position, SP!Position, S!MoveUp, SP!MoveUp,
  S!IsPriorPosition, SP!IsPriorPosition, S!Elements, SP!Elements, S!Deprioritize,
  SP!Deprioritize, S!PushFront, SP!PushFront, S!MoveDown, SP!MoveDown,
  S!IsPosteriorPosition, SP!IsPosteriorPosition

(* The state of the Sender.                                                  *)
LEMMA SameSenderVars ==
  UNCHANGED S!vars <=> UNCHANGED SP!vars
BY DEF
  S!vars, SP!vars, S!object, SP!object, S!timers, SP!timers, S!info, SP!info,
  S!queue, SP!queue, S!loop, SP!loop

(* The first states of the Sender.                                           *)
LEMMA SameSenderInit ==
  S!Init <=> SP!Init
BY DEF
  S!Init, SP!Init

(* Receiver::schedule.                                                       *)
LEMMA SameSchedule ==
  ASSUME NEW s, NEW m, NEW rem
  PROVE  R!Schedule(s, m, rem) = RP!Schedule(s, m, rem)
BY DEF
  R!Schedule, RP!Schedule, R!Deprioritize, RP!Deprioritize, R!PushFront,
  RP!PushFront, R!PeerKey, RP!PeerKey, R!Elements, RP!Elements, R!Prioritize,
  RP!Prioritize, R!Position, RP!Position, R!MoveDown, RP!MoveDown,
  R!IsPosteriorPosition, RP!IsPosteriorPosition, R!MoveUp, RP!MoveUp,
  R!IsPriorPosition, RP!IsPriorPosition

(* Receiver::unschedule.                                                     *)
LEMMA SameUnschedule ==
  ASSUME NEW s, NEW m, NEW rem
  PROVE  R!Unschedule(s, m, rem) = RP!Unschedule(s, m, rem)
BY DEF
  R!Unschedule, RP!Unschedule, R!Unlink, RP!Unlink, R!PeerKey, RP!PeerKey,
  R!NextOf, RP!NextOf, R!Deprioritize, RP!Deprioritize, R!Elements, RP!Elements,
  R!Position, RP!Position, R!MoveDown, RP!MoveDown, R!IsPosteriorPosition,
  RP!IsPosteriorPosition

(* Receiver::updateSchedule.                                                 *)
LEMMA SameUpdateSchedule ==
  ASSUME NEW s, NEW m, NEW rem
  PROVE  R!UpdateSchedule(s, m, rem) = RP!UpdateSchedule(s, m, rem)
BY DEF
  R!UpdateSchedule, RP!UpdateSchedule, R!Prioritize, RP!Prioritize, R!PeerKey,
  RP!PeerKey, R!Position, RP!Position, R!MoveUp, RP!MoveUp, R!IsPriorPosition,
  RP!IsPriorPosition

(* Receiver::handleDataPacket, a new message.                                *)
LEMMA SameCreateMessage ==
  ASSUME NEW m, NEW limit
  PROVE  R!CreateMessage(m, limit) <=> RP!CreateMessage(m, limit)
BY SameSchedule DEF
  R!CreateMessage, RP!CreateMessage, R!Exceeds, RP!Exceeds, R!timers, RP!timers,
  R!inbox, RP!inbox, R!loop, RP!loop, R!numExpectedPackets, RP!numExpectedPackets,
  R!Ceil, RP!Ceil

(* The end of handleDataPacket.                                              *)
LEMMA SameStorePacket ==
  ASSUME NEW m, NEW i
  PROVE  R!StorePacket(m, i) <=> RP!StorePacket(m, i)
BY DEF
  R!StorePacket, RP!StorePacket, R!Cardinality, RP!Cardinality,
  R!numExpectedPackets, RP!numExpectedPackets, R!Ceil, RP!Ceil

(* Receiver::handleDataPacket, a known message.                              *)
LEMMA SameHandleData ==
  ASSUME NEW m, NEW i
  PROVE  R!HandleData(m, i) <=> RP!HandleData(m, i)
BY SameUpdateSchedule, SameStorePacket DEF
  R!HandleData, RP!HandleData, R!NeedsGrants, RP!NeedsGrants, R!InSchedule,
  RP!InSchedule, R!PacketBytes, RP!PacketBytes, R!loop, RP!loop, R!Exceeds,
  RP!Exceeds, R!Elements, RP!Elements, R!numExpectedPackets, RP!numExpectedPackets,
  R!Ceil, RP!Ceil

(* The destruction of a message.                                             *)
LEMMA SameDestroy ==
  ASSUME NEW m
  PROVE  R!Destroy(m) <=> RP!Destroy(m)
BY SameUnschedule DEF
  R!Destroy, RP!Destroy, R!NeedsGrants, RP!NeedsGrants, R!InSchedule,
  RP!InSchedule, R!Exceeds, RP!Exceeds, R!Elements, RP!Elements,
  R!numExpectedPackets, RP!numExpectedPackets, R!Ceil, RP!Ceil

(* A turn of trySendGrants.                                                  *)
LEMMA SameGrantSlot ==
  R!GrantSlot <=> RP!GrantSlot
BY SameUnschedule DEF
  R!GrantSlot, RP!GrantSlot, R!NewGrantLimit, RP!NewGrantLimit, R!NextOf,
  RP!NextOf, R!FullyGranted, RP!FullyGranted, R!msgVars, RP!msgVars, R!timers,
  RP!timers, R!inbox, RP!inbox, R!Position, RP!Position

(* The steps of the Receiver.                                                *)
LEMMA SameReceiverNext ==
  R!Next <=> RP!Next
BY SameCreateMessage, SameHandleData, SameDestroy, SameGrantSlot DEF
  R!Next, RP!Next, R!TrySendGrants, RP!TrySendGrants, R!ReceiveMessage,
  RP!ReceiveMessage, R!ReceivePacket, RP!ReceivePacket, R!DropMessage,
  RP!DropMessage, R!CheckMessageTimeout, RP!CheckMessageTimeout, R!StartGranting,
  RP!StartGranting, R!FinishGranting, RP!FinishGranting, R!msgVars, RP!msgVars,
  R!timers, RP!timers, R!grantVars, RP!grantVars, R!loop, RP!loop, R!Indices,
  RP!Indices, R!HandleBusy, RP!HandleBusy, R!HandlePing, RP!HandlePing,
  R!AbandonMessage, RP!AbandonMessage, R!MarkDropped, RP!MarkDropped, R!FirstOf,
  RP!FirstOf, R!inbox, RP!inbox, R!numExpectedPackets, RP!numExpectedPackets,
  R!Findable, RP!Findable, R!NeedsGrants, RP!NeedsGrants, R!Ceil, RP!Ceil,
  R!Exceeds, RP!Exceeds

(* The state of the Receiver.                                                *)
LEMMA SameReceiverVars ==
  UNCHANGED R!vars <=> UNCHANGED RP!vars
BY DEF
  R!vars, RP!vars, R!msgVars, RP!msgVars, R!timers, RP!timers, R!grantVars,
  RP!grantVars, R!inbox, RP!inbox, R!loop, RP!loop

(* The first states of the Receiver.                                         *)
LEMMA SameReceiverInit ==
  R!Init <=> RP!Init
BY DEF
  R!Init, RP!Init

-----------------------------------------------------------------------------
(* The components' invariants. *)

(* A step of the Sender preserves its invariant.                             *)
LEMMA SenderStep ==
  ASSUME SP!Inv, S!Next \/ UNCHANGED S!vars
  PROVE  SP!Inv'
<1>1. [SP!Next]_(SP!vars)
  BY SameSenderNext, SameSenderVars
<1>2. UnscheduledByteLimits \subseteq Nat /\ Nat \subseteq Nat /\ Nat \subseteq Nat
  BY LimitAssumption
<1> QED BY <1>1, <1>2, MessageAssumption, LengthAssumption, PacketAssumption,
           OptionAssumption, SP!NextInv

(* A step of the Receiver preserves its invariant.                           *)
LEMMA ReceiverStep ==
  ASSUME RP!Inv, R!Next \/ UNCHANGED R!vars
  PROVE  RP!Inv'
<1>1. [RP!Next]_(RP!vars)
  BY SameReceiverNext, SameReceiverVars
<1>2. Nat \subseteq Nat
  OBVIOUS
<1> QED BY <1>1, <1>2, PeerAssumption, LengthAssumption, PacketAssumption,
           PolicyAssumption, RP!NextInv

(* The first states satisfy the invariants of the components.                *)
LEMMA ComponentsInit ==
  ASSUME S!Init, R!Init
  PROVE  SP!Inv /\ RP!Inv
<1>1. UnscheduledByteLimits \subseteq Nat /\ Nat \subseteq Nat /\ Nat \subseteq Nat
  BY LimitAssumption
<1>2. SP!Inv
  BY <1>1, SameSenderInit, MessageAssumption, LengthAssumption, PacketAssumption,
     OptionAssumption, SP!InitInv
<1>3. Nat \subseteq Nat
  OBVIOUS
<1>4. RP!Inv
  BY <1>3, SameReceiverInit, PeerAssumption, LengthAssumption, PacketAssumption,
     PolicyAssumption, RP!InitInv
<1> QED BY <1>2, <1>4

-----------------------------------------------------------------------------
(* Sequences of packets. *)

(* A nonempty channel has a head, and what is left is a channel.             *)
LEMMA ChannelHead ==
  ASSUME NEW P, NEW q \in Seq(P), q # <<>>
  PROVE  Head(q) \in P /\ Tail(q) \in Seq(P)
OBVIOUS

(* Packets join a channel.                                                   *)
LEMMA ChannelJoin ==
  ASSUME NEW P, NEW q \in Seq(P), NEW s \in Seq(P)
  PROVE  q \o s \in Seq(P)
OBVIOUS

(* A single packet.                                                          *)
LEMMA OnePacket ==
  ASSUME NEW P, NEW p \in P
  PROVE  <<p>> \in Seq(P) /\ <<>> \in Seq(P)
OBVIOUS

(* More packets are allowed.                                                 *)
LEMMA ChannelGrows ==
  ASSUME NEW P, NEW Q, P \subseteq Q, NEW q \in Seq(P)
  PROVE  q \in Seq(Q)
OBVIOUS

(* What the network may do to a channel.                                     *)
LEMMA ChannelFault ==
  ASSUME NEW P, NEW q \in Seq(P), q # <<>>,
         NEW r \in {Lost(q), Duplicated(q), Delayed(q)}
  PROVE  r \in Seq(P)
<1>1. Head(q) \in P /\ Tail(q) \in Seq(P)
  BY ChannelHead
<1>2. Lost(q) \in Seq(P)
  BY <1>1 DEF Lost
<1>3. <<Head(q)>> \in Seq(P)
  BY <1>1
<1>4. Duplicated(q) \in Seq(P)
  BY <1>3 DEF Duplicated
<1>5. Delayed(q) \in Seq(P)
  BY <1>1 DEF Delayed
<1> QED BY <1>2, <1>4, <1>5

(* A finite set of packets in order.                                         *)
LEMMA OrderedPackets ==
  ASSUME NEW P, NEW ps \in SUBSET P, IsFiniteSet(ps), NEW s \in InOrder(ps)
  PROVE  s \in Seq(P)
<1>1. Cardinality(ps) \in Nat
  BY FS_CardinalityType
<1>2. s \in [1..Cardinality(ps) -> P]
  BY DEF InOrder
<1> QED BY <1>1, <1>2

-----------------------------------------------------------------------------
(* Packets that may be sent. *)

(* The number of packets of a message.                                       *)
LEMMA NumPackets ==
  ASSUME NEW m \in Message
  PROVE  S!numPackets(m) \in Nat \ {0}
<1>1. Length[m] \in Nat \ {0} /\ PACKET_DATA_LENGTH \in Nat \ {0}
  BY LengthAssumption, PacketAssumption
<1>2. \A a \in Nat \ {0}, d \in Nat \ {0} : (a + d - 1) \div d \in Nat \ {0}
  <2> SUFFICES ASSUME NEW a \in Nat \ {0}, NEW d \in Nat \ {0}
               PROVE  (a + d - 1) \div d \in Nat \ {0}
    OBVIOUS
  <2> DEFINE n == (a + d - 1) \div d
  <2>1. n \in Int /\ d * n <= a + d - 1 /\ a + d - 1 < d * n + d
    OBVIOUS
  <2>2. n # 0
    BY <2>1
  <2>3. ASSUME n < 0 PROVE FALSE
    <3>1. n + 1 <= 0
      BY <2>1, <2>3
    <3>2. d * (n + 1) <= 0
      BY <2>1, <3>1
    <3> QED BY <2>1, <3>2
  <2> QED BY <2>1, <2>2, <2>3
<1> QED BY <1>1, <1>2 DEF S!numPackets, S!Ceil

(* S!Ceil gives natural numbers.                                             *)
LEMMA CeilNat ==
  ASSUME NEW b \in Nat
  PROVE  S!Ceil(b) \in Nat
BY PacketAssumption DEF S!Ceil

(* DATA of a message that was sent.                                          *)
LEMMA DataSound ==
  ASSUME NEW m \in Message, NEW limit \in Nat, NEW i \in Nat, i < S!numPackets(m)
  PROVE  /\ Started(m) => Data(m, limit, i) \in Inbound
         /\ Started(m)' => Data(m, limit, i) \in Inbound'
<1>1. Data(m, limit, i) \in Packet
  BY DEF Data, Packet
<1>2. Data(m, limit, i).message = m /\ Data(m, limit, i).index = i
  BY DEF Data
<1>3. Started(m) => Data(m, limit, i) \in Inbound
  BY <1>1, <1>2 DEF Inbound
<1>4. Started(m)' => Data(m, limit, i) \in Inbound'
  BY <1>1, <1>2 DEF Inbound, Started
<1> QED BY <1>3, <1>4

(* Control packets other than DONE.                                          *)
LEMMA ControlSound ==
  ASSUME NEW m \in Message, NEW op \in {"ERROR", "UNKNOWN", "BUSY", "PING"}
  PROVE  /\ Control(op, m) \in Inbound /\ Control(op, m) \in Inbound'
         /\ Control(op, m) \in Outbound
<1>1. Control(op, m) \in Packet /\ Control(op, m).opcode = op
  BY DEF Control, Packet
<1>2. op # "DATA" /\ op # "DONE"
  OBVIOUS
<1> QED BY <1>1, <1>2 DEF Inbound, Outbound

(* GRANT.                                                                    *)
LEMMA GrantSound ==
  ASSUME NEW m \in Message, NEW b \in Nat
  PROVE  GrantPacket(m, b) \in Outbound
<1>1. GrantPacket(m, b) \in Packet /\ GrantPacket(m, b).opcode = "GRANT"
  BY DEF GrantPacket, Packet
<1> QED BY <1>1 DEF Outbound

(* RESEND.                                                                   *)
LEMMA ResendSound ==
  ASSUME NEW m \in Message, NEW i \in Nat, NEW n \in Nat \ {0}
  PROVE  ResendPacket(m, i, n) \in Outbound
<1>1. ResendPacket(m, i, n) \in Packet /\ ResendPacket(m, i, n).opcode = "RESEND"
  BY DEF ResendPacket, Packet
<1> QED BY <1>1 DEF Outbound

(* The RESENDs for a finite set of indices.                                  *)
LEMMA ResendsSound ==
  ASSUME NEW m \in Message, NEW indices \in SUBSET Nat, IsFiniteSet(indices),
         NEW s \in InOrder(ResendPackets(m, indices))
  PROVE  s \in Seq(Outbound)
<1> DEFINE ns == 1..Cardinality(indices)
           all == {ResendPacket(m, i, n) : i \in indices, n \in ns}
           f == [x \in indices \X ns |-> ResendPacket(m, x[1], x[2])]
<1>1. Cardinality(indices) \in Nat
  BY FS_CardinalityType
<1>2. IsFiniteSet(ns)
  BY <1>1, FS_Interval
<1>3. IsFiniteSet(indices \X ns)
  BY <1>2, FS_Product
<1>4. f \in Surjection(indices \X ns, all)
  <2>1. f \in [indices \X ns -> all]
    OBVIOUS
  <2>2. ASSUME NEW p \in all PROVE \E x \in indices \X ns : f[x] = p
    <3>1. PICK i \in indices, n \in ns : p = ResendPacket(m, i, n)
      OBVIOUS
    <3>2. <<i, n>> \in indices \X ns /\ f[<<i, n>>] = p
      BY <3>1
    <3> QED BY <3>2
  <2> QED BY <2>1, <2>2 DEF Surjection
<1>5. IsFiniteSet(all)
  BY <1>3, <1>4, FS_Surjection
<1>6. ResendPackets(m, indices) \subseteq all
  BY DEF ResendPackets
<1>7. IsFiniteSet(ResendPackets(m, indices))
  BY <1>5, <1>6, FS_Subset
<1>8. all \subseteq Outbound
  BY <1>1, ResendSound
<1> QED BY <1>6, <1>7, <1>8, OrderedPackets

(* The answers to a RESEND.                                                  *)
LEMMA ResendAnswersSound ==
  ASSUME NEW m \in Message, Started(m), NEW i \in Nat, NEW n \in Nat,
         unscheduledIndexLimit \in [Message -> Nat], packetsSent \in [Message -> Nat],
         NEW s \in ResendAnswers(m, i, n)
  PROVE  s \in Seq(Inbound)
<1> DEFINE indices == S!Resent(m, i, n)
           ps == DataPackets(m, indices)
           f == [j \in indices |-> Data(m, unscheduledIndexLimit[m], j)]
<1>1. CASE ~S!InRange(m, i, n) \/ i >= packetsSent[m]
  <2>1. s = <<>> \/ s = <<Control("BUSY", m)>>
    BY <1>1 DEF ResendAnswers
  <2> QED BY <2>1, ControlSound, OnePacket
<1>2. CASE S!InRange(m, i, n) /\ ~(i >= packetsSent[m])
  <2>1. S!numPackets(m) \in Nat /\ i + n <= S!numPackets(m)
    BY <1>2, NumPackets DEF S!InRange
  <2>2. indices \subseteq i..(i + n - 1)
    BY <1>2 DEF S!Resent
  <2>3. IsFiniteSet(indices)
    <3>1. IsFiniteSet(i..(i + n - 1))
      BY FS_Interval
    <3> QED BY <2>2, <3>1, FS_Subset
  <2>4. f \in Surjection(indices, ps)
    BY DEF Surjection, DataPackets
  <2>5. IsFiniteSet(ps)
    BY <2>3, <2>4, FS_Surjection
  <2>6. \A j \in indices : j \in Nat /\ j < S!numPackets(m)
    BY <2>1, <2>2
  <2>7. unscheduledIndexLimit[m] \in Nat
    OBVIOUS
  <2>8. ps \subseteq Inbound
    BY <2>6, <2>7, DataSound DEF DataPackets
  <2>9. s \in InOrder(ps)
    BY <1>2 DEF ResendAnswers
  <2> QED BY <2>5, <2>8, <2>9, OrderedPackets
<1> QED BY <1>1, <1>2

-----------------------------------------------------------------------------
(* What a step means to the service. *)

(* The values of status.                                                     *)
Statuses == [Message -> {"NOT_STARTED", "IN_PROGRESS", "SENT", "COMPLETED", "FAILED", "CANCELED"}]

(* Whether a step is one of the service or invisible to it.                  *)
Serves == [Service!ServiceNext]_(Service!serviceVars)

(* The applications see nothing.                                             *)
LEMMA Invisible ==
  ASSUME status \in Statuses, UNCHANGED <<delivered, copies, replies>>,
         \/ UNCHANGED status
         \/ \E m \in Message, s \in {"IN_PROGRESS", "SENT"} :
              status[m] \in {"IN_PROGRESS", "SENT"} /\ status' = [status EXCEPT ![m] = s]
         \/ \E m \in Message : status' = [status EXCEPT ![m] = status[m]]
  PROVE  Serves
<1>1. \A m \in Message : (IF status'[m] \in {"IN_PROGRESS", "SENT"} THEN "PENDING" ELSE status'[m])
                       = (IF status[m] \in {"IN_PROGRESS", "SENT"} THEN "PENDING" ELSE status[m])
  BY DEF Statuses
<1>2. UNCHANGED Service!serviceVars
  BY <1>1 DEF Service!serviceVars
<1> QED BY <1>2 DEF Serves

(* The outcome of one message changes.                                       *)
LEMMA OutcomeChanges ==
  ASSUME status \in Statuses, UNCHANGED <<delivered, copies, replies>>,
         NEW m \in Message, NEW to, status' = [status EXCEPT ![m] = to],
         to \notin {"IN_PROGRESS", "SENT"},
         NEW from, (IF status[m] \in {"IN_PROGRESS", "SENT"} THEN "PENDING" ELSE status[m]) \in from
  PROVE  Service!Become(m, from, to)
<1> DEFINE Seen(x) == IF x \in {"IN_PROGRESS", "SENT"} THEN "PENDING" ELSE x
           outcome == [x \in Message |-> Seen(status[x])]
<1>1. status'[m] = to /\ \A x \in Message : x # m => status'[x] = status[x]
  BY DEF Statuses
<1>2. Seen(to) = to
  OBVIOUS
<1>3. [x \in Message |-> Seen(status'[x])] = [outcome EXCEPT ![m] = to]
  BY <1>1, <1>2
<1> QED BY <1>3 DEF Service!Become

(* OutMessage::send.                                                         *)
LEMMA ServesSend ==
  ASSUME status \in Statuses, UNCHANGED <<delivered, copies, replies>>, NEW m \in Message,
         status[m] = "NOT_STARTED", NEW s \in {"IN_PROGRESS", "SENT"},
         status' = [status EXCEPT ![m] = s]
  PROVE  Serves
<1> DEFINE Seen(x) == IF x \in {"IN_PROGRESS", "SENT"} THEN "PENDING" ELSE x
           outcome == [x \in Message |-> Seen(status[x])]
<1>1. status'[m] = s /\ \A x \in Message : x # m => status'[x] = status[x]
  BY DEF Statuses
<1>2. [x \in Message |-> Seen(status'[x])] = [outcome EXCEPT ![m] = "PENDING"]
  BY <1>1
<1>3. outcome[m] \in {"NOT_STARTED"}
  OBVIOUS
<1>4. Service!Send(m)
  BY <1>2, <1>3 DEF Service!Send, Service!Become
<1> QED BY <1>4 DEF Serves, Service!ServiceNext

(* DONE arrives.                                                             *)
LEMMA ServesComplete ==
  ASSUME status \in Statuses, UNCHANGED <<delivered, copies, replies>>, NEW m \in Message,
         status[m] = "SENT", "DONE" \in replies[m],
         status' = [status EXCEPT ![m] = "COMPLETED"]
  PROVE  Serves
<1>1. Service!Become(m, {"PENDING"}, "COMPLETED")
  BY OutcomeChanges
<1> QED BY <1>1 DEF Serves, Service!ServiceNext, Service!Complete

(* The message fails.                                                        *)
LEMMA ServesFail ==
  ASSUME status \in Statuses, UNCHANGED <<delivered, copies, replies>>, NEW m \in Message,
         status[m] \in {"IN_PROGRESS", "SENT", "CANCELED"},
         status' = [status EXCEPT ![m] = "FAILED"]
  PROVE  Serves
<1>1. Service!Become(m, {"PENDING", "CANCELED"}, "FAILED")
  BY OutcomeChanges
<1> QED BY <1>1 DEF Serves, Service!ServiceNext, Service!Fail

(* OutMessage::cancel.                                                       *)
LEMMA ServesCancel ==
  ASSUME status \in Statuses, UNCHANGED <<delivered, copies, replies>>, NEW m \in Message,
         status[m] # "NOT_STARTED",
         status' = [status EXCEPT ![m] = "CANCELED"]
  PROVE  Serves
<1>1. (IF status[m] \in {"IN_PROGRESS", "SENT"} THEN "PENDING" ELSE status[m])
        \in Service!Outcome \ {"NOT_STARTED"}
  BY DEF Statuses, Service!Outcome
<1>2. Service!Become(m, Service!Outcome \ {"NOT_STARTED"}, "CANCELED")
  BY <1>1, OutcomeChanges
<1> QED BY <1>2 DEF Serves, Service!ServiceNext, Service!Cancel

(* The receiving application gets, answers or releases a message.            *)
LEMMA ServesReceiver ==
  ASSUME UNCHANGED status, NEW m \in Message,
         \/ /\ Started(m) /\ copies[m] = 0
            /\ copies' = [copies EXCEPT ![m] = 1] /\ UNCHANGED replies
         \/ /\ copies[m] = 1 /\ copies' = [copies EXCEPT ![m] = 0] /\ UNCHANGED replies
         \/ /\ copies[m] = 1 /\ UNCHANGED copies
            /\ \E r \in {"DONE", "ERROR"} : replies' = [replies EXCEPT ![m] = @ \cup {r}]
  PROVE  Serves
<1> DEFINE outcome == [x \in Message |-> IF status[x] \in {"IN_PROGRESS", "SENT"} THEN "PENDING"
                                                                               ELSE status[x]]
<1>1. UNCHANGED outcome
  OBVIOUS
<1>2. CASE /\ Started(m) /\ copies[m] = 0
           /\ copies' = [copies EXCEPT ![m] = 1] /\ UNCHANGED replies
  <2>1. outcome[m] # "NOT_STARTED"
    BY <1>2 DEF Started
  <2>2. Service!Deliver(m)
    BY <1>1, <1>2, <2>1 DEF Service!Deliver
  <2> QED BY <2>2 DEF Serves, Service!ServiceNext
<1>3. CASE copies[m] = 1 /\ copies' = [copies EXCEPT ![m] = 0] /\ UNCHANGED replies
  <2>1. Service!Release(m)
    BY <1>1, <1>3 DEF Service!Release
  <2> QED BY <2>1 DEF Serves, Service!ServiceNext
<1>4. ASSUME copies[m] = 1, UNCHANGED copies, NEW r \in {"DONE", "ERROR"},
             replies' = [replies EXCEPT ![m] = @ \cup {r}]
      PROVE  Serves
  <2>1. Service!Reply(m, r)
    BY <1>1, <1>4 DEF Service!Reply
  <2> QED BY <2>1 DEF Serves, Service!ServiceNext
<1> QED BY <1>2, <1>3, <1>4

-----------------------------------------------------------------------------
(* What a step means to the packets under way. *)

(* No message goes back to NOT_STARTED.                                      *)
StaysStarted == \A m \in Message : Started(m) => Started(m)'

(* What was allowed to be under way still is.                                *)
LEMMA PacketsStay ==
  /\ StaysStarted => Inbound \subseteq Inbound'
  /\ (\A m \in Message : replies[m] \subseteq replies'[m]) => Outbound \subseteq Outbound'
<1>0. ASSUME NEW p \in Packet PROVE p.message \in Message
  BY <1>0 DEF Packet
<1>1. ASSUME StaysStarted PROVE Inbound \subseteq Inbound'
  BY <1>0, <1>1 DEF StaysStarted, Inbound
<1>2. ASSUME \A m \in Message : replies[m] \subseteq replies'[m]
      PROVE  Outbound \subseteq Outbound'
  BY <1>0, <1>2 DEF Outbound
<1> QED BY <1>1, <1>2

(* As many copies as the messages in the hands of the application.           *)
Counted == copies = [m \in Message |-> IF m \in delivered THEN 1 ELSE 0]

(* A step of the sending side.                                               *)
LEMMA SenderExchange ==
  ASSUME Exchange, StaysStarted, UNCHANGED <<receiverVars, arriving, application>>,
         unscheduledIndexLimit' \in [Message -> Nat], toSender' \in Seq(Outbound),
         NEW ps \in Seq(Inbound'), toReceiver' = toReceiver \o ps
  PROVE  Exchange'
<1>1. UNCHANGED <<state, delivered, copies, replies>> /\ Inbound \subseteq Inbound'
  BY PacketsStay DEF receiverVars, application
<1>2. Outbound' = Outbound
  BY <1>1 DEF Outbound
<1>3. toReceiver' \in Seq(Inbound')
  <2>1. toReceiver \in Seq(Inbound')
    BY <1>1, ChannelGrows DEF Exchange
  <2> QED BY <2>1, ChannelJoin
<1>4. arriving' # NoPacket => arriving' \in Inbound' /\ arriving'.opcode = "DATA"
  BY <1>1 DEF Exchange
<1>5. \A m \in Message : state'[m] # "NONE" => Started(m)'
  BY <1>1 DEF Exchange, StaysStarted
<1> QED BY <1>1, <1>2, <1>3, <1>4, <1>5 DEF Exchange

(* A step of the receiving side.                                             *)
LEMMA ReceiverExchange ==
  ASSUME Exchange, UNCHANGED <<senderVars, unscheduledIndexLimit>>,
         replies' \in [Message -> SUBSET {"DONE", "ERROR"}],
         \A m \in Message : replies[m] \subseteq replies'[m],
         toReceiver' \in Seq(Inbound),
         NEW ps \in Seq(Outbound'), toSender' = toSender \o ps,
         arriving' # NoPacket => arriving' \in Inbound /\ arriving'.opcode = "DATA",
         \A m \in Message : state'[m] # "NONE" => Started(m), Counted'
  PROVE  Exchange'
<1>1. UNCHANGED status
  BY DEF senderVars
<1>2. Inbound' = Inbound /\ \A m \in Message : Started(m)' = Started(m)
  BY <1>1 DEF Inbound, Started
<1>3. toSender' \in Seq(Outbound')
  <2>1. toSender \in Seq(Outbound')
    BY PacketsStay, ChannelGrows DEF Exchange
  <2> QED BY <2>1, ChannelJoin
<1> QED BY <1>1, <1>2, <1>3 DEF Exchange, Counted

-----------------------------------------------------------------------------
(* The inductive invariant, and the steps of the sending side. *)

Inv == SP!Inv /\ RP!Inv /\ Exchange

(* Each side takes a step of its own or none, the packets under way stay      *)
(* sound, and the service is served.                                         *)
SafeStep ==
  /\ S!Next \/ UNCHANGED S!vars
  /\ R!Next \/ UNCHANGED R!vars
  /\ Exchange'
  /\ Serves

(* The fields of a packet.                                                   *)
LEMMA PacketFields ==
  ASSUME NEW p \in Packet
  PROVE  /\ p.message \in Message
         /\ p.opcode = "DATA" => p.index \in Nat /\ p.unscheduledIndexLimit \in Nat
         /\ p.opcode = "GRANT" => p.byteLimit \in Nat
         /\ p.opcode = "RESEND" => p.index \in Nat /\ p.num \in Nat
BY DEF Packet

(* The types the steps below need.                                           *)
LEMMA SenderTypes ==
  ASSUME Inv
  PROVE  /\ status \in Statuses /\ packetsSent \in [Message -> Nat]
         /\ unscheduledIndexLimit \in [Message -> Nat]
         /\ toSender \in Seq(Outbound) /\ toReceiver \in Seq(Inbound)
         /\ messageTimeout \subseteq tracked
         /\ \A m \in tracked : m \in Message /\ Started(m)
<1>1. status \in Statuses /\ packetsSent \in [Message -> Nat] /\ tracked \subseteq Message
  BY DEF Inv, SP!Inv, SP!TypeOK, SP!Status, Statuses
<1>2. messageTimeout \subseteq tracked
  BY DEF Inv, SP!Inv, SP!NoDangling
<1>3. \A m \in Message : m \in tracked => Started(m)
  BY DEF Inv, SP!Inv, SP!Lifecycle, Started
<1> QED BY <1>1, <1>2, <1>3 DEF Inv, Exchange

(* The message at trySend's iterator.                                        *)
LEMMA VisitedMessage ==
  ASSUME Inv, NEW t \in Thread, S!Visiting(t)
  PROVE  /\ it \in Message /\ status[it] = "IN_PROGRESS"
         /\ packetsGranted[it] \in Nat /\ packetsGranted[it] <= S!numPackets(it)
<1>1. ~aborted /\ pc[t] = "send" /\ it # NoMessage
  BY DEF S!Visiting
<1>2. it \in SP!Elements(sendQueue)
  BY <1>1 DEF Inv, SP!Inv, SP!IteratorValid
<1>3. it \in Message
  BY <1>1 DEF Inv, SP!Inv, SP!TypeOK
<1>4. ~\E u \in Thread : pc[u] = "marked"
  BY <1>1 DEF Inv, SP!Inv, SP!OneSender
<1>5. SP!QueueConsistent
  BY DEF Inv, SP!Inv
<1>6. status[it] = "IN_PROGRESS"
  BY <1>1, <1>2, <1>4, <1>5 DEF SP!QueueConsistent
<1>7. packetsGranted[it] <= SP!numPackets(it)
  BY <1>2 DEF Inv, SP!Inv, SP!SendAccounting
<1>8. SP!numPackets(it) = S!numPackets(it)
  BY DEF SP!numPackets, S!numPackets, SP!Ceil, S!Ceil
<1> QED BY <1>3, <1>6, <1>7, <1>8 DEF Inv, SP!Inv, SP!TypeOK

(* The state of a message changes, and not back to NOT_STARTED.              *)
LEMMA StatusChange ==
  ASSUME status \in Statuses, NEW m \in Message, NEW s, s # "NOT_STARTED",
         status' = [status EXCEPT ![m] = s]
  PROVE  StaysStarted /\ Started(m)'
BY DEF StaysStarted, Started, Statuses

(* The state of no message changes.                                          *)
LEMMA StatusKept ==
  ASSUME UNCHANGED status
  PROVE  StaysStarted
BY DEF StaysStarted, Started

(* The Receiver does not move.                                               *)
LEMMA ReceiverStays ==
  ASSUME UNCHANGED receiverVars
  PROVE  UNCHANGED R!vars /\ UNCHANGED delivered
BY DEF receiverVars, R!vars, R!msgVars, R!timers, R!grantVars, R!inbox, R!loop

(* The same for the Sender.                                                  *)
LEMMA SenderStays ==
  ASSUME UNCHANGED senderVars
  PROVE  UNCHANGED S!vars /\ UNCHANGED status
BY DEF senderVars, S!vars, S!object, S!timers, S!info, S!queue, S!loop

(* A step of the sending side that sends the packets ps.                     *)
LEMMA SenderMoves ==
  ASSUME Inv, SenderOnly, S!Next \/ UNCHANGED S!vars, StaysStarted,
         unscheduledIndexLimit' \in [Message -> Nat], toSender' \in Seq(Outbound),
         NEW ps \in Seq(Inbound'), toReceiver' = toReceiver \o ps,
         UNCHANGED <<delivered, copies, replies>> => Serves
  PROVE  SafeStep
<1>1. UNCHANGED <<receiverVars, arriving, application>>
  BY DEF SenderOnly
<1>2. UNCHANGED R!vars /\ UNCHANGED <<delivered, copies, replies>>
  BY <1>1, ReceiverStays DEF application
<1>3. Exchange'
  BY <1>1, SenderExchange DEF Inv
<1> QED BY <1>2, <1>3 DEF SafeStep

(* The same when no packet is sent.                                          *)
LEMMA SenderIsSilent ==
  ASSUME Inv, SenderOnly, S!Next \/ UNCHANGED S!vars, StaysStarted,
         unscheduledIndexLimit' \in [Message -> Nat], toSender' \in Seq(Outbound),
         toReceiver' = toReceiver \/ toReceiver' = toReceiver \o <<>>,
         UNCHANGED <<delivered, copies, replies>> => Serves
  PROVE  SafeStep
<1>1. toReceiver' = toReceiver \o <<>>
  BY SenderTypes
<1>2. <<>> \in Seq(Inbound')
  OBVIOUS
<1> QED BY <1>1, <1>2, SenderMoves

(* The packet that goes out with the headers just written.                   *)
LEMMA FirstPacketSound ==
  ASSUME NEW m \in Message, NEW b \in UnscheduledByteLimits,
         unscheduledIndexLimit \in [Message -> Nat], WriteHeaders(m, b), Started(m)'
  PROVE  unscheduledIndexLimit' \in [Message -> Nat] /\ FirstPacket(m) \in Seq(Inbound')
<1>1. S!Ceil(b) \in Nat
  BY CeilNat, LimitAssumption
<1>2. unscheduledIndexLimit' \in [Message -> Nat]
  BY <1>1 DEF WriteHeaders
<1>3. ASSUME S!numPackets(m) = 1 PROVE Data(m, unscheduledIndexLimit'[m], 0) \in Inbound'
  <2>1. unscheduledIndexLimit'[m] \in Nat /\ 0 < S!numPackets(m)
    BY <1>2, <1>3
  <2> QED BY <2>1, DataSound
<1> QED BY <1>2, <1>3 DEF FirstPacket

(* OutMessage::send                                                          *)
LEMMA SendMessageStep ==
  ASSUME Inv, NEW t \in Thread, NEW m \in Message, SendMessage(t, m)
  PROVE  SafeStep
<1>1. PICK opts \in OptionSets, b \in UnscheduledByteLimits :
        /\ S!SendMessage(t, m, opts, b)
        /\ WriteHeaders(m, b)
        /\ ToReceiver(FirstPacket(m))
        /\ SenderOnly
  BY DEF SendMessage
<1>2. S!Next
  BY <1>1 DEF S!Next, S!Application
<1>3. PICK s \in {"IN_PROGRESS", "SENT"} :
        status[m] = "NOT_STARTED" /\ status' = [status EXCEPT ![m] = s]
  BY <1>1 DEF S!SendMessage, S!SetStatus, S!SendSinglePacket
<1>4. StaysStarted /\ Started(m)'
  BY <1>3, StatusChange, SenderTypes
<1>5. unscheduledIndexLimit' \in [Message -> Nat] /\ FirstPacket(m) \in Seq(Inbound')
  BY <1>1, <1>4, SenderTypes, FirstPacketSound
<1>6. toReceiver' = toReceiver \o FirstPacket(m) /\ toSender' \in Seq(Outbound)
  BY <1>1, SenderTypes DEF ToReceiver
<1>7. UNCHANGED <<delivered, copies, replies>> => Serves
  BY <1>3, SenderTypes, ServesSend
<1> QED BY <1>1, <1>2, <1>4, <1>5, <1>6, <1>7, SenderMoves

(* Transport::alloc, OutMessage::cancel and OutMessage::release              *)
LEMMA OutMessageCallStep ==
  ASSUME Inv, NEW t \in Thread, NEW m \in Message, OutMessageCall(t, m)
  PROVE  SafeStep
<1>1. /\ S!AllocMessage(t, m) \/ S!CancelMessage(t, m)
           \/ S!DropMessage(t, m) \/ S!DeferDrop(t, m)
      /\ UNCHANGED <<network, unscheduledIndexLimit, quietSender>>
      /\ SenderOnly
  BY DEF OutMessageCall
<1>2. S!Next
  BY <1>1 DEF S!Next, S!Application
<1>3. \/ UNCHANGED status
      \/ m \in tracked /\ status' = [status EXCEPT ![m] = "CANCELED"]
  BY <1>1 DEF S!AllocMessage, S!CancelMessage, S!DropMessage, S!DeferDrop, S!SetStatus
<1>4. StaysStarted
  BY <1>3, StatusChange, StatusKept, SenderTypes
<1>5. UNCHANGED <<delivered, copies, replies>> => Serves
  <2>1. m \in tracked => status[m] # "NOT_STARTED"
    BY SenderTypes DEF Started
  <2> QED BY <1>3, <2>1, SenderTypes, Invisible, ServesCancel
<1>6. /\ unscheduledIndexLimit' \in [Message -> Nat] /\ toSender' \in Seq(Outbound)
      /\ toReceiver' = toReceiver
  BY <1>1, SenderTypes DEF network
<1> QED BY <1>1, <1>2, <1>4, <1>5, <1>6, SenderIsSilent

(* Sender::trySend                                                           *)
LEMMA TrySendStep ==
  ASSUME Inv, NEW t \in Thread, TrySend(t)
  PROVE  SafeStep
<1>1. SenderOnly /\ unscheduledIndexLimit' \in [Message -> Nat]
  BY SenderTypes DEF TrySend
<1>2. CASE S!SendPacket(t) /\ ToReceiver(<<Data(it, unscheduledIndexLimit[it], packetsSent[it])>>)
  <2>1. S!Visiting(t) /\ packetsSent[it] < packetsGranted[it] /\ UNCHANGED status
    BY <1>2 DEF S!SendPacket
  <2>2. /\ it \in Message /\ status[it] = "IN_PROGRESS"
        /\ packetsGranted[it] \in Nat /\ packetsGranted[it] <= S!numPackets(it)
    BY <2>1, VisitedMessage
  <2>3. /\ packetsSent[it] \in Nat /\ packetsSent[it] < S!numPackets(it)
        /\ unscheduledIndexLimit[it] \in Nat
    BY <2>1, <2>2, SenderTypes, NumPackets
  <2>4. StaysStarted
    BY <2>1, StatusKept
  <2>5. Data(it, unscheduledIndexLimit[it], packetsSent[it]) \in Inbound'
    <3>1. PICK m \in Message : m = it
      BY <2>2
    <3>2. Started(m)'
      BY <2>1, <2>2, <3>1 DEF Started
    <3>3. Data(m, unscheduledIndexLimit[m], packetsSent[m]) \in Inbound'
      BY <2>3, <3>1, <3>2, DataSound
    <3> QED BY <3>1, <3>3
  <2>6. <<Data(it, unscheduledIndexLimit[it], packetsSent[it])>> \in Seq(Inbound')
    BY <2>5, OnePacket
  <2>7. S!Next
    BY <1>2 DEF S!Next, S!TrySend
  <2>8. UNCHANGED <<delivered, copies, replies>> => Serves
    BY <2>1, SenderTypes, Invisible
  <2>9. toReceiver' = toReceiver \o <<Data(it, unscheduledIndexLimit[it], packetsSent[it])>>
        /\ toSender' \in Seq(Outbound)
    BY <1>2, SenderTypes DEF ToReceiver
  <2> QED BY <1>1, <2>4, <2>6, <2>7, <2>8, <2>9, SenderMoves
<1>3. CASE /\ \/ S!CheckReady(t) \/ S!TestAndSet(t) \/ S!LockQueue(t)
              \/ S!StoreSent(t) \/ S!RemoveSent(t) \/ S!NextMessage(t)
              \/ S!ReachEnd(t)
              \/ \E m \in Message : S!ProcessSent(t, m)
           /\ UNCHANGED network
  <2>1. S!Next
    BY <1>3 DEF S!Next, S!TrySend
  <2>2. \/ UNCHANGED status
        \/ S!Visiting(t) /\ status' = [status EXCEPT ![it] = "SENT"]
    BY <1>3 DEF S!CheckReady, S!TestAndSet, S!LockQueue, S!StoreSent, S!RemoveSent,
                S!NextMessage, S!ReachEnd, S!UnlockQueue, S!ProcessSent, S!SetStatus
  <2>3. S!Visiting(t) => it \in Message /\ status[it] = "IN_PROGRESS"
    BY VisitedMessage
  <2>4. StaysStarted /\ (UNCHANGED <<delivered, copies, replies>> => Serves)
    <3>1. CASE UNCHANGED status
      BY <3>1, StatusKept, SenderTypes, Invisible
    <3>2. CASE S!Visiting(t) /\ status' = [status EXCEPT ![it] = "SENT"]
      <4>1. it \in Message /\ status[it] \in {"IN_PROGRESS", "SENT"} /\ status \in Statuses
        BY <2>3, <3>2, SenderTypes
      <4>2. StaysStarted
        BY <3>2, <4>1, StatusChange
      <4>3. UNCHANGED <<delivered, copies, replies>> => Serves
        BY <3>2, <4>1, Invisible
      <4> QED BY <4>2, <4>3
    <3> QED BY <2>2, <3>1, <3>2
  <2>6. toSender' \in Seq(Outbound) /\ toReceiver' = toReceiver
    BY <1>3, SenderTypes DEF network
  <2> QED BY <1>1, <2>1, <2>4, <2>6, SenderIsSilent
<1> QED BY <1>2, <1>3 DEF TrySend

(* Sender::checkPingTimeouts                                                 *)
LEMMA CheckPingTimeoutStep ==
  ASSUME Inv, NEW t \in Thread, NEW m \in Message, CheckPingTimeout(t, m)
  PROVE  SafeStep
<1> DEFINE ps == IF S!Pinged(m) THEN <<Control("PING", m)>> ELSE <<>>
<1>1. /\ S!CheckPingTimeout(t, m) /\ SenderOnly
      /\ toReceiver' = toReceiver \o ps
      /\ unscheduledIndexLimit' \in [Message -> Nat] /\ toSender' \in Seq(Outbound)
  BY SenderTypes DEF CheckPingTimeout, ToReceiver
<1>2. S!Next
  BY <1>1 DEF S!Next, S!CheckTimeouts
<1>3. UNCHANGED status
  BY <1>1 DEF S!CheckPingTimeout
<1>4. StaysStarted /\ (UNCHANGED <<delivered, copies, replies>> => Serves)
  BY <1>3, StatusKept, SenderTypes, Invisible
<1>5. ps \in Seq(Inbound')
  <2>1. Control("PING", m) \in Inbound'
    BY ControlSound
  <2> QED BY <2>1, OnePacket
<1> QED BY <1>1, <1>2, <1>4, <1>5, SenderMoves

(* Sender::checkMessageTimeouts                                              *)
LEMMA CheckOutTimeoutStep ==
  ASSUME Inv, NEW t \in Thread, NEW m \in Message, CheckOutTimeout(t, m)
  PROVE  SafeStep
<1>1. /\ S!CheckMessageTimeout(t, m) /\ SenderOnly
      /\ UNCHANGED <<toReceiver, toSender, unscheduledIndexLimit>>
  BY DEF CheckOutTimeout
<1>2. S!Next
  BY <1>1 DEF S!Next, S!CheckTimeouts
<1>3. /\ m \in messageTimeout
      /\ status' = [status EXCEPT ![m] = IF status[m] = "COMPLETED" THEN "COMPLETED" ELSE "FAILED"]
  BY <1>1 DEF S!CheckMessageTimeout, S!SetStatus
<1>4. m \in tracked /\ status[m] # "NOT_STARTED" /\ status \in Statuses
  BY <1>3, SenderTypes DEF Started
<1>5. StaysStarted
  <2>1. PICK s \in {"COMPLETED", "FAILED"} : status' = [status EXCEPT ![m] = s]
    BY <1>3
  <2> QED BY <1>4, <2>1, StatusChange
<1>6. UNCHANGED <<delivered, copies, replies>> => Serves
  <2>1. CASE status[m] \in {"COMPLETED", "FAILED"}
    <3>1. status' = [status EXCEPT ![m] = status[m]]
      BY <1>3, <2>1
    <3> QED BY <1>4, <3>1, Invisible
  <2>2. CASE status[m] \in {"IN_PROGRESS", "SENT", "CANCELED"}
    <3>1. status' = [status EXCEPT ![m] = "FAILED"]
      BY <1>3, <2>2
    <3> QED BY <1>4, <2>2, <3>1, ServesFail
  <2>3. status[m] \in {"IN_PROGRESS", "SENT", "CANCELED", "COMPLETED", "FAILED"}
    BY <1>4 DEF Statuses
  <2> QED BY <2>1, <2>2, <2>3
<1>7. /\ unscheduledIndexLimit' \in [Message -> Nat] /\ toSender' \in Seq(Outbound)
      /\ toReceiver' = toReceiver
  BY <1>1, SenderTypes
<1> QED BY <1>1, <1>2, <1>5, <1>6, <1>7, SenderIsSilent

(* A handler of the Sender that sends nothing and leaves the headers alone.  *)
LEMMA HandlerStep ==
  ASSUME Inv, SenderOnly, NEW t \in Thread, NEW m \in Message,
         S!Receive(t, m) \/ UNCHANGED senderVars,
         toReceiver' = toReceiver \o <<>>, UNCHANGED unscheduledIndexLimit,
         toSender' \in Seq(Outbound),
         \/ UNCHANGED status
         \/ /\ status[m] \in {"IN_PROGRESS", "SENT"}
            /\ status' = [status EXCEPT ![m] = "FAILED"]
         \/ /\ status[m] = "SENT" /\ "DONE" \in replies[m]
            /\ status' = [status EXCEPT ![m] = "COMPLETED"]
  PROVE  SafeStep
<1>1. S!Next \/ UNCHANGED S!vars
  BY SenderStays DEF S!Next
<1>2. status \in Statuses /\ unscheduledIndexLimit' \in [Message -> Nat]
  BY SenderTypes
<1>3. StaysStarted
  BY <1>2, StatusChange, StatusKept
<1>4. UNCHANGED <<delivered, copies, replies>> => Serves
  BY <1>2, Invisible, ServesFail, ServesComplete
<1> QED BY <1>1, <1>2, <1>3, <1>4, SenderIsSilent

(* TransportImpl::processPacket, a packet for the Sender                     *)
LEMMA SenderReceivesStep ==
  ASSUME Inv, NEW t \in Thread, SenderReceives(t)
  PROVE  SafeStep
<1> DEFINE p == Head(toSender)
           m == p.message
<1>1. toSender # <<>> /\ toSender' = Tail(toSender) /\ SenderOnly
  BY DEF SenderReceives
<1>2. p \in Outbound /\ toSender' \in Seq(Outbound)
  BY <1>1, SenderTypes, ChannelHead
<1>3. p \in Packet /\ (p.opcode = "DONE" => "DONE" \in replies[m])
  BY <1>2 DEF Outbound
<1>4. /\ m \in Message
      /\ p.opcode = "GRANT" => p.byteLimit \in Nat
      /\ p.opcode = "RESEND" => p.index \in Nat /\ p.num \in Nat
  BY <1>3, PacketFields
<1>5. \/ /\ p.opcode = "DONE" /\ S!HandleDone(t, m)
         /\ toReceiver' = toReceiver \o <<>> /\ UNCHANGED unscheduledIndexLimit
      \/ /\ p.opcode = "ERROR" /\ S!HandleError(t, m)
         /\ toReceiver' = toReceiver \o <<>> /\ UNCHANGED unscheduledIndexLimit
      \/ /\ p.opcode = "GRANT" /\ S!HandleGrant(t, m, p.byteLimit)
         /\ toReceiver' = toReceiver \o <<>> /\ UNCHANGED unscheduledIndexLimit
      \/ /\ p.opcode = "RESEND" /\ S!HandleResend(t, m, p.index, p.num)
         /\ \E ps \in ResendAnswers(m, p.index, p.num) : toReceiver' = toReceiver \o ps
         /\ UNCHANGED unscheduledIndexLimit
      \/ /\ S!HandleUnknownNoRetry(t, m)
         /\ toReceiver' = toReceiver \o <<>> /\ UNCHANGED unscheduledIndexLimit
      \/ \E b \in UnscheduledByteLimits :
           /\ S!HandleUnknownRestart(t, m, b) /\ WriteHeaders(m, b)
           /\ toReceiver' = toReceiver \o FirstPacket(m)
      \/ /\ toReceiver' = toReceiver \o <<>> /\ UNCHANGED unscheduledIndexLimit
         /\ UNCHANGED senderVars
  BY DEF SenderReceives
<1> HIDE DEF p
<1>6. CASE /\ p.opcode = "DONE" /\ S!HandleDone(t, m)
           /\ toReceiver' = toReceiver \o <<>> /\ UNCHANGED unscheduledIndexLimit
  <2>1. status[m] = "SENT" /\ status' = [status EXCEPT ![m] = "COMPLETED"]
    BY <1>6 DEF S!HandleDone, S!SetStatus
  <2>2. S!Receive(t, m)
    BY <1>6 DEF S!Receive
  <2> QED BY <1>1, <1>2, <1>3, <1>4, <1>6, <2>1, <2>2, HandlerStep
<1>7. CASE /\ p.opcode = "ERROR" /\ S!HandleError(t, m)
           /\ toReceiver' = toReceiver \o <<>> /\ UNCHANGED unscheduledIndexLimit
  <2>1. status[m] = "SENT" /\ status' = [status EXCEPT ![m] = "FAILED"]
    BY <1>7 DEF S!HandleError, S!SetStatus
  <2>2. S!Receive(t, m)
    BY <1>7 DEF S!Receive
  <2> QED BY <1>1, <1>2, <1>4, <1>7, <2>1, <2>2, HandlerStep
<1>8. CASE /\ p.opcode = "GRANT" /\ S!HandleGrant(t, m, p.byteLimit)
           /\ toReceiver' = toReceiver \o <<>> /\ UNCHANGED unscheduledIndexLimit
  <2>1. UNCHANGED status
    BY <1>8 DEF S!HandleGrant
  <2>2. S!Receive(t, m)
    BY <1>4, <1>8 DEF S!Receive
  <2> QED BY <1>1, <1>2, <1>4, <1>8, <2>1, <2>2, HandlerStep
<1>9. CASE /\ p.opcode = "RESEND" /\ S!HandleResend(t, m, p.index, p.num)
           /\ \E ps \in ResendAnswers(m, p.index, p.num) : toReceiver' = toReceiver \o ps
           /\ UNCHANGED unscheduledIndexLimit
  <2>1. PICK ps \in ResendAnswers(m, p.index, p.num) : toReceiver' = toReceiver \o ps
    BY <1>9
  <2>2. UNCHANGED status /\ m \in tracked
    BY <1>9 DEF S!HandleResend
  <2>3. p.index \in Nat /\ p.num \in Nat /\ Started(m) /\ S!numPackets(m) \in Nat
    BY <1>4, <1>9, <2>2, SenderTypes, NumPackets
  <2>4. ps \in Seq(Inbound)
    BY <1>4, <2>1, <2>3, SenderTypes, ResendAnswersSound
  <2>5. StaysStarted
    BY <2>2, StatusKept
  <2>6. ps \in Seq(Inbound')
    BY <2>4, <2>5, PacketsStay, ChannelGrows
  <2>7. S!Receive(t, m)
    <3>1. CASE p.index <= S!numPackets(m)
      BY <1>9, <2>3, <3>1 DEF S!Receive
    <3>2. CASE p.index > S!numPackets(m)
      <4>1. ~S!InRange(m, p.index, p.num) /\ ~S!InRange(m, S!numPackets(m), p.num)
        BY <2>3, <3>2 DEF S!InRange
      <4>2. S!HandleResend(t, m, S!numPackets(m), p.num)
        BY <1>9, <4>1 DEF S!HandleResend
      <4> QED BY <2>3, <4>2 DEF S!Receive
    <3> QED BY <2>3, <3>1, <3>2
  <2>8. S!Next
    BY <1>4, <2>7 DEF S!Next
  <2>9. UNCHANGED <<delivered, copies, replies>> => Serves
    BY <2>2, SenderTypes, Invisible
  <2>10. unscheduledIndexLimit' \in [Message -> Nat]
    BY <1>9, SenderTypes
  <2> QED BY <1>1, <1>2, <2>1, <2>5, <2>6, <2>8, <2>9, <2>10, SenderMoves
<1>10. CASE /\ S!HandleUnknownNoRetry(t, m)
            /\ toReceiver' = toReceiver \o <<>> /\ UNCHANGED unscheduledIndexLimit
  <2>1. status[m] \in {"IN_PROGRESS", "SENT"} /\ status' = [status EXCEPT ![m] = "FAILED"]
    BY <1>10 DEF S!HandleUnknownNoRetry, S!IsUnfinished, S!SetStatus
  <2>2. S!Receive(t, m)
    BY <1>10 DEF S!Receive
  <2> QED BY <1>1, <1>2, <1>4, <1>10, <2>1, <2>2, HandlerStep
<1>11. ASSUME NEW b \in UnscheduledByteLimits, S!HandleUnknownRestart(t, m, b),
              WriteHeaders(m, b), toReceiver' = toReceiver \o FirstPacket(m)
       PROVE  SafeStep
  <2>1. PICK s \in {"IN_PROGRESS", "SENT"} :
          /\ status[m] \in {"IN_PROGRESS", "SENT"}
          /\ status' = [status EXCEPT ![m] = s]
    BY <1>11 DEF S!HandleUnknownRestart, S!IsUnfinished, S!SetStatus, S!SendSinglePacket
  <2>2. PICK x \in Message : x = m
    BY <1>4
  <2>3. StaysStarted /\ Started(x)'
    BY <2>1, <2>2, SenderTypes, StatusChange
  <2>4. unscheduledIndexLimit' \in [Message -> Nat] /\ FirstPacket(x) \in Seq(Inbound')
    BY <1>11, <2>2, <2>3, SenderTypes, FirstPacketSound
  <2>5. S!Next
    BY <1>4, <1>11 DEF S!Next, S!Receive
  <2>6. UNCHANGED <<delivered, copies, replies>> => Serves
    BY <1>4, <2>1, SenderTypes, Invisible
  <2>7. toReceiver' = toReceiver \o FirstPacket(x)
    BY <1>11, <2>2
  <2> QED BY <1>1, <1>2, <2>3, <2>4, <2>5, <2>6, <2>7, SenderMoves
<1>12. CASE /\ toReceiver' = toReceiver \o <<>> /\ UNCHANGED unscheduledIndexLimit
            /\ UNCHANGED senderVars
  BY <1>1, <1>2, <1>4, <1>12, SenderStays, HandlerStep
<1> QED BY <1>5, <1>6, <1>7, <1>8, <1>9, <1>10, <1>11, <1>12

-----------------------------------------------------------------------------
(* The steps of the receiving side, and of the network. *)

(* The types the steps below need.                                           *)
LEMMA ReceiverTypes ==
  ASSUME Inv
  PROVE  /\ bytesGranted \in [Message -> Nat] /\ numUnscheduledPackets \in [Message -> Nat]
         /\ state \in [Message -> {"NONE", "IN_PROGRESS", "COMPLETED", "DROPPED"}]
         /\ receivedMessages \in Seq(Message) /\ delivered \subseteq Message
         /\ replies \in [Message -> SUBSET {"DONE", "ERROR"}]
         /\ toSender \in Seq(Outbound) /\ toReceiver \in Seq(Inbound)
         /\ \A m \in Message : state[m] # "NONE" => Started(m)
         /\ Counted
BY DEF Inv, RP!Inv, RP!TypeOK, Exchange, Counted

(* A step of the receiving side that sends the packets ps.                   *)
LEMMA ReceiverMoves ==
  ASSUME Inv, ReceiverOnly, R!Next \/ UNCHANGED R!vars,
         replies' \in [Message -> SUBSET {"DONE", "ERROR"}],
         \A m \in Message : replies[m] \subseteq replies'[m],
         toReceiver' \in Seq(Inbound),
         NEW ps \in Seq(Outbound'), toSender' = toSender \o ps,
         arriving' # NoPacket => arriving' \in Inbound /\ arriving'.opcode = "DATA",
         \A m \in Message : state'[m] # "NONE" => Started(m), Counted',
         UNCHANGED status => Serves
  PROVE  SafeStep
<1>1. UNCHANGED senderVars /\ UNCHANGED unscheduledIndexLimit
  BY DEF ReceiverOnly
<1>2. UNCHANGED S!vars /\ UNCHANGED status
  BY <1>1, SenderStays
<1>3. Exchange'
  BY <1>1, ReceiverExchange DEF Inv
<1> QED BY <1>2, <1>3 DEF SafeStep

(* The same for a step the applications do not see, with at most a new       *)
(* message m.                                                                *)
LEMMA ReceiverWorks ==
  ASSUME Inv, ReceiverOnly, R!Next \/ UNCHANGED R!vars,
         UNCHANGED <<delivered, copies, replies>>, toReceiver' \in Seq(Inbound),
         NEW ps \in Seq(Outbound), toSender' = toSender \o ps,
         arriving' # NoPacket => arriving' \in Inbound /\ arriving'.opcode = "DATA",
         NEW m \in Message, Started(m), \A x \in Message \ {m} : state'[x] # "NONE" => state[x] # "NONE"
  PROVE  SafeStep
<1>1. Outbound' = Outbound
  BY DEF Outbound
<1>2. replies' \in [Message -> SUBSET {"DONE", "ERROR"}] /\ \A x \in Message : replies[x] \subseteq replies'[x]
  BY ReceiverTypes
<1>3. \A x \in Message : state'[x] # "NONE" => Started(x)
  BY ReceiverTypes
<1>4. UNCHANGED status => Serves
  BY SenderTypes, Invisible
<1>5. Counted'
  BY ReceiverTypes DEF Counted
<1> QED BY <1>1, <1>2, <1>3, <1>4, <1>5, ReceiverMoves

(* The same without a new message.                                           *)
LEMMA ReceiverTurns ==
  ASSUME Inv, ReceiverOnly, R!Next \/ UNCHANGED R!vars,
         UNCHANGED <<delivered, copies, replies>>, toReceiver' \in Seq(Inbound),
         NEW ps \in Seq(Outbound), toSender' = toSender \o ps,
         UNCHANGED arriving,
         \A x \in Message : state'[x] # "NONE" => state[x] # "NONE"
  PROVE  SafeStep
<1>1. Outbound' = Outbound
  BY DEF Outbound
<1>2. replies' \in [Message -> SUBSET {"DONE", "ERROR"}] /\ \A x \in Message : replies[x] \subseteq replies'[x]
  BY ReceiverTypes
<1>3. \A x \in Message : state'[x] # "NONE" => Started(x)
  BY ReceiverTypes
<1>4. UNCHANGED status => Serves
  BY SenderTypes, Invisible
<1>5. arriving' # NoPacket => arriving' \in Inbound /\ arriving'.opcode = "DATA"
  BY DEF Inv, Exchange
<1>6. Counted'
  BY ReceiverTypes DEF Counted
<1> QED BY <1>1, <1>2, <1>3, <1>4, <1>5, <1>6, ReceiverMoves

(* The packets of a message, as the Sender and the Receiver count them.      *)
LEMMA SameIndices ==
  ASSUME NEW m \in Message, NEW i \in Nat
  PROVE  i \in R!Indices(m) <=> i < S!numPackets(m)
<1>1. R!numExpectedPackets(m) = S!numPackets(m)
  BY DEF R!numExpectedPackets, S!numPackets, R!Ceil, S!Ceil
<1> QED BY <1>1, NumPackets DEF R!Indices

(* Receiver::handleDataPacket adds a packet.                                 *)
LEMMA HandleDataEffect ==
  ASSUME Inv, NEW p \in Inbound, p.opcode = "DATA", R!HandleData(p.message, p.index)
  PROVE  /\ p.message \in Message /\ Started(p.message)
         /\ R!Next /\ UNCHANGED delivered
         /\ \A x \in Message \ {p.message} : state'[x] # "NONE" => state[x] # "NONE"
<1> DEFINE m == p.message
<1>1. p \in Packet /\ Started(m) /\ p.index < S!numPackets(m)
  BY DEF Inbound
<1>2. m \in Message /\ p.index \in Nat
  BY <1>1, PacketFields
<1>3. p.index \in R!Indices(m)
  BY <1>1, <1>2, SameIndices
<1>4. R!Next
  BY <1>2, <1>3 DEF R!Next, R!ReceivePacket
<1>5. UNCHANGED delivered /\ R!StorePacket(m, p.index)
  BY DEF R!HandleData
<1>6. UNCHANGED state \/ state' = [state EXCEPT ![m] = "COMPLETED"]
  BY <1>5 DEF R!StorePacket
<1>7. \A x \in Message \ {m} : state'[x] # "NONE" => state[x] # "NONE"
  BY <1>6, ReceiverTypes
<1> QED BY <1>1, <1>2, <1>4, <1>5, <1>7

(* TransportImpl::processPacket, a packet for the Receiver                   *)
LEMMA ReceiverReceivesStep ==
  ASSUME Inv, ReceiverReceives
  PROVE  SafeStep
<1> DEFINE p == Head(toReceiver)
           m == p.message
<1>1. /\ toReceiver # <<>> /\ arriving = NoPacket /\ toReceiver' = Tail(toReceiver)
      /\ UNCHANGED <<copies, replies>> /\ ReceiverOnly
  BY DEF ReceiverReceives, application
<1>2. p \in Inbound /\ toReceiver' \in Seq(Inbound)
  BY <1>1, ReceiverTypes, ChannelHead
<1>3. p \in Packet /\ (p.opcode = "DATA" => Started(m))
  BY <1>2 DEF Inbound
<1>4. m \in Message /\ (p.opcode = "DATA" => p.unscheduledIndexLimit \in Nat)
  BY <1>3, PacketFields
<1>5. \/ /\ p.opcode = "DATA" /\ R!CreateMessage(m, p.unscheduledIndexLimit)
         /\ arriving' = p /\ toSender' = toSender \o <<>>
      \/ /\ p.opcode = "DATA" /\ R!HandleData(m, p.index)
         /\ UNCHANGED arriving /\ toSender' = toSender \o <<>>
      \/ /\ R!HandleBusy(m) /\ UNCHANGED arriving /\ toSender' = toSender \o <<>>
      \/ /\ R!HandlePing(m) /\ UNCHANGED arriving
         /\ toSender' = toSender \o <<GrantPacket(m, R!PingedLimit(m))>>
      \/ /\ UNCHANGED receiverVars /\ UNCHANGED arriving
         /\ \/ toSender' = toSender \o <<Control("UNKNOWN", m)>>
            \/ toSender' = toSender \o <<>>
  BY DEF ReceiverReceives
<1> HIDE DEF p
<1>6. <<>> \in Seq(Outbound)
  OBVIOUS
<1>7. CASE /\ p.opcode = "DATA" /\ R!CreateMessage(m, p.unscheduledIndexLimit)
           /\ arriving' = p /\ toSender' = toSender \o <<>>
  <2>1. R!Next
    BY <1>4, <1>7 DEF R!Next, R!ReceivePacket
  <2>2. UNCHANGED delivered /\ state' = [state EXCEPT ![m] = "IN_PROGRESS"]
    BY <1>7 DEF R!CreateMessage, R!inbox
  <2>3. \A x \in Message \ {m} : state'[x] # "NONE" => state[x] # "NONE"
    BY <2>2, ReceiverTypes
  <2>4. arriving' # NoPacket => arriving' \in Inbound /\ arriving'.opcode = "DATA"
    BY <1>2, <1>7
  <2>5. m \in Message /\ Started(m) /\ toSender' = toSender \o <<>>
    BY <1>3, <1>4, <1>7
  <2> QED BY <1>1, <1>2, <1>6, <2>1, <2>2, <2>3, <2>4, <2>5, ReceiverWorks
<1>8. CASE /\ p.opcode = "DATA" /\ R!HandleData(m, p.index)
           /\ UNCHANGED arriving /\ toSender' = toSender \o <<>>
  <2>1. /\ R!Next /\ UNCHANGED delivered
        /\ \A x \in Message \ {m} : state'[x] # "NONE" => state[x] # "NONE"
    BY <1>2, <1>8, HandleDataEffect
  <2>2. arriving' # NoPacket => arriving' \in Inbound /\ arriving'.opcode = "DATA"
    BY <1>1, <1>8
  <2>3. m \in Message /\ Started(m) /\ toSender' = toSender \o <<>>
    BY <1>3, <1>4, <1>8
  <2> QED BY <1>1, <1>2, <1>6, <2>1, <2>2, <2>3, ReceiverWorks
<1>9. CASE R!HandleBusy(m) /\ UNCHANGED arriving /\ toSender' = toSender \o <<>>
  <2>1. R!Next
    BY <1>4, <1>9 DEF R!Next, R!ReceivePacket
  <2>2. UNCHANGED delivered /\ UNCHANGED state
    BY <1>9 DEF R!HandleBusy, R!inbox, R!msgVars
  <2> QED BY <1>1, <1>2, <1>6, <1>9, <2>1, <2>2, ReceiverTurns
<1>10. CASE /\ R!HandlePing(m) /\ UNCHANGED arriving
            /\ toSender' = toSender \o <<GrantPacket(m, R!PingedLimit(m))>>
  <2>1. R!Next
    BY <1>4, <1>10 DEF R!Next, R!ReceivePacket
  <2>2. UNCHANGED delivered /\ UNCHANGED state
    BY <1>10 DEF R!HandlePing, R!inbox, R!msgVars
  <2>3. R!PingedLimit(m) \in Nat
    BY <1>4, ReceiverTypes DEF R!PingedLimit
  <2>4. <<GrantPacket(m, R!PingedLimit(m))>> \in Seq(Outbound)
    BY <1>4, <2>3, GrantSound, OnePacket
  <2> QED BY <1>1, <1>2, <1>10, <2>1, <2>2, <2>4, ReceiverTurns
<1>11. CASE /\ UNCHANGED receiverVars /\ UNCHANGED arriving
            /\ \/ toSender' = toSender \o <<Control("UNKNOWN", m)>>
               \/ toSender' = toSender \o <<>>
  <2>1. UNCHANGED R!vars /\ UNCHANGED delivered /\ UNCHANGED state
    BY <1>11, ReceiverStays DEF receiverVars
  <2>2. <<Control("UNKNOWN", m)>> \in Seq(Outbound)
    BY <1>4, ControlSound, OnePacket
  <2> QED BY <1>1, <1>2, <1>6, <1>11, <2>1, <2>2, ReceiverTurns
<1> QED BY <1>5, <1>7, <1>8, <1>9, <1>10, <1>11

(* The rest of handleDataPacket                                              *)
LEMMA AddFirstPacketStep ==
  ASSUME Inv, AddFirstPacket
  PROVE  SafeStep
<1>1. /\ arriving # NoPacket /\ R!HandleData(arriving.message, arriving.index)
      /\ arriving' = NoPacket /\ UNCHANGED <<toReceiver, toSender, copies, replies>>
      /\ ReceiverOnly
  BY DEF AddFirstPacket, network, application
<1>2. PICK p \in Inbound : p = arriving /\ p.opcode = "DATA"
  BY <1>1 DEF Inv, Exchange
<1>3. /\ p.message \in Message /\ Started(p.message)
      /\ R!Next /\ UNCHANGED delivered
      /\ \A x \in Message \ {p.message} : state'[x] # "NONE" => state[x] # "NONE"
  BY <1>1, <1>2, HandleDataEffect
<1>4. toReceiver' \in Seq(Inbound) /\ toSender' = toSender \o <<>> /\ <<>> \in Seq(Outbound)
  BY <1>1, ReceiverTypes
<1> QED BY <1>1, <1>3, <1>4, ReceiverWorks

(* Receiver::trySendGrants                                                   *)
LEMMA TrySendGrantsStep ==
  ASSUME Inv, TrySendGrants
  PROVE  SafeStep
<1>1. UNCHANGED <<arriving, copies, replies>> /\ ReceiverOnly
  BY DEF TrySendGrants, application
<1>2. CASE (R!StartGranting \/ R!FinishGranting) /\ UNCHANGED network
  <2>1. R!Next /\ UNCHANGED delivered /\ UNCHANGED state
    BY <1>2 DEF R!Next, R!TrySendGrants, R!StartGranting, R!FinishGranting, R!inbox, R!msgVars
  <2>2. toReceiver' \in Seq(Inbound) /\ toSender' = toSender \o <<>> /\ <<>> \in Seq(Outbound)
    BY <1>2, ReceiverTypes DEF network
  <2> QED BY <1>1, <2>1, <2>2, ReceiverTurns
<1>3. ASSUME R!GrantSlot, NEW m, m = schedule.messages[peerIt][1],
             ToSender(IF bytesGranted'[m] = bytesGranted[m] THEN <<>>
                      ELSE <<GrantPacket(m, bytesGranted'[m])>>)
      PROVE  SafeStep
  <2>1. R!Next /\ UNCHANGED delivered /\ UNCHANGED state /\ granting /\ peerIt # NoPeer
    BY <1>3 DEF R!Next, R!TrySendGrants, R!GrantSlot, R!inbox, R!msgVars
  <2>2. RP!Inv'
    BY <2>1, ReceiverStep DEF Inv
  <2>3. bytesGranted' \in [Message -> Nat]
    BY <2>2 DEF RP!Inv, RP!TypeOK
  <2>4. m \in Message
    <3>1. Nat \subseteq Nat
      OBVIOUS
    <3> QED BY <1>3, <2>1, <3>1, PeerAssumption, LengthAssumption, PacketAssumption,
               PolicyAssumption, RP!SlotMessage DEF Inv
  <2>5. <<GrantPacket(m, bytesGranted'[m])>> \in Seq(Outbound) /\ <<>> \in Seq(Outbound)
    BY <2>3, <2>4, GrantSound, OnePacket
  <2>6. PICK ps \in Seq(Outbound) : toSender' = toSender \o ps
    BY <1>3, <2>5 DEF ToSender
  <2>7. toReceiver' \in Seq(Inbound)
    BY <1>3, ReceiverTypes DEF ToSender
  <2> QED BY <1>1, <2>1, <2>6, <2>7, ReceiverTurns
<1> QED BY <1>2, <1>3 DEF TrySendGrants

(* Receiver::checkResendTimeouts                                             *)
LEMMA CheckResendTimeoutStep ==
  ASSUME Inv, NEW m \in Message, CheckResendTimeout(m)
  PROVE  SafeStep
<1>1. PICK ps \in InOrder(ResendPackets(m, R!Requested(m))) : ToSender(ps)
  BY DEF CheckResendTimeout
<1>2. /\ UNCHANGED R!vars /\ UNCHANGED <<delivered, state, arriving, copies, replies>>
      /\ ReceiverOnly /\ toReceiver' \in Seq(Inbound) /\ toSender' = toSender \o ps
  BY <1>1, ReceiverStays, ReceiverTypes DEF CheckResendTimeout, ToSender, receiverVars, application
<1>3. R!GrantIndexLimit(m) \in Nat
  <2>1. bytesGranted[m] \in Nat /\ numUnscheduledPackets[m] \in Nat
    BY ReceiverTypes
  <2>2. R!Ceil(bytesGranted[m]) \in Nat
    BY <2>1, PacketAssumption DEF R!Ceil
  <2>3. \/ R!GrantIndexLimit(m) = R!Ceil(bytesGranted[m])
        \/ R!GrantIndexLimit(m) = numUnscheduledPackets[m]
    BY Zenon DEF R!GrantIndexLimit
  <2> QED BY <2>1, <2>2, <2>3
<1>4. R!Requested(m) \subseteq 0..(R!GrantIndexLimit(m) - 1)
  BY DEF R!Requested
<1>5. IsFiniteSet(R!Requested(m)) /\ R!Requested(m) \in SUBSET Nat
  <2>1. IsFiniteSet(0..(R!GrantIndexLimit(m) - 1))
    BY <1>3, FS_Interval
  <2> QED BY <1>3, <1>4, <2>1, FS_Subset
<1>6. ps \in Seq(Outbound)
  BY <1>1, <1>5, ResendsSound
<1> QED BY <1>2, <1>6, ReceiverTurns

(* Receiver::checkMessageTimeouts                                            *)
LEMMA CheckInTimeoutStep ==
  ASSUME Inv, NEW m \in Message, CheckInTimeout(m)
  PROVE  SafeStep
<1>1. /\ R!AbandonMessage(m) \/ R!MarkDropped(m)
      /\ UNCHANGED <<toReceiver, toSender, arriving, copies, replies>> /\ ReceiverOnly
  BY DEF CheckInTimeout, application
<1>2. R!Next /\ UNCHANGED delivered
  BY <1>1 DEF R!Next, R!CheckMessageTimeout, R!AbandonMessage, R!MarkDropped, R!inbox
<1>3. \A x \in Message : state'[x] # "NONE" => state[x] # "NONE"
  <2>1. CASE R!AbandonMessage(m)
    BY <2>1, ReceiverTypes DEF R!AbandonMessage, R!Destroy
  <2>2. CASE R!MarkDropped(m)
    <3>1. m \in inMessageTimeout /\ state' = [state EXCEPT ![m] = "DROPPED"]
      BY <2>2 DEF R!MarkDropped
    <3>2. state[m] # "NONE"
      BY <3>1 DEF Inv, RP!Inv, RP!MessageOK
    <3> QED BY <3>1, <3>2, ReceiverTypes
  <2> QED BY <1>1, <2>1, <2>2
<1>4. toReceiver' \in Seq(Inbound) /\ toSender' = toSender \o <<>> /\ <<>> \in Seq(Outbound)
  BY <1>1, ReceiverTypes
<1> QED BY <1>1, <1>2, <1>3, <1>4, ReceiverTurns

(* Transport::receive                                                        *)
LEMMA ReceiveMessageStep ==
  ASSUME Inv, ReceiveMessage
  PROVE  SafeStep
<1> DEFINE m == Head(receivedMessages)
<1>1. /\ R!ReceiveMessage /\ UNCHANGED <<toReceiver, toSender, arriving, replies>> /\ ReceiverOnly
      /\ copies' = [copies EXCEPT ![m] = @ + 1]
  BY DEF ReceiveMessage, network
<1>2. /\ R!Next /\ receivedMessages # <<>> /\ UNCHANGED state
      /\ delivered' = delivered \cup {m}
  BY <1>1 DEF R!Next, R!ReceiveMessage, R!msgVars
<1>3. m \in Message /\ m \in RP!Elements(receivedMessages)
  BY <1>2, ReceiverTypes DEF RP!Elements
<1>4. m \notin delivered /\ state[m] # "NONE"
  BY <1>3 DEF Inv, RP!Inv, RP!MessageOK
<1>5. Started(m)
  BY <1>3, <1>4, ReceiverTypes
<1> HIDE DEF m
<1>6. copies[m] = 0 /\ copies' = [copies EXCEPT ![m] = 1]
  <2>1. copies[m] = 0
    BY <1>3, <1>4, ReceiverTypes DEF Counted
  <2>2. copies[m] + 1 = 1
    BY <2>1
  <2> QED BY <1>1, <2>1, <2>2
<1>7. UNCHANGED status => Serves
  BY <1>1, <1>3, <1>5, <1>6, ServesReceiver
<1>8. /\ replies' \in [Message -> SUBSET {"DONE", "ERROR"}]
      /\ \A x \in Message : replies[x] \subseteq replies'[x]
      /\ \A x \in Message : state'[x] # "NONE" => Started(x)
      /\ arriving' # NoPacket => arriving' \in Inbound /\ arriving'.opcode = "DATA"
  BY <1>1, <1>2, ReceiverTypes DEF Inv, Exchange
<1>9. toReceiver' \in Seq(Inbound) /\ toSender' = toSender \o <<>> /\ <<>> \in Seq(Outbound')
  BY <1>1, ReceiverTypes
<1>10. Counted'
  BY <1>2, <1>3, <1>4, <1>6, ReceiverTypes DEF Counted
<1> QED BY <1>1, <1>2, <1>7, <1>8, <1>9, <1>10, ReceiverMoves

(* InMessage::acknowledge and InMessage::fail                                *)
LEMMA ReplyStep ==
  ASSUME Inv, NEW m \in Message, NEW r \in {"DONE", "ERROR"}, Reply(m, r)
  PROVE  SafeStep
<1>1. /\ m \in delivered /\ toSender' = toSender \o <<Control(r, m)>>
      /\ UNCHANGED toReceiver /\ replies' = [replies EXCEPT ![m] = @ \cup {r}]
      /\ UNCHANGED receiverVars /\ UNCHANGED <<arriving, copies>> /\ ReceiverOnly
  BY DEF Reply, ToSender
<1>2. UNCHANGED R!vars /\ UNCHANGED delivered /\ UNCHANGED state
  BY <1>1, ReceiverStays DEF receiverVars
<1>3. /\ replies' \in [Message -> SUBSET {"DONE", "ERROR"}]
      /\ \A x \in Message : replies[x] \subseteq replies'[x]
      /\ r \in replies'[m]
  BY <1>1, ReceiverTypes
<1>4. Control(r, m) \in Outbound'
  <2>1. /\ Control(r, m) \in Packet /\ Control(r, m).opcode = r
        /\ Control(r, m).message = m
    BY DEF Control, Packet
  <2> QED BY <1>3, <2>1 DEF Outbound
<1>5. UNCHANGED status => Serves
  <2>1. copies[m] = 1
    BY <1>1, ReceiverTypes DEF Counted
  <2> QED BY <1>1, <2>1, ServesReceiver
<1>6. /\ \A x \in Message : state'[x] # "NONE" => Started(x)
      /\ arriving' # NoPacket => arriving' \in Inbound /\ arriving'.opcode = "DATA"
      /\ toReceiver' \in Seq(Inbound) /\ <<Control(r, m)>> \in Seq(Outbound')
  BY <1>1, <1>2, <1>4, ReceiverTypes DEF Inv, Exchange
<1>7. Counted'
  BY <1>1, <1>2, ReceiverTypes DEF Counted
<1> QED BY <1>1, <1>2, <1>3, <1>5, <1>6, <1>7, ReceiverMoves

(* InMessage::release                                                        *)
LEMMA ReleaseInMessageStep ==
  ASSUME Inv, NEW m \in Message, ReleaseInMessage(m)
  PROVE  SafeStep
<1>1. /\ R!DropMessage(m) /\ UNCHANGED <<toReceiver, toSender, arriving, replies>> /\ ReceiverOnly
      /\ copies' = [copies EXCEPT ![m] = @ - 1]
  BY DEF ReleaseInMessage, network
<1>2. /\ R!Next /\ m \in delivered /\ delivered' = delivered \ {m}
      /\ state' = [state EXCEPT ![m] = "NONE"]
  BY <1>1 DEF R!Next, R!DropMessage, R!Destroy
<1>3. copies[m] = 1 /\ copies' = [copies EXCEPT ![m] = 0]
  <2>1. copies[m] = 1
    BY <1>2, ReceiverTypes DEF Counted
  <2>2. copies[m] - 1 = 0
    BY <2>1
  <2> QED BY <1>1, <2>1, <2>2
<1>4. UNCHANGED status => Serves
  BY <1>1, <1>3, ServesReceiver
<1>5. /\ replies' \in [Message -> SUBSET {"DONE", "ERROR"}]
      /\ \A x \in Message : replies[x] \subseteq replies'[x]
      /\ arriving' # NoPacket => arriving' \in Inbound /\ arriving'.opcode = "DATA"
  BY <1>1, ReceiverTypes DEF Inv, Exchange
<1>6. \A x \in Message : state'[x] # "NONE" => Started(x)
  BY <1>2, ReceiverTypes
<1>7. toReceiver' \in Seq(Inbound) /\ toSender' = toSender \o <<>> /\ <<>> \in Seq(Outbound')
  BY <1>1, ReceiverTypes
<1>8. Counted'
  BY <1>2, <1>3, ReceiverTypes DEF Counted
<1> QED BY <1>1, <1>2, <1>4, <1>5, <1>6, <1>7, <1>8, ReceiverMoves

(* A packet is lost, duplicated or delayed                                   *)
LEMMA FaultStep ==
  ASSUME Inv, Fault
  PROVE  SafeStep
<1>1. /\ UNCHANGED <<senderVars, receiverVars, arriving, unscheduledIndexLimit, application>>
      /\ \/ /\ toReceiver # <<>> /\ UNCHANGED toSender
            /\ toReceiver' \in {Lost(toReceiver), Duplicated(toReceiver), Delayed(toReceiver)}
         \/ /\ toSender # <<>> /\ UNCHANGED toReceiver
            /\ toSender' \in {Lost(toSender), Duplicated(toSender), Delayed(toSender)}
  BY DEF Fault
<1>2. toReceiver' \in Seq(Inbound) /\ toSender' \in Seq(Outbound)
  BY <1>1, ReceiverTypes, ChannelFault
<1>3. /\ UNCHANGED S!vars /\ UNCHANGED R!vars
      /\ UNCHANGED <<status, delivered, copies, replies, state>>
  BY <1>1, SenderStays, ReceiverStays DEF receiverVars, application
<1>4. Inbound' = Inbound /\ Outbound' = Outbound /\ \A m \in Message : Started(m)' = Started(m)
  BY <1>3 DEF Inbound, Outbound, Started
<1>5. Exchange'
  BY <1>1, <1>2, <1>3, <1>4 DEF Inv, Exchange
<1>6. Serves
  BY <1>3, SenderTypes, Invisible
<1> QED BY <1>3, <1>5, <1>6 DEF SafeStep

-----------------------------------------------------------------------------
(* The theorems. *)

(* Every step of the composition is safe.                                    *)
LEMMA EveryStep ==
  ASSUME Inv, Next
  PROVE  SafeStep
<1>1. ASSUME NEW t \in Thread, TrySend(t) PROVE SafeStep
  BY <1>1, TrySendStep
<1>2. ASSUME Working PROVE SafeStep
  BY <1>2, TrySendStep, TrySendGrantsStep, AddFirstPacketStep DEF Working
<1>3. ASSUME ReceiverPoll PROVE SafeStep
  BY <1>3, ReceiverReceivesStep, TrySendGrantsStep, CheckResendTimeoutStep,
     CheckInTimeoutStep DEF ReceiverPoll
<1>4. ASSUME NEW t \in Thread, SenderPoll(t) PROVE SafeStep
  BY <1>4, SenderReceivesStep, TrySendStep, CheckPingTimeoutStep, CheckOutTimeoutStep
     DEF SenderPoll
<1>5. ASSUME Application PROVE SafeStep
  BY <1>5, SendMessageStep, OutMessageCallStep, ReceiveMessageStep, ReleaseInMessageStep,
     ReplyStep DEF Application
<1> QED BY <1>2, <1>3, <1>4, <1>5, FaultStep DEF Next

(* Nothing happens.                                                          *)
LEMMA Stutter ==
  ASSUME Inv, UNCHANGED vars
  PROVE  SafeStep
<1>1. UNCHANGED <<senderVars, receiverVars, toReceiver, toSender, arriving,
                  unscheduledIndexLimit, application>>
  BY DEF vars, network
<1>2. /\ UNCHANGED S!vars /\ UNCHANGED R!vars
      /\ UNCHANGED <<status, delivered, copies, replies, state>>
  BY <1>1, SenderStays, ReceiverStays DEF receiverVars, application
<1>3. Inbound' = Inbound /\ Outbound' = Outbound /\ \A m \in Message : Started(m)' = Started(m)
  BY <1>2 DEF Inbound, Outbound, Started
<1>4. Exchange'
  BY <1>1, <1>2, <1>3 DEF Inv, Exchange
<1>5. Serves
  BY <1>2, SenderTypes, Invisible
<1> QED BY <1>2, <1>4, <1>5 DEF SafeStep

(* The invariant holds at first.                                             *)
LEMMA InitInv == Init => Inv
<1> SUFFICES ASSUME Init PROVE Inv
  OBVIOUS
<1>1. SP!Inv /\ RP!Inv
  BY ComponentsInit DEF Init
<1>2. Exchange
  BY DEF Init, R!Init, Exchange
<1> QED BY <1>1, <1>2 DEF Inv

(* Every step preserves the invariant.                                       *)
LEMMA NextInv == Inv /\ [Next]_vars => Inv' /\ SafeStep
<1> SUFFICES ASSUME Inv, [Next]_vars PROVE Inv' /\ SafeStep
  OBVIOUS
<1>1. SafeStep
  BY EveryStep, Stutter
<1>2. SP!Inv'
  BY <1>1, SenderStep DEF SafeStep, Inv
<1>3. RP!Inv'
  BY <1>1, ReceiverStep DEF SafeStep, Inv
<1> QED BY <1>1, <1>2, <1>3 DEF SafeStep, Inv

(* The invariants of both components hold in the composition, whatever the    *)
(* network does, and so does Exchange: no DATA of a message that was not     *)
(* sent, no DONE that was not given.                                         *)
THEOREM CompositionInvariant == Spec => []Inv
<1>1. Init => Inv
  BY InitInv
<1>2. Inv /\ [Next]_vars => Inv'
  BY NextInv
<1> QED BY <1>1, <1>2, PTL DEF Spec

(* Each transport sees only what its component was specified for: the         *)
(* packets that the other side sends are packets the Sender and the Receiver  *)
(* expect.                                                                   *)
THEOREM ComponentsKeepTheirSpecs == Spec => S!Spec /\ R!Spec
<1>1. Init => S!Init /\ R!Init
  BY DEF Init
<1>2. Inv /\ [Next]_vars => [S!Next]_(S!vars) /\ [R!Next]_(R!vars)
  BY NextInv DEF SafeStep
<1> QED BY <1>1, <1>2, CompositionInvariant, PTL DEF Spec, S!Spec, R!Spec

(* The two transports and the network implement the service: COMPLETED only   *)
(* after acknowledge(), never after FAILED or cancel(); COMPLETED and FAILED  *)
(* stay unless the application cancels the message; and no second copy in the *)
(* hands of the receiving application.                                       *)
THEOREM TransportServes == Spec => ImplementsService
<1>1. Init => Service!ServiceInit
  BY DEF Init, S!Init, R!Init, Service!ServiceInit
<1>2. Inv /\ [Next]_vars => [Service!ServiceNext]_(Service!serviceVars)
  BY NextInv DEF SafeStep, Serves
<1> QED BY <1>1, <1>2, CompositionInvariant, PTL DEF Spec, ImplementsService, Service!ServiceSpec
=============================================================================
