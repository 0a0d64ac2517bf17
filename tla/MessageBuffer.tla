---------------------------- MODULE MessageBuffer ----------------------------
(***************************************************************************)
(* The contents of one message: an application builds it with reserve,     *)
(* append and prepend (Sender::Message), it is split into packets of       *)
(* PACKET_DATA_LENGTH bytes, the packets arrive in any order and more than *)
(* once (Receiver::Message), and another application reads it with get and *)
(* strip.  Sender and Receiver take from here that a message of a given    *)
(* length has packets 0, 1, ... of which all but the last are full.        *)
(*                                                                         *)
(* Every byte that is written has an identity of its own, so a byte that   *)
(* is lost, repeated or moved can be told from the right one.              *)
(***************************************************************************)
EXTENDS Integers, Sequences, FiniteSets, SequencesExt

CONSTANTS
  PACKET_DATA_LENGTH,   \* bytes of data in a full packet
  MAX_MESSAGE_PACKETS,  \* entries of the packets array
  MaxCount              \* bound: bytes in one call of the application

ASSUME BufferAssumption ==
  /\ PACKET_DATA_LENGTH \in Nat \ {0}
  /\ MAX_MESSAGE_PACKETS \in Nat \ {0}
  /\ MaxCount \in Nat \ {0}

VARIABLES
  \* Sender::Message
  outState,       \* "building", "sent", "destroyed", or "discarded" unsent
  start,          \* first byte where data is
  messageLength,  \* bytes including the reserved headroom
  numPackets,     \* packets allocated
  occupied,       \* indices of the packets that are set
  packetLength,   \* packet->length, without the header
  payload,        \* the data bytes of each packet
  \* Receiver::Message
  inState,        \* "none", "IN_PROGRESS", "COMPLETED" or "destroyed"
  inStart,        \* bytes that were stripped
  inOccupied,     \* indices of the packets that arrived
  \* packets given back to the driver by the two destructors
  outReleased, inReleased,
  \* what the application wrote
  written

outVars == <<outState, start, messageLength, numPackets, occupied, packetLength, payload>>
inVars  == <<inState, inStart, inOccupied>>
bufferVars == <<outVars, inVars, outReleased, inReleased, written>>

Index  == 0..(MAX_MESSAGE_PACKETS - 1)
Offset == 0..(PACKET_DATA_LENGTH - 1)

maxMessageLength == PACKET_DATA_LENGTH * MAX_MESSAGE_PACKETS

(* What an allocated packet holds before it is written.                      *)
Garbage == 0

-----------------------------------------------------------------------------
(* The loop over packets. *)

Least(a, b) == IF a < b THEN a ELSE b

(* One turn of the loops of append, prepend, reserve and get.  It copies     *)
(* bytes of one packet: a part; done is the number of bytes in the parts     *)
(* before it.                                                                *)
PartOf(s, count) ==
  [index |-> s.index, offset |-> s.offset, done |-> s.done,
   bytes |-> Least(count - s.done, PACKET_DATA_LENGTH - s.offset)]

(* Mutant of CopyTurn: the later packets are written at the first one's      *)
(* offset.                                                                   *)
CopyTurnKeepOffset(s, count) ==
  IF s.done = count THEN s
  ELSE [index  |-> s.index + 1,
        offset |-> s.offset,
        done   |-> s.done + PartOf(s, count).bytes,
        parts  |-> s.parts \cup {PartOf(s, count)}]

CopyTurn(s, count) ==
  IF s.done = count THEN s
  ELSE [index  |-> s.index + 1,
        offset |-> 0,
        done   |-> s.done + PartOf(s, count).bytes,
        parts  |-> s.parts \cup {PartOf(s, count)}]

(* The parts into which the loops divide count bytes from a position on, in  *)
(* a turn for each packet at most.                                           *)
Chunks(position, count) ==
  LET after[i \in 0..MAX_MESSAGE_PACKETS] ==
        IF i = 0
        THEN [index  |-> position \div PACKET_DATA_LENGTH,
              offset |-> position % PACKET_DATA_LENGTH,
              done   |-> 0,
              parts  |-> {}]
        ELSE CopyTurn(after[i - 1], count)
  IN  after[MAX_MESSAGE_PACKETS].parts

Covers(c, i, o) == c.index = i /\ o \in c.offset..(c.offset + c.bytes - 1)

(* memcpy of bytes into the packets.                                         *)
Copy(chunks, bytes) ==
  [i \in Index |-> [o \in Offset |->
    IF \E c \in chunks : Covers(c, i, o)
    THEN LET c == CHOOSE c \in chunks : Covers(c, i, o)
         IN  bytes[c.done + (o - c.offset) + 1]
    ELSE payload[i][o]]]

(* getOrAllocPacket for every part, and packet->length += bytes.             *)
Extend(chunks) ==
  LET touched == {c.index : c \in chunks} IN
  /\ occupied' = occupied \cup touched
  /\ numPackets' = numPackets + Cardinality(touched \ occupied)
  /\ packetLength' = [i \in Index |->
                 IF i \in touched
                 THEN packetLength[i] + (CHOOSE c \in chunks : c.index = i).bytes
                 ELSE packetLength[i]]

(* What is left of a request at the maximum length of a message.             *)
Clip(position, count) == Least(count, maxMessageLength - position)

(* The next count bytes of the application.                                  *)
Fresh(count) == [k \in 1..count |-> Len(written) + k]

-----------------------------------------------------------------------------
(* Sender::Message. *)

BufferInit ==
  /\ outState = "building"
  /\ start = 0 /\ messageLength = 0 /\ numPackets = 0
  /\ occupied = {}
  /\ packetLength = [i \in Index |-> 0]
  /\ payload = [i \in Index |-> [o \in Offset |-> Garbage]]
  /\ inState = "none" /\ inStart = 0 /\ inOccupied = {}
  /\ outReleased = {} /\ inReleased = <<>>
  /\ written = <<>>

reserve(n) ==
  LET count == Clip(start, n) IN
  /\ outState = "building"
  /\ start = messageLength
  /\ Extend(Chunks(start, count))
  /\ start' = start + count
  /\ messageLength' = messageLength + count
  /\ UNCHANGED <<outState, payload, inVars, outReleased, inReleased, written>>

append(n) ==
  LET count  == Clip(messageLength, n)
      chunks == Chunks(messageLength, count)
  IN
  /\ outState = "building"
  /\ Extend(chunks)
  /\ payload' = Copy(chunks, Fresh(count))
  /\ messageLength' = messageLength + count
  /\ written' = written \o Fresh(count)
  /\ UNCHANGED <<outState, start, inVars, outReleased, inReleased>>

(* "The number of bytes prepended must have been previously reserved".       *)
prepend(n) ==
  /\ outState = "building"
  /\ n <= start
  /\ start' = start - n
  /\ payload' = Copy(Chunks(start - n, n), Fresh(n))
  /\ written' = Fresh(n) \o written
  /\ UNCHANGED <<outState, messageLength, numPackets, occupied, packetLength, inVars,
                 outReleased, inReleased>>

(* "Sending a Message with unused reserved space will result in undefined    *)
(* behavior": an application sends once the headroom is used up.             *)
sendMessage ==
  /\ outState = "building"
  /\ start = 0
  /\ numPackets > 0
  /\ outState' = "sent"
  /\ UNCHANGED <<start, messageLength, numPackets, occupied, packetLength, payload,
                 inVars, outReleased, inReleased, written>>

(* Sender::Message::~Message, before or after sending.                       *)
destroyOut ==
  /\ outState \in {"building", "sent"}
  /\ outState' = IF outState = "sent" THEN "destroyed" ELSE "discarded"
  /\ outReleased' = 0..(numPackets - 1)
  /\ UNCHANGED <<start, messageLength, numPackets, occupied, packetLength, payload,
                 inVars, inReleased, written>>

-----------------------------------------------------------------------------
(* Receiver::Message. *)

numExpectedPackets ==
  (messageLength + PACKET_DATA_LENGTH - 1) \div PACKET_DATA_LENGTH

setPacket(i) == inOccupied' = inOccupied \cup {i}

(* DATA packet i of a message that was sent arrives: perhaps the first, for  *)
(* which the message is constructed, perhaps a duplicate, perhaps after the  *)
(* sender dropped the message.                                               *)
handleDataPacket(i) ==
  /\ outState \in {"sent", "destroyed"}
  /\ i < numPackets
  /\ inState \in {"none", "IN_PROGRESS", "COMPLETED"}
  /\ setPacket(i)
  /\ inState' = IF Cardinality(inOccupied') < numExpectedPackets
           THEN "IN_PROGRESS" ELSE "COMPLETED"
  /\ UNCHANGED <<outVars, inStart, outReleased, inReleased, written>>

strip(n) ==
  /\ inState = "COMPLETED"
  /\ inStart' = Least(inStart + n, messageLength)
  /\ UNCHANGED <<outVars, inState, inOccupied, outReleased, inReleased, written>>

inLength == messageLength - inStart

RealOffset(offset) == offset + inStart

(* The bytes get copies out: those of the packets in front of the first that *)
(* is missing, and none from beyond the message.                             *)
get(offset, count) ==
  IF RealOffset(offset) >= messageLength
  THEN <<>>
  ELSE LET n == Least(count, messageLength - RealOffset(offset))
           chunks == Chunks(RealOffset(offset), n)
           present == {c \in chunks : \A d \in chunks :
                         d.done <= c.done => d.index \in inOccupied}
           part(k) == {c \in present : k \in (c.done + 1)..(c.done + c.bytes)}
           byte(k) == LET c == CHOOSE c \in part(k) : TRUE
                      IN  payload[c.index][c.offset + (k - 1 - c.done)]
       IN  [k \in {j \in 1..n : part(j) # {}} |-> byte(k)]

(* The packets of the region that was found last.                             *)
LastRegion(r) == [k \in 1..r.num |-> r.index + k - 1]

(* One turn of the destructor's loop over the packets array.                 *)
ReleaseTurn(r, i) ==
  IF r.packetsFound >= Cardinality(inOccupied) THEN r
  ELSE IF i \in inOccupied
  THEN [num          |-> r.num + 1,
        index        |-> IF r.num = 0 THEN i ELSE r.index,
        packetsFound |-> r.packetsFound + 1,
        released     |-> r.released]
  ELSE [num          |-> 0,
        index        |-> r.index,
        packetsFound |-> r.packetsFound,
        released     |-> r.released \o LastRegion(r)]

Released ==
  LET after[i \in 0..MAX_MESSAGE_PACKETS] ==
        IF i = 0
        THEN [num |-> 0, index |-> 0, packetsFound |-> 0, released |-> <<>>]
        ELSE ReleaseTurn(after[i - 1], i - 1)
  IN  after[MAX_MESSAGE_PACKETS]

(* Receiver::Message::~Message, when the application is done with the        *)
(* message or when it timed out.                                             *)
destroyIn ==
  /\ inState \in {"IN_PROGRESS", "COMPLETED"}
  /\ inState' = "destroyed"
  /\ inReleased' = Released.released \o LastRegion(Released)
  /\ UNCHANGED <<outVars, inStart, inOccupied, outReleased, written>>

-----------------------------------------------------------------------------
BufferNext ==
  \/ \E n \in 1..MaxCount : reserve(n) \/ append(n) \/ prepend(n) \/ strip(n)
  \/ sendMessage
  \/ \E i \in Index : handleDataPacket(i)
  \/ destroyOut
  \/ destroyIn

-----------------------------------------------------------------------------
(* Correctness. *)

(* Whatever calls built the message, its packets are 0, 1, ... without a gap  *)
(* and all but the last are full: sendMessage finds no packet missing and its *)
(* lengths add up to messageLength, and the headroom that prepend writes to   *)
(* is allocated.                                                              *)
Packetized ==
  /\ occupied = 0..(numPackets - 1)
  /\ numPackets = numExpectedPackets
  /\ \A i \in occupied :
       packetLength[i] = Least(PACKET_DATA_LENGTH, messageLength - i * PACKET_DATA_LENGTH)

(* Any range that the receiving application asks get for is that range of     *)
(* what the sending application wrote, less what was stripped, however the    *)
(* message was written, its packets arrived and it was stripped before.       *)
ReadsWritten ==
  inState = "COMPLETED" =>
    /\ Len(written) = messageLength
    /\ \A offset, count \in 0..(maxMessageLength + 1) :
         get(offset, count)
           = SubSeq(written, inStart + offset + 1,
                    Least(messageLength, inStart + offset + count))

(* The destructors give back every packet of the message to the driver, each  *)
(* once: no packet is leaked, whichever of them had arrived.                  *)
ReleasedExactly ==
  /\ outState \in {"destroyed", "discarded"} => outReleased = occupied
  /\ inState = "destroyed" =>
       /\ ToSet(inReleased) = inOccupied
       /\ Len(inReleased) = Cardinality(inOccupied)

(* A message keeps its bytes and its packets from the first append to the     *)
(* last destructor.                                                           *)
ContentsExact == Packetized /\ ReadsWritten /\ ReleasedExactly
=============================================================================
