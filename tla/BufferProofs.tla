---------------------------- MODULE BufferProofs ----------------------------
(***************************************************************************)
(* Proof that a message keeps its bytes and its packets, for packets of any  *)
(* size and any number of them.                                              *)
(*                                                                           *)
(* What the loops compute is shown first, each by an invariant of its turns: *)
(* that of append, prepend, reserve and get divides a range of bytes into    *)
(* one part for each packet that the range meets, and that of the receiver's *)
(* destructor finds every packet that arrived.  From the parts follow what   *)
(* is copied, how far the packets are filled and what is read; BufferInv     *)
(* puts them together.                                                       *)
(***************************************************************************)
EXTENDS MessageBuffer, IntrusiveListTheorems, FiniteSetTheorems

(* Where packet j begins in the message.                                     *)
At(j) == j * PACKET_DATA_LENGTH

(* Packets follow each other without a gap.                                  *)
LEMMA AtLemma ==
  /\ \A j \in Nat : At(j) \in Nat /\ At(j + 1) = At(j) + PACKET_DATA_LENGTH
  /\ At(0) = 0
  /\ At(MAX_MESSAGE_PACKETS) = maxMessageLength
  <1>1. \A j \in Nat : At(j) \in Nat /\ At(j + 1) = At(j) + PACKET_DATA_LENGTH
    BY BufferAssumption DEF At
  <1>2. At(0) = 0 /\ At(MAX_MESSAGE_PACKETS) = maxMessageLength
    BY BufferAssumption DEF At, maxMessageLength
  <1> QED  BY <1>1, <1>2

(* A packet ends before the next ones begin.                                 *)
LEMMA AtBefore ==
  ASSUME NEW i \in Nat, NEW j \in Nat, i < j
  PROVE  At(i) + PACKET_DATA_LENGTH <= At(j)
  <1>1. PICK k \in Nat : j = i + 1 + k
    <2>1. j - i - 1 \in Nat
      OBVIOUS
    <2>2. j = i + 1 + (j - i - 1)
      OBVIOUS
    <2> QED  BY <2>1, <2>2
  <1>2. At(j) = At(i) + PACKET_DATA_LENGTH + k * PACKET_DATA_LENGTH
    BY <1>1, BufferAssumption DEF At
  <1>3. k * PACKET_DATA_LENGTH \in Nat /\ At(i) \in Nat
    BY BufferAssumption DEF At
  <1> QED  BY <1>2, <1>3, BufferAssumption

(* Dividing with a remainder.                                                *)
LEMMA Division ==
  ASSUME NEW a \in Nat, NEW d \in Nat \ {0}
  PROVE  a \div d \in Nat /\ a % d \in 0..(d - 1) /\ a = (a \div d) * d + (a % d)
  <1> DEFINE q == a \div d
             r == a % d
  <1>1. q \in Nat /\ r \in 0..(d - 1) /\ a = d * q + r
    OBVIOUS
  <1> HIDE DEF q, r
  <1>2. d * q = q * d
    BY <1>1
  <1>3. q \in Nat /\ r \in 0..(d - 1) /\ a = q * d + r
    BY <1>1, <1>2
  <1> QED  BY <1>3, Zenon DEF q, r

(* A position is in one packet.                                              *)
LEMMA PositionSplit ==
  ASSUME NEW position \in Nat
  PROVE  /\ position \div PACKET_DATA_LENGTH \in Nat
         /\ position % PACKET_DATA_LENGTH \in Offset
         /\ position = At(position \div PACKET_DATA_LENGTH) + (position % PACKET_DATA_LENGTH)
  BY BufferAssumption, Division, Zenon DEF At, Offset

(* The packets below the length of the message, and their number.            *)
LEMMA ExpectedPackets ==
  ASSUME messageLength \in 0..maxMessageLength
  PROVE  /\ numExpectedPackets \in 0..MAX_MESSAGE_PACKETS
         /\ \A i \in Nat : i < numExpectedPackets <=> At(i) < messageLength
  <1> DEFINE q == numExpectedPackets
             p == PACKET_DATA_LENGTH
  <1>1. p \in Nat \ {0} /\ messageLength \in Nat /\ MAX_MESSAGE_PACKETS \in Nat
        /\ messageLength <= At(MAX_MESSAGE_PACKETS)
    BY BufferAssumption, AtLemma
  <1>2. messageLength + p - 1 \in Nat
    BY <1>1
  <1>3. PICK r \in 0..(p - 1) : q \in Nat /\ messageLength + p - 1 = At(q) + r
    <2> DEFINE a == messageLength + p - 1
    <2> HIDE DEF a
    <2>1. a \div p \in Nat /\ a % p \in Offset /\ a = At(a \div p) + (a % p)
      BY <1>2, PositionSplit, Zenon DEF a
    <2>2. q = a \div p
      BY DEF numExpectedPackets, a
    <2>3. q \in Nat /\ a = At(q) + (a % p) /\ a % p \in 0..(p - 1)
      BY <2>1, <2>2, Zenon DEF Offset
    <2> QED  BY <2>3, Zenon DEF a
  <1>4. At(q) \in Nat
    BY <1>3, AtLemma
  <1> HIDE DEF q
  <1>5. ASSUME NEW i \in Nat, i < q
        PROVE  At(i) < messageLength
    <2>1. At(i) + p <= At(q) /\ At(i) \in Nat
      BY <1>3, <1>5, AtBefore, AtLemma
    <2> QED  BY <1>1, <1>3, <1>4, <2>1
  <1>6. ASSUME NEW i \in Nat, ~(i < q)
        PROVE  ~(At(i) < messageLength)
    <2>1. CASE i = q
      BY <1>1, <1>3, <1>4, <2>1
    <2>2. CASE q < i
      <3>1. At(q) + p <= At(i) /\ At(i) \in Nat
        BY <1>3, <2>2, AtBefore, AtLemma
      <3> QED  BY <1>1, <1>3, <1>4, <3>1
    <2> QED  BY <1>3, <1>6, <2>1, <2>2
  <1>7. q <= MAX_MESSAGE_PACKETS
    <2>1. At(MAX_MESSAGE_PACKETS) \in Nat
      BY <1>1, AtLemma
    <2> QED  BY <1>1, <1>3, <1>5, <2>1
  <1> QED  BY <1>1, <1>3, <1>5, <1>6, <1>7 DEF q

(* The part of packet j among count bytes from a position on.                *)
Lo(position, j) == IF position < At(j) THEN At(j) ELSE position
Hi(end, j)      == Least(end, At(j) + PACKET_DATA_LENGTH)

Part(position, count, j) ==
  [index |-> j, offset |-> Lo(position, j) - At(j), done |-> Lo(position, j) - position,
   bytes |-> Hi(position + count, j) - Lo(position, j)]

Parted(position, count, n) ==
  {j \in 0..(n - 1) : Lo(position, j) < Hi(position + count, j)}

Parts(position, count, n) == {Part(position, count, j) : j \in Parted(position, count, n)}

(* The state of the loop after i turns.                                      *)
LoopInit(position) ==
  [index |-> position \div PACKET_DATA_LENGTH, offset |-> position % PACKET_DATA_LENGTH,
   done |-> 0, parts |-> {}]

LoopState(position, count, i, s) ==
  \/ s.done = count /\ s.parts = Parts(position, count, MAX_MESSAGE_PACKETS)
  \/ /\ s.done \in 0..(count - 1)
     /\ s.index \in Nat /\ s.index >= i
     /\ s.offset \in Offset
     /\ At(s.index) + s.offset = position + s.done
     /\ s.done = 0 \/ s.offset = 0
     /\ s.parts = Parts(position, count, s.index)

(* The loop starts with no part, in the packet of the position.              *)
LEMMA LoopStart ==
  ASSUME NEW position \in Nat, NEW count \in Nat
  PROVE  LoopState(position, count, 0, LoopInit(position))
  <1> DEFINE q == position \div PACKET_DATA_LENGTH
             o == position % PACKET_DATA_LENGTH
             s == LoopInit(position)
  <1>1. s.index = q /\ s.offset = o /\ s.done = 0 /\ s.parts = {}
    BY DEF LoopInit
  <1>2. q \in Nat /\ o \in Offset /\ position = At(q) + o
    BY PositionSplit, Zenon
  <1>3. At(q) \in Nat /\ o \in Nat /\ PACKET_DATA_LENGTH \in Nat
    BY <1>2, AtLemma, BufferAssumption DEF Offset
  <1> HIDE DEF q, o, s
  <1>4. CASE count = 0
    <2>1. ASSUME NEW j \in Parted(position, count, MAX_MESSAGE_PACKETS)
          PROVE  FALSE
      <3>1. j \in Nat /\ At(j) \in Nat /\ Lo(position, j) < Hi(position + count, j)
        BY BufferAssumption, AtLemma DEF Parted
      <3> QED  BY <1>3, <1>4, <3>1 DEF Lo, Hi, Least
    <2>2. Parts(position, count, MAX_MESSAGE_PACKETS) = {}
      BY <2>1, Zenon DEF Parts
    <2> QED  BY <1>1, <1>4, <2>2 DEF LoopState, s
  <1>5. CASE count # 0
    <2>1. ASSUME NEW j \in Parted(position, count, q)
          PROVE  FALSE
      <3>1. j \in Nat /\ j < q /\ Lo(position, j) < Hi(position + count, j)
        BY <1>2 DEF Parted
      <3>2. At(j) \in Nat /\ At(j) + PACKET_DATA_LENGTH <= At(q)
        BY <1>2, <3>1, AtLemma, AtBefore
      <3> QED  BY <1>2, <1>3, <3>1, <3>2 DEF Lo, Hi, Least
    <2>2. Parts(position, count, q) = {}
      BY <2>1, Zenon DEF Parts
    <2>3. position + 0 = position /\ 0 \in 0..(count - 1) /\ q >= 0
      BY <1>2, <1>5
    <2> QED  BY <1>1, <1>2, <2>2, <2>3 DEF LoopState, s
  <1> QED  BY <1>4, <1>5

(* One turn of the loop adds the part of one packet.                         *)
LEMMA LoopTurn ==
  ASSUME NEW position \in Nat, NEW count \in Nat, position + count <= maxMessageLength,
         NEW i \in Nat, NEW s, LoopState(position, count, i, s)
  PROVE  LoopState(position, count, i + 1, CopyTurn(s, count))
  <1> DEFINE p == PACKET_DATA_LENGTH
             m == MAX_MESSAGE_PACKETS
  <1>1. CASE s.done = count
    <2>1. s.parts = Parts(position, count, MAX_MESSAGE_PACKETS)
      BY <1>1 DEF LoopState
    <2>2. CopyTurn(s, count) = s
      BY <1>1 DEF CopyTurn
    <2> QED  BY <1>1, <2>1, <2>2 DEF LoopState
  <1>2. CASE s.done # count
    <2> DEFINE q == s.index
               o == s.offset
               d == s.done
               b == Least(count - d, p - o)
               t == CopyTurn(s, count)
    <2>1. /\ d \in Nat /\ d < count
          /\ q \in Nat /\ q >= i
          /\ o \in 0..(p - 1)
          /\ At(q) + o = position + d
          /\ d = 0 \/ o = 0
      BY <1>2 DEF LoopState, Offset
    <2>2. s.parts = Parts(position, count, q)
      BY <1>2 DEF LoopState
    <2>3. /\ t.index = q + 1 /\ t.offset = 0 /\ t.done = d + b
          /\ t.parts = s.parts \cup {[index |-> q, offset |-> o, done |-> d, bytes |-> b]}
      BY <1>2 DEF CopyTurn, PartOf
    <2> HIDE DEF q, o, d, t
    <2>4. /\ p \in Nat \ {0} /\ m \in Nat /\ At(q) \in Nat /\ At(q + 1) = At(q) + p
          /\ At(m) = maxMessageLength /\ At(m) \in Nat
      BY <2>1, BufferAssumption, AtLemma
    <2>5. b \in Nat /\ b > 0 /\ d + b <= count
      BY <2>1, <2>4 DEF Least
    <2>6. q < m
      <3>1. CASE q = m
        BY <2>1, <2>4, <3>1
      <3>2. CASE m < q
        <4>1. At(m) + p <= At(q)
          BY <2>1, <2>4, <3>2, AtBefore
        <4> QED  BY <2>1, <2>4, <4>1
      <3> QED  BY <2>1, <2>4, <3>1, <3>2
    <2>7. /\ Lo(position, q) = At(q) + o
          /\ Lo(position, q) - At(q) = o
          /\ Lo(position, q) - position = d
          /\ Hi(position + count, q) - Lo(position, q) = b
          /\ Lo(position, q) < Hi(position + count, q)
      <3>1. Lo(position, q) = At(q) + o
        BY <2>1, <2>4 DEF Lo
      <3>2. Hi(position + count, q) = At(q) + o + b
        BY <2>1, <2>4 DEF Hi, Least
      <3> QED  BY <2>1, <2>4, <2>5, <3>1, <3>2
    <2>8. Part(position, count, q) = [index |-> q, offset |-> o, done |-> d, bytes |-> b]
      BY <2>7, Zenon DEF Part
    <2>9. Parted(position, count, q + 1) = Parted(position, count, q) \cup {q}
      BY <2>1, <2>7 DEF Parted
    <2>10. t.parts = Parts(position, count, q + 1)
      BY <2>2, <2>3, <2>8, <2>9, Zenon DEF Parts
    <2> HIDE DEF b
    <2>11. CASE d + b = count
      <3>1. ASSUME NEW j \in Nat, q < j
            PROVE  ~(Lo(position, j) < Hi(position + count, j))
        <4>1. At(q) + p <= At(j) /\ At(j) \in Nat
          BY <2>1, <3>1, AtBefore, AtLemma
        <4>2. position + count <= At(q) + p
          BY <2>1, <2>4, <2>11 DEF b, Least
        <4> QED  BY <2>1, <2>4, <4>1, <4>2 DEF Lo, Hi, Least
      <3>2. Parted(position, count, m) = Parted(position, count, q + 1)
        BY <2>1, <2>4, <2>6, <3>1 DEF Parted
      <3>3. t.parts = Parts(position, count, m)
        BY <2>10, <3>2, Zenon DEF Parts
      <3> QED  BY <2>3, <2>11, <3>3 DEF LoopState, t
    <2>12. CASE d + b # count
      <3>1. b = p - o
        BY <2>1, <2>4, <2>12 DEF b, Least
      <3>2. /\ d + b \in 0..(count - 1) /\ q + 1 \in Nat /\ q + 1 >= i + 1 /\ 0 \in Offset
            /\ At(q + 1) + 0 = position + (d + b)
        BY <2>1, <2>4, <2>5, <2>12, <3>1 DEF Offset
      <3> QED  BY <2>3, <2>10, <3>2 DEF LoopState, t
    <2> QED  BY <2>11, <2>12
  <1> QED  BY <1>1, <1>2

(* The states of the loop in n turns.                                        *)
IsLoop(f, position, count, n) ==
  f = [i \in 0..n |-> IF i = 0 THEN LoopInit(position) ELSE CopyTurn(f[i - 1], count)]

(* There is one such function for every number of turns.                     *)
LEMMA LoopExists ==
  ASSUME NEW position, NEW count, NEW n \in Nat
  PROVE  \E f : IsLoop(f, position, count, n)
  <1> DEFINE T == {k \in Nat : ~(\E f : IsLoop(f, position, count, k))}
  <1>1. SUFFICES ASSUME T # {} PROVE FALSE
    BY Zenon
  <1>2. PICK k \in T : \A y \in T : k <= y
    <2>1. T \in SUBSET Nat
      OBVIOUS
    <2> HIDE DEF T
    <2> QED  BY <1>1, <2>1, LeastNat
  <1>3. k \in Nat /\ ~(\E f : IsLoop(f, position, count, k))
    OBVIOUS
  <1>4. CASE k = 0
    <2> DEFINE f == [i \in 0..0 |-> LoopInit(position)]
    <2>1. f = [i \in 0..0 |-> IF i = 0 THEN LoopInit(position) ELSE CopyTurn(f[i - 1], count)]
      OBVIOUS
    <2> HIDE DEF f
    <2>2. IsLoop(f, position, count, 0)
      BY <2>1 DEF IsLoop
    <2> QED  BY <1>3, <1>4, <2>2
  <1>5. CASE k > 0
    <2>1. k - 1 \in Nat /\ k - 1 \notin T
      BY <1>2, <1>3, <1>5
    <2>2. PICK g : IsLoop(g, position, count, k - 1)
      BY <2>1
    <2> DEFINE f == [i \in 0..k |-> IF i = k THEN CopyTurn(g[k - 1], count) ELSE g[i]]
    <2>3. ASSUME NEW i \in 0..k
          PROVE  f[i] = IF i = 0 THEN LoopInit(position) ELSE CopyTurn(f[i - 1], count)
      <3>1. CASE i = k
        <4>1. f[i - 1] = g[k - 1] /\ i # 0
          BY <1>3, <1>5, <3>1
        <4> QED  BY <3>1, <4>1
      <3>2. CASE i # k
        <4>1. i \in 0..(k - 1)
          BY <1>3, <3>2
        <4>2. g[i] = IF i = 0 THEN LoopInit(position) ELSE CopyTurn(g[i - 1], count)
          BY <2>2, <4>1 DEF IsLoop
        <4>3. i # 0 => f[i - 1] = g[i - 1]
          BY <4>1
        <4> QED  BY <3>2, <4>2, <4>3
      <3> QED  BY <3>1, <3>2
    <2>4. f = [i \in 0..k |-> f[i]]
      OBVIOUS
    <2> HIDE DEF f
    <2>5. IsLoop(f, position, count, k)
      BY <2>3, <2>4 DEF IsLoop
    <2> QED  BY <1>3, <2>5
  <1> QED  BY <1>3, <1>4, <1>5

(* Whatever the position and the count, the loop divides the bytes between   *)
(* them among the packets they are in, each part behind the one before.      *)
LEMMA ChunksLemma ==
  ASSUME NEW position \in Nat, NEW count \in Nat, position + count <= maxMessageLength
  PROVE  Chunks(position, count) = Parts(position, count, MAX_MESSAGE_PACKETS)
  <1> DEFINE m == MAX_MESSAGE_PACKETS
             f == CHOOSE f : IsLoop(f, position, count, m)
  <1>1. m \in Nat
    BY BufferAssumption
  <1>2. IsLoop(f, position, count, m)
    <2>1. \E g : IsLoop(g, position, count, m)
      BY <1>1, LoopExists, Zenon
    <2> QED  BY <2>1, Zenon
  <1>3. Chunks(position, count) = f[m].parts
    BY DEF Chunks, IsLoop, LoopInit
  <1> HIDE DEF f
  <1>4. /\ f[0] = LoopInit(position)
        /\ \A i \in 1..m : f[i] = CopyTurn(f[i - 1], count)
    BY <1>1, <1>2 DEF IsLoop
  <1> DEFINE T == {k \in 0..m : ~LoopState(position, count, k, f[k])}
  <1>5. T = {}
    <2> SUFFICES ASSUME T # {} PROVE FALSE
      OBVIOUS
    <2>1. PICK k \in T : \A y \in T : k <= y
      <3>1. T \in SUBSET Nat
        BY <1>1
      <3> HIDE DEF T
      <3> QED  BY <3>1, LeastNat
    <2>2. k \in 0..m /\ ~LoopState(position, count, k, f[k])
      OBVIOUS
    <2>3. k # 0
      BY <1>4, <2>2, LoopStart, Zenon
    <2>4. k - 1 \in Nat /\ k - 1 \in 0..m /\ k \in 1..m /\ ~(k <= k - 1) /\ k - 1 + 1 = k
      BY <1>1, <2>2, <2>3
    <2>5. LoopState(position, count, k - 1, f[k - 1])
      BY <2>1, <2>4
    <2> DEFINE l == k - 1
    <2>6. LoopState(position, count, l + 1, CopyTurn(f[l], count))
      <3> HIDE DEF l
      <3>1. l \in Nat /\ LoopState(position, count, l, f[l])
        BY <2>4, <2>5 DEF l
      <3> QED  BY <3>1, LoopTurn, Zenon
    <2> QED  BY <1>4, <2>2, <2>4, <2>6
  <1>6. LoopState(position, count, m, f[m])
    BY <1>1, <1>5
  <1> HIDE DEF T
  <1>7. f[m].done = count /\ f[m].parts = Parts(position, count, m)
    <2> SUFFICES ASSUME f[m].done # count PROVE FALSE
      BY <1>6 DEF LoopState
    <2> DEFINE q == f[m].index
               o == f[m].offset
               d == f[m].done
    <2>1. q \in Nat /\ q >= m /\ o \in Nat /\ d \in Nat /\ d < count
          /\ At(q) + o = position + d
      BY <1>6, BufferAssumption DEF LoopState, Offset
    <2> HIDE DEF q, o, d
    <2>2. At(q) \in Nat /\ At(m) \in Nat /\ At(m) = maxMessageLength
      BY <1>1, <2>1, AtLemma
    <2>3. At(m) <= At(q)
      <3>1. CASE q = m
        BY <2>2, <3>1
      <3>2. CASE m < q
        <4>1. At(m) + PACKET_DATA_LENGTH <= At(q)
          BY <1>1, <2>1, <3>2, AtBefore
        <4> QED  BY <2>2, <4>1, BufferAssumption
      <3> QED  BY <1>1, <2>1, <3>1, <3>2
    <2> QED  BY <2>1, <2>2, <2>3
  <1> QED  BY <1>3, <1>7

(* A packet has a part if it holds any of the bytes.                         *)
Spans(position, count, j) ==
  count > 0 /\ At(j) < position + count /\ position < At(j) + PACKET_DATA_LENGTH

(* The bounds of a part, and when it has any bytes.                          *)
LEMMA PartBounds ==
  ASSUME NEW position \in Nat, NEW count \in Nat, NEW j \in Index
  PROVE  /\ Lo(position, j) < Hi(position + count, j) <=> Spans(position, count, j)
         /\ Lo(position, j) \in Nat /\ Hi(position + count, j) \in Nat
         /\ At(j) \in Nat /\ j \in Nat /\ PACKET_DATA_LENGTH \in Nat \ {0}
  <1>1. At(j) \in Nat /\ j \in Nat /\ PACKET_DATA_LENGTH \in Nat \ {0}
    BY AtLemma, BufferAssumption DEF Index
  <1>2. Lo(position, j) \in Nat /\ Hi(position + count, j) \in Nat
    BY <1>1 DEF Lo, Hi, Least
  <1>3. Lo(position, j) < Hi(position + count, j) <=> Spans(position, count, j)
    BY <1>1 DEF Lo, Hi, Least, Spans
  <1> QED  BY <1>1, <1>2, <1>3

(* The chunks are the parts of the packets that hold any of the bytes.       *)
LEMMA ChunkOf ==
  ASSUME NEW position \in Nat, NEW count \in Nat, position + count <= maxMessageLength
  PROVE  /\ \A c \in Chunks(position, count) :
              /\ c.index \in Index /\ Spans(position, count, c.index)
              /\ c = Part(position, count, c.index)
         /\ \A j \in Index : Spans(position, count, j) =>
              Part(position, count, j) \in Chunks(position, count)
         /\ \A j : Part(position, count, j).index = j
  <1>1. Chunks(position, count) = Parts(position, count, MAX_MESSAGE_PACKETS)
    BY ChunksLemma, Zenon
  <1>2. \A j : Part(position, count, j).index = j
    BY DEF Part
  <1>3. ASSUME NEW c \in Chunks(position, count)
        PROVE  /\ c.index \in Index /\ Spans(position, count, c.index)
               /\ c = Part(position, count, c.index)
    <2>1. PICK j \in Parted(position, count, MAX_MESSAGE_PACKETS) : c = Part(position, count, j)
      BY <1>1, Zenon DEF Parts
    <2>2. j \in Index /\ Lo(position, j) < Hi(position + count, j)
      BY DEF Parted, Index
    <2>3. Spans(position, count, j)
      BY <2>2, PartBounds
    <2> QED  BY <1>2, <2>1, <2>2, <2>3, Zenon
  <1>4. ASSUME NEW j \in Index, Spans(position, count, j)
        PROVE  Part(position, count, j) \in Chunks(position, count)
    <2>1. Lo(position, j) < Hi(position + count, j)
      BY <1>4, PartBounds
    <2>2. j \in Parted(position, count, MAX_MESSAGE_PACKETS)
      BY <2>1, Zenon DEF Parted, Index
    <2> QED  BY <1>1, <2>2, Zenon DEF Parts
  <1> QED  BY <1>2, <1>3, <1>4, Zenon

(* The bytes that memcpy puts into a packet.                                 *)
CopiedAs(position, count, bytes, i, o) ==
  Copy(Chunks(position, count), bytes)[i][o]
    = IF position <= At(i) + o /\ At(i) + o < position + count
      THEN bytes[At(i) + o - position + 1] ELSE payload[i][o]

(* A byte in the range comes from the source, the others stay.               *)
LEMMA CopyLemma ==
  ASSUME NEW position \in Nat, NEW count \in Nat, position + count <= maxMessageLength,
         NEW bytes, NEW i \in Index, NEW o \in Offset
  PROVE  CopiedAs(position, count, bytes, i, o)
  <1> DEFINE C == Chunks(position, count)
             In == position <= At(i) + o /\ At(i) + o < position + count
             c0 == Part(position, count, i)
  <1>1. /\ \A c \in C : c.index \in Index /\ Spans(position, count, c.index)
                        /\ c = Part(position, count, c.index)
        /\ Spans(position, count, i) => c0 \in C
        /\ c0.index = i
    BY ChunkOf, Zenon
  <1>2. /\ c0.offset = Lo(position, i) - At(i) /\ c0.done = Lo(position, i) - position
        /\ c0.bytes = Hi(position + count, i) - Lo(position, i)
    BY DEF Part
  <1>3. /\ At(i) \in Nat /\ PACKET_DATA_LENGTH \in Nat \ {0} /\ o \in 0..(PACKET_DATA_LENGTH - 1)
        /\ Lo(position, i) \in Nat /\ Hi(position + count, i) \in Nat
    BY PartBounds DEF Offset
  <1> HIDE DEF C, c0
  <1>4. Spans(position, count, i) => (Covers(c0, i, o) <=> In)
    <2> SUFFICES ASSUME Spans(position, count, i) PROVE Covers(c0, i, o) <=> In
      OBVIOUS
    <2>1. Covers(c0, i, o)
            <=> Lo(position, i) <= At(i) + o /\ At(i) + o < Hi(position + count, i)
      BY <1>1, <1>2, <1>3 DEF Covers
    <2>2. (Lo(position, i) <= At(i) + o /\ At(i) + o < Hi(position + count, i)) <=> In
      BY <1>3 DEF Lo, Hi, Least
    <2> QED  BY <2>1, <2>2
  <1>5. In => Spans(position, count, i)
    BY <1>3 DEF Spans
  <1>6. \A c \in C : Covers(c, i, o) => c = c0
    BY <1>1, Zenon DEF Covers, c0
  <1>7. (\E c \in C : Covers(c, i, o)) <=> In
    <2>1. ASSUME NEW c \in C, Covers(c, i, o) PROVE In
      <3>1. c = c0 /\ Spans(position, count, i)
        BY <1>1, <1>6, <2>1, Zenon DEF Covers
      <3> QED  BY <1>4, <2>1, <3>1, Zenon
    <2>2. In => \E c \in C : Covers(c, i, o)
      BY <1>1, <1>4, <1>5, Zenon
    <2> QED  BY <2>1, <2>2, Zenon
  <1>8. Copy(C, bytes)[i][o]
          = IF \E c \in C : Covers(c, i, o)
            THEN bytes[(CHOOSE c \in C : Covers(c, i, o)).done
                       + (o - (CHOOSE c \in C : Covers(c, i, o)).offset) + 1]
            ELSE payload[i][o]
    BY Zenon DEF Copy
  <1>9. In => (CHOOSE c \in C : Covers(c, i, o)) = c0
    BY <1>6, <1>7, Zenon
  <1>10. c0.done + (o - c0.offset) + 1 = At(i) + o - position + 1
    BY <1>2, <1>3
  <1>11. CASE In
    BY <1>7, <1>8, <1>9, <1>10, <1>11, Zenon DEF C, CopiedAs
  <1>12. CASE ~In
    BY <1>7, <1>8, <1>12, Zenon DEF C, CopiedAs
  <1> QED  BY <1>11, <1>12

(* The packets of a message of a length, and the bytes in each.              *)
Holding(length)   == {i \in Index : At(i) < length}
Filled(length, i) == IF length <= At(i) THEN 0
                     ELSE Least(PACKET_DATA_LENGTH, length - At(i))

Packed ==
  /\ occupied = Holding(messageLength)
  /\ numPackets = Cardinality(occupied)
  /\ packetLength = [i \in Index |-> Filled(messageLength, i)]

(* The bytes of a chunk fill the packet up to the new length.                *)
LEMMA FilledMore ==
  ASSUME NEW length \in Nat, NEW count \in Nat, NEW i \in Index
  PROVE  /\ Spans(length, count, i) =>
              Filled(length, i) + (Hi(length + count, i) - Lo(length, i))
                = Filled(length + count, i)
         /\ ~Spans(length, count, i) => Filled(length + count, i) = Filled(length, i)
         /\ At(i) < length + count <=> At(i) < length \/ Spans(length, count, i)
  <1>1. At(i) \in Nat /\ PACKET_DATA_LENGTH \in Nat \ {0}
    BY PartBounds, 0 \in Nat
  <1>2. ASSUME Spans(length, count, i)
        PROVE  Filled(length, i) + (Hi(length + count, i) - Lo(length, i))
                 = Filled(length + count, i)
    <2>1. CASE length < At(i)
      <3>1. Filled(length, i) = 0 /\ Lo(length, i) = At(i)
        BY <1>1, <2>1 DEF Filled, Lo
      <3>2. Hi(length + count, i) - At(i) = Filled(length + count, i)
        BY <1>1, <1>2, <2>1 DEF Filled, Hi, Least, Spans
      <3>3. Hi(length + count, i) \in Nat
        BY <1>1 DEF Hi, Least
      <3> QED  BY <1>1, <3>1, <3>2, <3>3
    <2>2. CASE ~(length < At(i))
      <3>1. Filled(length, i) = length - At(i) /\ Lo(length, i) = length
        BY <1>1, <1>2, <2>2 DEF Filled, Lo, Least, Spans
      <3>2. Hi(length + count, i) - At(i) = Filled(length + count, i)
        BY <1>1, <1>2, <2>2 DEF Filled, Hi, Least, Spans
      <3>3. Hi(length + count, i) \in Nat
        BY <1>1 DEF Hi, Least
      <3> QED  BY <1>1, <3>1, <3>2, <3>3
    <2> QED  BY <2>1, <2>2
  <1>3. ~Spans(length, count, i) => Filled(length + count, i) = Filled(length, i)
    BY <1>1 DEF Filled, Least, Spans
  <1>4. At(i) < length + count <=> At(i) < length \/ Spans(length, count, i)
    BY <1>1 DEF Spans
  <1> QED  BY <1>2, <1>3, <1>4

(* reserve and append extend the packets to the new length.                  *)
LEMMA ExtendLemma ==
  ASSUME messageLength \in Nat, NEW count \in Nat, messageLength + count <= maxMessageLength,
         Packed, Extend(Chunks(messageLength, count)), messageLength' = messageLength + count
  PROVE  Packed'
  <1> DEFINE C == Chunks(messageLength, count)
             Sp(j) == Spans(messageLength, count, j)
             touched == {c.index : c \in C}
  <1>1. /\ \A c \in C : c.index \in Index /\ Sp(c.index) /\ c = Part(messageLength, count, c.index)
        /\ \A j \in Index : Sp(j) => Part(messageLength, count, j) \in C
        /\ \A j : Part(messageLength, count, j).index = j
    BY ChunkOf, Zenon
  <1>2. /\ occupied' = occupied \cup touched
        /\ numPackets' = numPackets + Cardinality(touched \ occupied)
        /\ packetLength' = [i \in Index |->
             IF i \in touched
             THEN packetLength[i] + (CHOOSE c \in C : c.index = i).bytes
             ELSE packetLength[i]]
    BY Zenon DEF Extend
  <1>3. touched = {j \in Index : Sp(j)}
    <2> HIDE DEF C, Sp
    <2> QED  BY <1>1, Zenon
  <1>4. ASSUME NEW i \in Index, Sp(i)
        PROVE  (CHOOSE c \in C : c.index = i).bytes
                 = Hi(messageLength + count, i) - Lo(messageLength, i)
    <2> DEFINE c0 == Part(messageLength, count, i)
    <2>1. c0 \in C /\ c0.index = i /\ \A c \in C : c.index = i => c = c0
      BY <1>1, <1>4, Zenon
    <2>2. c0.bytes = Hi(messageLength + count, i) - Lo(messageLength, i)
      BY DEF Part
    <2> HIDE DEF C, c0
    <2>3. (CHOOSE c \in C : c.index = i) = c0
      BY <2>1, Zenon
    <2> QED  BY <2>2, <2>3, Zenon
  <1> HIDE DEF C, Sp, touched
  <1>5. occupied' = Holding(messageLength')
    <2>1. \A i \in Index : At(i) < messageLength + count <=> At(i) < messageLength \/ Sp(i)
      BY FilledMore, Zenon DEF Sp
    <2> QED  BY <1>2, <1>3, <2>1, Zenon DEF Holding, Packed
  <1>6. numPackets' = Cardinality(occupied')
    <2>1. IsFiniteSet(Index)
      BY FS_Interval, BufferAssumption DEF Index
    <2>2. IsFiniteSet(occupied) /\ IsFiniteSet(touched \ occupied)
      <3>1. occupied \subseteq Index /\ touched \ occupied \subseteq Index
        BY <1>3 DEF Packed, Holding
      <3> QED  BY <2>1, <3>1, FS_Subset
    <2>3. /\ Cardinality(occupied \cup (touched \ occupied))
              = Cardinality(occupied) + Cardinality(touched \ occupied)
                  - Cardinality(occupied \cap (touched \ occupied))
          /\ Cardinality(occupied) \in Nat /\ Cardinality(touched \ occupied) \in Nat
      BY <2>2, FS_Union, FS_CardinalityType
    <2>4. occupied \cup (touched \ occupied) = occupied'
          /\ occupied \cap (touched \ occupied) = {}
      BY <1>2
    <2>5. Cardinality({}) = 0
      BY FS_EmptySet
    <2>6. Cardinality(occupied') = Cardinality(occupied) + Cardinality(touched \ occupied)
      <3> DEFINE x == Cardinality(occupied)
                 y == Cardinality(touched \ occupied)
      <3>1. Cardinality(occupied') = x + y - 0 /\ x \in Nat /\ y \in Nat
        BY <2>3, <2>4, <2>5, Zenon
      <3> HIDE DEF x, y
      <3>2. Cardinality(occupied') = x + y
        BY <3>1
      <3> QED  BY <3>2 DEF x, y
    <2>7. numPackets = Cardinality(occupied)
      BY DEF Packed
    <2> QED  BY <1>2, <2>6, <2>7, Zenon
  <1>7. packetLength' = [i \in Index |-> Filled(messageLength', i)]
    <2>1. ASSUME NEW i \in Index
          PROVE  Filled(messageLength + count, i)
                   = IF i \in touched
                     THEN packetLength[i] + (CHOOSE c \in C : c.index = i).bytes
                     ELSE packetLength[i]
      <3>1. packetLength[i] = Filled(messageLength, i)
        BY Zenon DEF Packed
      <3>2. CASE Sp(i)
        <4>1. Filled(messageLength, i) + (Hi(messageLength + count, i) - Lo(messageLength, i))
                = Filled(messageLength + count, i)
          BY <3>2, FilledMore, Zenon DEF Sp
        <4> QED  BY <1>3, <1>4, <3>1, <3>2, <4>1, Zenon
      <3>3. CASE ~Sp(i)
        <4>1. Filled(messageLength + count, i) = Filled(messageLength, i)
          BY <3>3, FilledMore, Zenon DEF Sp
        <4> QED  BY <1>3, <3>1, <3>3, <4>1, Zenon
      <3> QED  BY <3>2, <3>3
    <2> QED  BY <1>2, <2>1, Zenon
  <1> QED  BY <1>5, <1>6, <1>7 DEF Packed

(* A region released behind what was released before.                        *)
LEMMA RegionLemma ==
  ASSUME NEW q \in Seq(Nat), NEW r, r.index \in Nat, r.num \in Nat
  PROVE  /\ q \o LastRegion(r) \in Seq(Nat)
         /\ Len(q \o LastRegion(r)) = Len(q) + r.num
         /\ ToSet(q \o LastRegion(r))
              = ToSet(q) \cup {x \in Nat : r.index <= x /\ x < r.index + r.num}
  <1> DEFINE a == r.index
             n == r.num
             g == LastRegion(r)
             s == q \o g
  <1>1. g = [k \in 1..n |-> a + k - 1]
    BY DEF LastRegion
  <1> HIDE DEF a, n, g
  <1>2. a \in Nat /\ n \in Nat
    BY DEF a, n
  <1>3. g \in Seq(Nat) /\ Len(g) = n /\ \A k \in 1..n : g[k] = a + k - 1
    <2>1. \A k \in 1..n : a + k - 1 \in Nat
      BY <1>2
    <2> QED  BY <1>1, <1>2, <2>1
  <1>4. /\ s \in Seq(Nat) /\ Len(s) = Len(q) + n /\ Len(q) \in Nat
        /\ \A k \in 1..Len(q) : s[k] = q[k]
        /\ \A k \in 1..n : s[Len(q) + k] = a + k - 1
    <2>1. s \in Seq(Nat) /\ Len(s) = Len(q) + n /\ Len(q) \in Nat
      <3>1. g \in Seq(Nat) /\ Len(g) = n
        BY <1>3
      <3>2. s \in Seq(Nat) /\ Len(s) = Len(q) + Len(g) /\ Len(q) \in Nat
        BY <3>1
      <3> QED  BY <3>1, <3>2
    <2>2. ASSUME NEW k \in 1..Len(q)
          PROVE  s[k] = q[k]
      <3>1. k \in 1..(Len(q) + Len(g)) /\ k <= Len(q)
        BY <1>2, <1>3, <2>1
      <3> QED  BY <1>3, <3>1
    <2>3. ASSUME NEW k \in 1..n
          PROVE  s[Len(q) + k] = a + k - 1
      <3>1. Len(q) + k \in (Len(q) + 1)..(Len(q) + Len(g)) /\ Len(q) + k - Len(q) = k
        BY <1>2, <1>3, <2>1
      <3>2. s[Len(q) + k] = g[Len(q) + k - Len(q)]
        BY <1>3, <2>1, <3>1
      <3> QED  BY <1>3, <3>1, <3>2
    <2> QED  BY <2>1, <2>2, <2>3
  <1> HIDE DEF s
  <1>5. DOMAIN s = 1..Len(s) /\ DOMAIN q = 1..Len(q)
    BY <1>4
  <1>6. ToSet(s) = ToSet(q) \cup {x \in Nat : a <= x /\ x < a + n}
    <2>1. ASSUME NEW y \in ToSet(s)
          PROVE  y \in ToSet(q) \cup {x \in Nat : a <= x /\ x < a + n}
      <3>1. PICK k \in 1..Len(s) : y = s[k]
        BY <1>5, Zenon DEF ToSet
      <3>2. CASE k <= Len(q)
        <4>1. k \in 1..Len(q) /\ y = q[k]
          BY <1>4, <3>1, <3>2
        <4> QED  BY <1>5, <4>1, Zenon DEF ToSet
      <3>3. CASE ~(k <= Len(q))
        <4>1. k - Len(q) \in 1..n /\ k = Len(q) + (k - Len(q))
          BY <1>2, <1>4, <3>3
        <4>2. y = a + (k - Len(q)) - 1
          BY <1>4, <3>1, <4>1
        <4> QED  BY <1>2, <4>1, <4>2
      <3> QED  BY <3>2, <3>3
    <2>2. ASSUME NEW y \in ToSet(q)
          PROVE  y \in ToSet(s)
      <3>1. PICK k \in 1..Len(q) : y = q[k]
        BY <1>5, Zenon DEF ToSet
      <3>2. k \in 1..Len(s) /\ s[k] = y
        BY <1>2, <1>4, <3>1
      <3> QED  BY <1>5, <3>2, Zenon DEF ToSet
    <2>3. ASSUME NEW y \in Nat, a <= y, y < a + n
          PROVE  y \in ToSet(s)
      <3> DEFINE k == y - a + 1
      <3>1. k \in 1..n /\ a + k - 1 = y
        BY <1>2, <2>3
      <3> HIDE DEF k
      <3>2. Len(q) + k \in 1..Len(s) /\ s[Len(q) + k] = y
        <4>1. Len(q) + k \in 1..Len(s)
          BY <1>2, <1>4, <3>1
        <4>2. s[Len(q) + k] = a + k - 1
          BY <1>4, <3>1, Zenon
        <4> QED  BY <3>1, <4>1, <4>2, Zenon
      <3> QED  BY <1>5, <3>2, Zenon DEF ToSet
    <2> QED  BY <2>1, <2>2, <2>3, Zenon
  <1> QED  BY <1>4, <1>6 DEF s, a, n, g

(* After i turns of the destructor's loop: the packets before i are released *)
(* or in the last region, which ends at i.                                   *)
Arrived(i) == {x \in inOccupied : x < i}

ReleaseInit == [num |-> 0, index |-> 0, packetsFound |-> 0, released |-> <<>>]

ReleaseState(i, r) ==
  /\ r.num \in Nat /\ r.index \in Nat
  /\ r.released \in Seq(Nat)
  /\ ToSet(r.released) \cup {x \in Nat : r.index <= x /\ x < r.index + r.num} = Arrived(i)
  /\ r.packetsFound = Cardinality(Arrived(i))
  /\ Len(r.released) + r.num = r.packetsFound
  /\ r.packetsFound < Cardinality(inOccupied) /\ r.num > 0 => r.index + r.num = i

(* At first nothing is found and nothing released.                           *)
LEMMA ReleaseStart ==
  ASSUME inOccupied \subseteq Index
  PROVE  ReleaseState(0, ReleaseInit)
  <1>1. Arrived(0) = {}
    <2>1. \A x \in Index : ~(x < 0)
      BY BufferAssumption DEF Index
    <2> QED  BY <2>1, Zenon DEF Arrived
  <1>2. Cardinality({}) = 0
    BY FS_EmptySet
  <1>3. ToSet(<<>>) = {}
    BY DEF ToSet
  <1>4. <<>> \in Seq(Nat) /\ Len(<<>>) = 0
    OBVIOUS
  <1>5. {x \in Nat : 0 <= x /\ x < 0 + 0} = {}
    OBVIOUS
  <1> DEFINE r == ReleaseInit
  <1>6. r.num = 0 /\ r.index = 0 /\ r.packetsFound = 0 /\ r.released = <<>>
    BY DEF ReleaseInit
  <1> HIDE DEF r
  <1>7. ToSet(r.released) \cup {x \in Nat : r.index <= x /\ x < r.index + r.num} = Arrived(0)
    BY <1>1, <1>3, <1>5, <1>6, Zenon
  <1>8. r.packetsFound = Cardinality(Arrived(0))
    BY <1>1, <1>2, <1>6, Zenon
  <1> QED  BY <1>4, <1>6, <1>7, <1>8 DEF ReleaseState, r

(* One turn looks at one packet more.                                        *)
LEMMA ReleaseOne ==
  ASSUME inOccupied \subseteq Index, NEW i \in Nat, NEW r, ReleaseState(i, r)
  PROVE  ReleaseState(i + 1, ReleaseTurn(r, i))
  <1> DEFINE a == r.index
             n == r.num
             q == r.released
             t == ReleaseTurn(r, i)
             Region == {x \in Nat : a <= x /\ x < a + n}
  <1>1. /\ n \in Nat /\ a \in Nat /\ q \in Seq(Nat)
        /\ ToSet(q) \cup Region = Arrived(i)
        /\ r.packetsFound = Cardinality(Arrived(i))
        /\ Len(q) + n = Cardinality(Arrived(i))
        /\ Cardinality(Arrived(i)) < Cardinality(inOccupied) /\ n > 0 => a + n = i
    BY DEF ReleaseState
  <1>2. /\ IsFiniteSet(inOccupied) /\ Cardinality(inOccupied) \in Nat
        /\ IsFiniteSet(Arrived(i)) /\ Cardinality(Arrived(i)) \in Nat
        /\ Cardinality(Arrived(i)) <= Cardinality(inOccupied)
        /\ Cardinality(Arrived(i)) = Cardinality(inOccupied) => inOccupied = Arrived(i)
    <2>1. IsFiniteSet(Index)
      BY FS_Interval, BufferAssumption DEF Index
    <2>2. IsFiniteSet(inOccupied) /\ Arrived(i) \in SUBSET inOccupied
      BY <2>1, FS_Subset DEF Arrived
    <2> QED  BY <2>2, FS_Subset, FS_CardinalityType
  <1>3. \A x \in inOccupied : x \in Nat
    BY BufferAssumption DEF Index
  <1>4. CASE r.packetsFound >= Cardinality(inOccupied)
    <2>1. t = r
      BY <1>4 DEF ReleaseTurn
    <2>2. inOccupied = Arrived(i)
      BY <1>1, <1>2, <1>4
    <2>3. Arrived(i + 1) = Arrived(i)
      BY <1>3, <2>2 DEF Arrived
    <2>4. ~(r.packetsFound < Cardinality(inOccupied))
      BY <1>1, <1>2, <1>4
    <2> QED  BY <1>1, <2>1, <2>3, <2>4 DEF ReleaseState
  <1>5. CASE ~(r.packetsFound >= Cardinality(inOccupied)) /\ i \in inOccupied
    <2>1. /\ t.num = n + 1 /\ t.index = (IF n = 0 THEN i ELSE a)
          /\ t.packetsFound = r.packetsFound + 1 /\ t.released = q
      BY <1>5 DEF ReleaseTurn
    <2>2. Arrived(i + 1) = Arrived(i) \cup {i} /\ i \notin Arrived(i)
      <3>1. \A x \in Nat : x < i + 1 <=> x < i \/ x = i
        OBVIOUS
      <3>2. ~(i < i)
        OBVIOUS
      <3>3. i \in inOccupied
        BY <1>5
      <3> QED  BY <1>3, <3>1, <3>2, <3>3, Zenon DEF Arrived
    <2>3. Cardinality(Arrived(i + 1)) = Cardinality(Arrived(i)) + 1
      BY <1>2, <2>2, FS_AddElement
    <2>4. t.index \in Nat /\ t.num \in Nat /\ t.index + t.num = i + 1
      <3>1. n # 0 => a + n = i
        BY <1>1, <1>2, <1>5
      <3> HIDE DEF t, n, a
      <3> QED  BY <1>1, <2>1, <3>1
    <2>5. {x \in Nat : t.index <= x /\ x < t.index + t.num} = Region \cup {i}
      <3>1. CASE n = 0
        <4>1. t.index = i /\ t.num = 1
          BY <2>1, <3>1
        <4>2. Region = {}
          BY <1>1, <3>1
        <4>3. {x \in Nat : i <= x /\ x < i + 1} = {i}
          OBVIOUS
        <4> QED  BY <4>1, <4>2, <4>3
      <3>2. CASE n # 0
        <4>1. t.index = a /\ t.num = n + 1 /\ a + n = i
          BY <1>1, <1>2, <1>5, <2>1, <3>2
        <4>2. {x \in Nat : a <= x /\ x < a + (n + 1)} = Region \cup {i}
          BY <1>1, <4>1
        <4> QED  BY <4>1, <4>2
      <3> QED  BY <3>1, <3>2
    <2> HIDE DEF t, n, a, q, Region
    <2>6. ToSet(t.released) \cup {x \in Nat : t.index <= x /\ x < t.index + t.num}
            = Arrived(i + 1)
      BY <1>1, <2>1, <2>2, <2>5, Zenon
    <2>7. Len(t.released) + t.num = t.packetsFound /\ t.packetsFound = Cardinality(Arrived(i + 1))
      BY <1>1, <1>2, <2>1, <2>3
    <2> QED  BY <1>1, <2>1, <2>4, <2>6, <2>7 DEF ReleaseState, t
  <1>6. CASE ~(r.packetsFound >= Cardinality(inOccupied)) /\ i \notin inOccupied
    <2>1. /\ t.num = 0 /\ t.index = a
          /\ t.packetsFound = r.packetsFound /\ t.released = q \o LastRegion(r)
      BY <1>6 DEF ReleaseTurn
    <2>2. Arrived(i + 1) = Arrived(i)
      BY <1>3, <1>6 DEF Arrived
    <2>3. /\ q \o LastRegion(r) \in Seq(Nat)
          /\ Len(q \o LastRegion(r)) = Len(q) + n
          /\ ToSet(q \o LastRegion(r)) = ToSet(q) \cup Region
      BY <1>1, RegionLemma, Zenon
    <2>4. {x \in Nat : t.index <= x /\ x < t.index + t.num} = {}
      BY <1>1, <2>1
    <2>5. Len(q) + n + 0 = Len(q) + n
      BY <1>1
    <2> HIDE DEF t, n, a, q, Region
    <2>6. ToSet(t.released) \cup {x \in Nat : t.index <= x /\ x < t.index + t.num}
            = Arrived(i + 1)
      BY <1>1, <2>1, <2>2, <2>3, <2>4, Zenon
    <2>7. Len(t.released) + t.num = t.packetsFound
      BY <1>1, <1>2, <2>1, <2>3, <2>5
    <2>8. ~(t.num > 0) /\ t.num \in Nat /\ t.index \in Nat
      BY <1>1, <2>1
    <2> QED  BY <1>1, <2>1, <2>2, <2>3, <2>6, <2>7, <2>8 DEF ReleaseState, t
  <1> QED  BY <1>4, <1>5, <1>6

(* The states of the destructor's loop in n turns.                           *)
IsRelease(f, n) ==
  f = [i \in 0..n |-> IF i = 0 THEN ReleaseInit ELSE ReleaseTurn(f[i - 1], i - 1)]

(* There is one such function for every number of turns.                     *)
LEMMA ReleaseExists ==
  ASSUME NEW n \in Nat
  PROVE  \E f : IsRelease(f, n)
  <1> DEFINE T == {k \in Nat : ~(\E f : IsRelease(f, k))}
  <1>1. SUFFICES ASSUME T # {} PROVE FALSE
    BY Zenon
  <1>2. PICK k \in T : \A y \in T : k <= y
    <2>1. T \in SUBSET Nat
      OBVIOUS
    <2> HIDE DEF T
    <2> QED  BY <1>1, <2>1, LeastNat
  <1>3. k \in Nat /\ ~(\E f : IsRelease(f, k))
    OBVIOUS
  <1>4. CASE k = 0
    <2> DEFINE f == [i \in 0..0 |-> ReleaseInit]
    <2>1. f = [i \in 0..0 |-> IF i = 0 THEN ReleaseInit ELSE ReleaseTurn(f[i - 1], i - 1)]
      OBVIOUS
    <2> HIDE DEF f
    <2>2. IsRelease(f, 0)
      BY <2>1 DEF IsRelease
    <2> QED  BY <1>3, <1>4, <2>2
  <1>5. CASE k > 0
    <2>1. k - 1 \in Nat /\ k - 1 \notin T
      BY <1>2, <1>3, <1>5
    <2>2. PICK g : IsRelease(g, k - 1)
      BY <2>1
    <2> DEFINE f == [i \in 0..k |-> IF i = k THEN ReleaseTurn(g[k - 1], k - 1) ELSE g[i]]
    <2>3. ASSUME NEW i \in 0..k
          PROVE  f[i] = IF i = 0 THEN ReleaseInit ELSE ReleaseTurn(f[i - 1], i - 1)
      <3>1. CASE i = k
        <4>1. f[i - 1] = g[k - 1] /\ i # 0
          BY <1>3, <1>5, <3>1
        <4> QED  BY <3>1, <4>1
      <3>2. CASE i # k
        <4>1. i \in 0..(k - 1)
          BY <1>3, <3>2
        <4>2. g[i] = IF i = 0 THEN ReleaseInit ELSE ReleaseTurn(g[i - 1], i - 1)
          BY <2>2, <4>1 DEF IsRelease
        <4>3. i # 0 => f[i - 1] = g[i - 1]
          BY <4>1
        <4> QED  BY <3>2, <4>2, <4>3
      <3> QED  BY <3>1, <3>2
    <2>4. f = [i \in 0..k |-> f[i]]
      OBVIOUS
    <2> HIDE DEF f
    <2>5. IsRelease(f, k)
      BY <2>3, <2>4 DEF IsRelease
    <2> QED  BY <1>3, <2>5
  <1> QED  BY <1>3, <1>4, <1>5

(* The destructor releases the packets that arrived, each once.              *)
LEMMA ReleasedLemma ==
  ASSUME inOccupied \subseteq Index
  PROVE  LET all == Released.released \o LastRegion(Released)
         IN  ToSet(all) = inOccupied /\ Len(all) = Cardinality(inOccupied)
  <1> DEFINE m == MAX_MESSAGE_PACKETS
             f == CHOOSE f : IsRelease(f, m)
             all == Released.released \o LastRegion(Released)
  <1>1. m \in Nat
    BY BufferAssumption
  <1>2. IsRelease(f, m)
    <2>1. \E g : IsRelease(g, m)
      BY <1>1, ReleaseExists, Zenon
    <2> QED  BY <2>1, Zenon
  <1>3. Released = f[m]
    BY DEF Released, IsRelease, ReleaseInit
  <1> HIDE DEF f
  <1>4. /\ f[0] = ReleaseInit
        /\ \A i \in 1..m : f[i] = ReleaseTurn(f[i - 1], i - 1)
    BY <1>1, <1>2 DEF IsRelease
  <1> DEFINE T == {k \in 0..m : ~ReleaseState(k, f[k])}
  <1>5. T = {}
    <2> SUFFICES ASSUME T # {} PROVE FALSE
      OBVIOUS
    <2>1. PICK k \in T : \A y \in T : k <= y
      <3>1. T \in SUBSET Nat
        BY <1>1
      <3> HIDE DEF T
      <3> QED  BY <3>1, LeastNat
    <2>2. k \in 0..m /\ ~ReleaseState(k, f[k])
      OBVIOUS
    <2>3. k # 0
      BY <1>4, <2>2, ReleaseStart, Zenon
    <2>4. k - 1 \in Nat /\ k - 1 \in 0..m /\ k \in 1..m /\ ~(k <= k - 1) /\ k - 1 + 1 = k
      BY <1>1, <2>2, <2>3
    <2>5. ReleaseState(k - 1, f[k - 1])
      BY <2>1, <2>4
    <2> DEFINE l == k - 1
    <2>6. ReleaseState(l + 1, ReleaseTurn(f[l], l))
      <3> HIDE DEF l
      <3>1. l \in Nat /\ ReleaseState(l, f[l])
        BY <2>4, <2>5 DEF l
      <3> QED  BY <3>1, ReleaseOne, Zenon
    <2> QED  BY <1>4, <2>2, <2>4, <2>6
  <1>6. ReleaseState(m, Released)
    BY <1>1, <1>3, <1>5
  <1> HIDE DEF T
  <1> DEFINE r == Released
  <1>7. Arrived(m) = inOccupied
    <2>1. \A x \in Index : x < m
      BY <1>1 DEF Index
    <2> QED  BY <2>1, Zenon DEF Arrived
  <1>8. /\ r.num \in Nat /\ r.index \in Nat /\ r.released \in Seq(Nat)
        /\ ToSet(r.released) \cup {x \in Nat : r.index <= x /\ x < r.index + r.num} = inOccupied
        /\ Len(r.released) + r.num = Cardinality(inOccupied)
    BY <1>6, <1>7, Zenon DEF ReleaseState
  <1> HIDE DEF r
  <1>9. /\ Len(r.released \o LastRegion(r)) = Len(r.released) + r.num
        /\ ToSet(r.released \o LastRegion(r))
             = ToSet(r.released) \cup {x \in Nat : r.index <= x /\ x < r.index + r.num}
    BY <1>8, RegionLemma, Zenon
  <1>10. ToSet(r.released \o LastRegion(r)) = inOccupied
    BY <1>8, <1>9, Zenon
  <1>11. Len(r.released \o LastRegion(r)) = Cardinality(inOccupied)
    BY <1>8, <1>9, Zenon
  <1> QED  BY <1>10, <1>11, Zenon DEF r

(* The packets hold what was written behind the headroom.                    *)
Kept ==
  /\ Len(written) = messageLength - start
  /\ \A i \in Index, o \in Offset :
       start <= At(i) + o /\ At(i) + o < messageLength
         => payload[i][o] = written[At(i) + o - start + 1]

(* What a part of get copies.                                                *)
InPart(c, k)             == k \in (c.done + 1)..(c.done + c.bytes)
ReadAs(c, k, position) ==
  payload[c.index][c.offset + (k - 1 - c.done)] = written[position + k]

(* The byte that is read from a part is the one that was written.            *)
LEMMA PartReads ==
  ASSUME messageLength \in 0..maxMessageLength, start = 0, Kept,
         NEW position \in Nat, NEW n \in Nat, position + n <= messageLength,
         NEW c \in Chunks(position, n), NEW k \in Nat, InPart(c, k)
  PROVE  ReadAs(c, k, position)
  <1> DEFINE j == c.index
             p == PACKET_DATA_LENGTH
             o == position + k - 1 - At(j)
  <1>1. messageLength \in Nat /\ maxMessageLength \in Nat /\ messageLength <= maxMessageLength
    BY BufferAssumption, AtLemma DEF maxMessageLength
  <1>2. j \in Index /\ Spans(position, n, j) /\ c = Part(position, n, j)
    <2>1. position + n <= maxMessageLength
      BY <1>1
    <2> QED  BY <2>1, ChunkOf, Zenon
  <1> HIDE DEF j
  <1>3. /\ c.offset = Lo(position, j) - At(j) /\ c.done = Lo(position, j) - position
        /\ c.bytes = Hi(position + n, j) - Lo(position, j)
    BY <1>2 DEF Part
  <1>4. /\ At(j) \in Nat /\ p \in Nat \ {0}
        /\ Lo(position, j) \in Nat /\ Hi(position + n, j) \in Nat
    BY <1>2, PartBounds
  <1>5. Lo(position, j) < position + k /\ position + k <= Hi(position + n, j)
    BY <1>3, <1>4 DEF InPart
  <1>6. c.offset + (k - 1 - c.done) = o
    BY <1>3, <1>4
  <1>7. o \in Offset /\ At(j) + o = position + k - 1 /\ position + k - 1 < messageLength
        /\ k >= 1
    <2>1. At(j) <= Lo(position, j) /\ Hi(position + n, j) <= At(j) + p
          /\ position <= Lo(position, j) /\ Hi(position + n, j) <= position + n
      BY <1>4 DEF Lo, Hi, Least
    <2> QED  BY <1>1, <1>4, <1>5, <2>1 DEF Offset
  <1>8. start <= At(j) + o /\ At(j) + o < messageLength /\ At(j) + o - start + 1 = position + k
    BY <1>4, <1>7
  <1> HIDE DEF o
  <1>9. payload[j][o] = written[At(j) + o - start + 1]
    BY <1>2, <1>7, <1>8, Zenon DEF Kept
  <1> QED  BY <1>6, <1>8, <1>9, Zenon DEF j, ReadAs

(* Every byte that is asked for is in a part.                                *)
LEMMA PartFound ==
  ASSUME NEW position \in Nat, NEW n \in Nat, position + n <= maxMessageLength, NEW k \in 1..n
  PROVE  \E c \in Chunks(position, n) : k \in (c.done + 1)..(c.done + c.bytes)
  <1> DEFINE x == position + k - 1
             j == x \div PACKET_DATA_LENGTH
             o == x % PACKET_DATA_LENGTH
             p == PACKET_DATA_LENGTH
             c == Part(position, n, j)
  <1>1. x \in Nat /\ position <= x /\ x < position + n
    OBVIOUS
  <1>2. j \in Nat /\ o \in Offset /\ x = At(j) + o
    BY <1>1, PositionSplit, Zenon
  <1> HIDE DEF j, o
  <1>3. p \in Nat \ {0} /\ At(j) \in Nat /\ o \in 0..(p - 1) /\ MAX_MESSAGE_PACKETS \in Nat
        /\ At(MAX_MESSAGE_PACKETS) = maxMessageLength /\ maxMessageLength \in Nat
    BY <1>2, BufferAssumption, AtLemma DEF Offset
  <1>4. j \in Index
    <2>1. CASE j < MAX_MESSAGE_PACKETS
      BY <1>2, <1>3, <2>1 DEF Index
    <2>2. CASE j = MAX_MESSAGE_PACKETS
      BY <1>1, <1>2, <1>3, <2>2
    <2>3. CASE MAX_MESSAGE_PACKETS < j
      <3>1. At(MAX_MESSAGE_PACKETS) + p <= At(j)
        BY <1>2, <1>3, <2>3, AtBefore
      <3> QED  BY <1>1, <1>2, <1>3, <3>1
    <2> QED  BY <1>2, <1>3, <2>1, <2>2, <2>3
  <1>5. Spans(position, n, j)
    BY <1>1, <1>2, <1>3 DEF Spans
  <1>6. c \in Chunks(position, n)
    BY <1>4, <1>5, ChunkOf, Zenon
  <1>7. c.done = Lo(position, j) - position
        /\ c.bytes = Hi(position + n, j) - Lo(position, j)
    BY DEF Part
  <1>8. /\ Lo(position, j) \in Nat /\ Hi(position + n, j) \in Nat
        /\ Lo(position, j) <= x /\ x < Hi(position + n, j)
    BY <1>1, <1>2, <1>3 DEF Lo, Hi, Least
  <1> HIDE DEF c
  <1>9. k \in (c.done + 1)..(c.done + c.bytes)
    BY <1>7, <1>8
  <1> QED  BY <1>6, <1>9, Zenon

(* Any range that is asked for is read as it was written.                    *)
LEMMA GetLemma ==
  ASSUME messageLength \in 0..maxMessageLength, start = 0, Kept, written \in Seq(Nat),
         inStart \in Nat, inOccupied = Holding(messageLength),
         NEW offset \in Nat, NEW count \in Nat
  PROVE  get(offset, count) = SubSeq(written, inStart + offset + 1,
                                     Least(messageLength, inStart + offset + count))
  <1> DEFINE x == RealOffset(offset)
  <1>1. /\ x = inStart + offset /\ x \in Nat /\ messageLength \in Nat
        /\ maxMessageLength \in Nat /\ messageLength <= maxMessageLength
    BY BufferAssumption DEF RealOffset, maxMessageLength
  <1>2. Len(written) = messageLength
    BY <1>1 DEF Kept
  <1> HIDE DEF x
  <1>3. CASE x >= messageLength
    <2>1. get(offset, count) = <<>>
      BY <1>3 DEF get, x
    <2>2. Least(messageLength, inStart + offset + count) = messageLength
      BY <1>1, <1>3 DEF Least
    <2>3. SubSeq(written, x + 1, messageLength) = <<>>
      <3>1. messageLength < x + 1
        BY <1>1, <1>3
      <3> QED  BY <1>1, <3>1
    <2> QED  BY <1>1, <2>1, <2>2, <2>3
  <1>4. CASE ~(x >= messageLength)
    <2> DEFINE n == Least(count, messageLength - x)
               C == Chunks(x, n)
               present == {c \in C : \A d \in C : d.done <= c.done => d.index \in inOccupied}
               part(k) == {c \in present : k \in (c.done + 1)..(c.done + c.bytes)}
               byte(k) == payload[(CHOOSE c \in part(k) : TRUE).index]
                                 [(CHOOSE c \in part(k) : TRUE).offset
                                   + (k - 1 - (CHOOSE c \in part(k) : TRUE).done)]
    <2>1. get(offset, count) = [k \in {j \in 1..n : part(j) # {}} |-> byte(k)]
      BY <1>4 DEF get, x
    <2>2. n \in Nat /\ x + n <= messageLength /\ x + n <= maxMessageLength
          /\ Least(messageLength, inStart + offset + count) = x + n
      BY <1>1, <1>4 DEF Least
    <2> HIDE DEF n
    <2>3. present = C
      <3>1. ASSUME NEW d \in C PROVE d.index \in inOccupied
        <4>1. d.index \in Index /\ Spans(x, n, d.index)
          BY <1>1, <2>2, ChunkOf, Zenon
        <4>2. At(d.index) < x + n /\ At(d.index) \in Nat
          <5>1. At(d.index) < x + n
            BY <4>1, Zenon DEF Spans
          <5>2. At(d.index) \in Nat
            BY <1>1, <2>2, <4>1, PartBounds, Zenon
          <5> QED  BY <5>1, <5>2
        <4>3. At(d.index) < messageLength
          BY <1>1, <2>2, <4>2
        <4> QED  BY <4>1, <4>3, Zenon DEF Holding
      <3> HIDE DEF C
      <3> QED  BY <3>1, Zenon
    <2>4. ASSUME NEW k \in 1..n
          PROVE  part(k) # {} /\ byte(k) = written[x + k]
      <3>1. part(k) = {c \in C : k \in (c.done + 1)..(c.done + c.bytes)}
        BY <2>3, Zenon
      <3> DEFINE c == CHOOSE c \in part(k) : TRUE
      <3>2. part(k) # {}
        <4>1. \E e \in C : k \in (e.done + 1)..(e.done + e.bytes)
          BY <1>1, <2>2, PartFound, Zenon
        <4> QED  BY <3>1, <4>1, Zenon
      <3>3. c \in C /\ k \in (c.done + 1)..(c.done + c.bytes)
        <4>1. c \in part(k)
          <5> HIDE DEF part
          <5> QED  BY <3>2, Zenon
        <4> QED  BY <3>1, <4>1, Zenon
      <3>4. k \in Nat
        BY <2>2
      <3> HIDE DEF part, present
      <3>5. payload[c.index][c.offset + (k - 1 - c.done)] = written[x + k]
        <4>1. x \in Nat /\ n \in Nat /\ x + n <= messageLength
          BY <1>1, <2>2
        <4> HIDE DEF c
        <4>2. InPart(c, k)
          BY <3>3, Zenon DEF InPart
        <4>3. ReadAs(c, k, x)
          BY <3>3, <3>4, <4>1, <4>2, PartReads, Zenon
        <4> QED  BY <4>3, Zenon DEF ReadAs
      <3> QED  BY <3>2, <3>5, Zenon
    <2> HIDE DEF part, byte, present, C
    <2>5. get(offset, count) = [k \in 1..n |-> written[x + k]]
      <3>1. {j \in 1..n : part(j) # {}} = 1..n
        BY <2>4, Zenon
      <3> QED  BY <2>1, <2>4, <3>1, Zenon
    <2>6. SubSeq(written, x + 1, x + n) = [k \in 1..n |-> written[x + k]]
      <3>1. x + n - (x + 1) + 1 = n
        BY <1>1, <2>2
      <3>2. \A k \in 1..n : k + (x + 1) - 1 = x + k
        BY <1>1, <2>2
      <3> QED  BY <1>1, <1>2, <2>2, <3>1, <3>2
    <2> QED  BY <1>1, <2>2, <2>5, <2>6
  <1> QED  BY <1>3, <1>4

(* The inductive invariant.                                                  *)
BufferTypes ==
  /\ outState \in {"building", "sent", "destroyed", "discarded"}
  /\ inState \in {"none", "IN_PROGRESS", "COMPLETED", "destroyed"}
  /\ messageLength \in 0..maxMessageLength
  /\ start \in 0..messageLength
  /\ written \in Seq(Nat)
  /\ inStart \in Nat
  /\ inOccupied \subseteq Index

Sent ==
  /\ outState \in {"sent", "destroyed"} => start = 0
  /\ inState # "none" => outState \in {"sent", "destroyed"}

Received ==
  /\ inOccupied \subseteq occupied
  /\ inState = "COMPLETED" => inOccupied = occupied

BufferInv ==
  /\ BufferTypes
  /\ Packed
  /\ Kept
  /\ Sent
  /\ Received
  /\ ReleasedExactly

(* The elements of two sequences, one behind the other.                      *)
LEMMA ConcatLemma ==
  ASSUME NEW u \in Seq(Nat), NEW v \in Seq(Nat)
  PROVE  /\ u \o v \in Seq(Nat) /\ Len(u \o v) = Len(u) + Len(v)
         /\ Len(u) \in Nat /\ Len(v) \in Nat
         /\ \A k \in 1..Len(u) : (u \o v)[k] = u[k]
         /\ \A k \in 1..Len(v) : (u \o v)[Len(u) + k] = v[k]
  <1>1. u \o v \in Seq(Nat) /\ Len(u \o v) = Len(u) + Len(v)
        /\ Len(u) \in Nat /\ Len(v) \in Nat
    OBVIOUS
  <1>2. ASSUME NEW k \in 1..Len(u)
        PROVE  (u \o v)[k] = u[k]
    <2>1. k \in 1..(Len(u) + Len(v)) /\ k <= Len(u)
      BY <1>1
    <2> QED  BY <2>1
  <1>3. ASSUME NEW k \in 1..Len(v)
        PROVE  (u \o v)[Len(u) + k] = v[k]
    <2>1. Len(u) + k \in (Len(u) + 1)..(Len(u) + Len(v)) /\ Len(u) + k - Len(u) = k
      BY <1>1
    <2>2. (u \o v)[Len(u) + k] = v[Len(u) + k - Len(u)]
      BY <1>1, <2>1
    <2> QED  BY <2>1, <2>2
  <1> QED  BY <1>1, <1>2, <1>3

(* The bytes of a call are as many as it writes.                             *)
LEMMA FreshLemma ==
  ASSUME written \in Seq(Nat), NEW count \in Nat
  PROVE  Fresh(count) \in Seq(Nat) /\ Len(Fresh(count)) = count
  <1>1. Len(written) \in Nat
    OBVIOUS
  <1>2. \A k \in 1..count : Len(written) + k \in Nat
    BY <1>1
  <1> QED  BY <1>2 DEF Fresh

(* A length that is clipped fits.                                            *)
LEMMA ClipLemma ==
  ASSUME NEW position \in 0..maxMessageLength, NEW n \in Nat
  PROVE  Clip(position, n) \in Nat /\ position + Clip(position, n) <= maxMessageLength
  BY BufferAssumption, AtLemma DEF Clip, Least, maxMessageLength

(* The position of a byte in the message.                                    *)
LEMMA ByteAt ==
  ASSUME NEW i \in Index, NEW o \in Offset
  PROVE  At(i) \in Nat /\ o \in Nat /\ At(i) + o \in Nat
  <1>1. At(i) \in Nat /\ o \in Nat
    BY AtLemma, BufferAssumption DEF Index, Offset
  <1> QED  BY <1>1

(* The bytes that append writes are behind the others.                       *)
LEMMA AppendKeeps ==
  ASSUME BufferTypes, Kept, NEW count \in Nat, messageLength + count <= maxMessageLength,
         payload' = Copy(Chunks(messageLength, count), Fresh(count)),
         written' = written \o Fresh(count),
         messageLength' = messageLength + count, start' = start
  PROVE  Kept' /\ written' \in Seq(Nat)
  <1> DEFINE v == Fresh(count)
             w == written \o v
  <1>1. v \in Seq(Nat) /\ Len(v) = count
    BY FreshLemma DEF BufferTypes
  <1>2. written \in Seq(Nat) /\ Len(written) = messageLength - start
        /\ messageLength \in Nat /\ start \in Nat /\ start <= messageLength
    <2>1. maxMessageLength \in Nat
      BY BufferAssumption, AtLemma DEF maxMessageLength
    <2> QED  BY <2>1 DEF BufferTypes, Kept
  <1> HIDE DEF v
  <1>3. /\ w \in Seq(Nat) /\ Len(w) = Len(written) + Len(v)
        /\ Len(written) \in Nat /\ Len(v) \in Nat
        /\ \A k \in 1..Len(written) : w[k] = written[k]
        /\ \A k \in 1..Len(v) : w[Len(written) + k] = v[k]
    BY <1>1, <1>2, ConcatLemma, Zenon
  <1> HIDE DEF w
  <1>4. Len(w) = messageLength' - start'
    BY <1>1, <1>2, <1>3
  <1>5. ASSUME NEW i \in Index, NEW o \in Offset,
               start <= At(i) + o, At(i) + o < messageLength + count
        PROVE  payload'[i][o] = w[At(i) + o - start + 1]
    <2> DEFINE x == At(i) + o
    <2>1. x \in Nat /\ At(i) \in Nat /\ o \in Nat
      BY ByteAt, Zenon
    <2>2. payload'[i][o] = IF messageLength <= x /\ x < messageLength + count
                           THEN v[x - messageLength + 1] ELSE payload[i][o]
      <3>1. payload'[i][o] = IF messageLength <= x /\ x < messageLength + count
                             THEN v[At(i) + o - messageLength + 1] ELSE payload[i][o]
        <4>1. Copy(Chunks(messageLength, count), Fresh(count))[i][o]
                = IF messageLength <= At(i) + o /\ At(i) + o < messageLength + count
                  THEN Fresh(count)[At(i) + o - messageLength + 1] ELSE payload[i][o]
          <5>1. CopiedAs(messageLength, count, Fresh(count), i, o)
            BY <1>2, CopyLemma, Zenon
          <5> QED  BY <5>1, Zenon DEF CopiedAs
        <4> QED  BY <4>1, Zenon DEF v
      <3>2. At(i) + o - messageLength + 1 = x - messageLength + 1
        BY <1>2, <2>1
      <3> QED  BY <3>1, <3>2
    <2>3. At(i) + o - start + 1 = x - start + 1
      BY <1>2, <2>1
    <2>4. CASE messageLength <= x
      <3> DEFINE k == x - messageLength + 1
      <3>1. k \in 1..Len(v) /\ Len(written) + k = x - start + 1
        <4>1. x < messageLength + count
          BY <1>5
        <4> HIDE DEF x
        <4> QED  BY <1>1, <1>2, <2>1, <2>4, <4>1
      <3>2. w[Len(written) + k] = v[k]
        <4> HIDE DEF k
        <4> QED  BY <1>3, <3>1, Zenon
      <3>3. payload'[i][o] = v[k]
        BY <1>5, <2>2, <2>4, Zenon
      <3> HIDE DEF k, x
      <3> QED  BY <2>3, <3>1, <3>2, <3>3, Zenon
    <2>5. CASE ~(messageLength <= x)
      <3> DEFINE k == x - start + 1
      <3>1. k \in 1..Len(written) /\ x < messageLength
        <4>1. start <= x
          BY <1>5
        <4> HIDE DEF x
        <4> QED  BY <1>2, <2>1, <2>5, <4>1
      <3>2. w[k] = written[k]
        <4> HIDE DEF k
        <4> QED  BY <1>3, <3>1, Zenon
      <3>3. payload'[i][o] = payload[i][o]
        BY <2>2, <2>5, Zenon
      <3>4. payload[i][o] = written[At(i) + o - start + 1]
        BY <1>5, <3>1, Zenon DEF Kept
      <3> HIDE DEF x
      <3> QED  BY <2>3, <3>2, <3>3, <3>4, Zenon
    <2> QED  BY <2>4, <2>5
  <1> QED  BY <1>3, <1>4, <1>5, Zenon DEF Kept, w, v

(* The bytes that prepend writes are in front of the others.                 *)
LEMMA PrependKeeps ==
  ASSUME BufferTypes, Kept, NEW n \in Nat, n <= start,
         payload' = Copy(Chunks(start - n, n), Fresh(n)),
         written' = Fresh(n) \o written,
         messageLength' = messageLength, start' = start - n
  PROVE  Kept' /\ written' \in Seq(Nat)
  <1> DEFINE v == Fresh(n)
             w == v \o written
  <1>1. v \in Seq(Nat) /\ Len(v) = n
    BY FreshLemma DEF BufferTypes
  <1>2. /\ written \in Seq(Nat) /\ Len(written) = messageLength - start
        /\ messageLength \in Nat /\ start \in Nat /\ start <= messageLength
        /\ start - n \in Nat /\ start - n + n = start /\ start - n + n <= maxMessageLength
    <2>1. maxMessageLength \in Nat
      BY BufferAssumption, AtLemma DEF maxMessageLength
    <2> QED  BY <2>1 DEF BufferTypes, Kept
  <1> HIDE DEF v
  <1>3. /\ w \in Seq(Nat) /\ Len(w) = Len(v) + Len(written)
        /\ Len(written) \in Nat /\ Len(v) \in Nat
        /\ \A k \in 1..Len(v) : w[k] = v[k]
        /\ \A k \in 1..Len(written) : w[Len(v) + k] = written[k]
    BY <1>1, <1>2, ConcatLemma, Zenon
  <1> HIDE DEF w
  <1>4. Len(w) = messageLength' - start'
    BY <1>1, <1>2, <1>3
  <1>5. ASSUME NEW i \in Index, NEW o \in Offset,
               start - n <= At(i) + o, At(i) + o < messageLength
        PROVE  payload'[i][o] = w[At(i) + o - (start - n) + 1]
    <2> DEFINE x == At(i) + o
    <2>1. x \in Nat /\ At(i) \in Nat /\ o \in Nat
      BY ByteAt, Zenon
    <2>2. payload'[i][o] = IF start - n <= x /\ x < start
                           THEN v[x - (start - n) + 1] ELSE payload[i][o]
      <3>1. payload'[i][o] = IF start - n <= x /\ x < start - n + n
                             THEN v[At(i) + o - (start - n) + 1] ELSE payload[i][o]
        <4>1. Copy(Chunks(start - n, n), Fresh(n))[i][o]
                = IF start - n <= At(i) + o /\ At(i) + o < start - n + n
                  THEN Fresh(n)[At(i) + o - (start - n) + 1] ELSE payload[i][o]
          <5>1. CopiedAs(start - n, n, Fresh(n), i, o)
            BY <1>2, CopyLemma, Zenon
          <5> QED  BY <5>1, Zenon DEF CopiedAs
        <4> QED  BY <4>1, Zenon DEF v
      <3>2. At(i) + o - (start - n) + 1 = x - (start - n) + 1
        BY <1>2, <2>1
      <3> QED  BY <1>2, <3>1, <3>2
    <2>3. At(i) + o - (start - n) + 1 = x - (start - n) + 1
          /\ At(i) + o - start + 1 = x - start + 1
      BY <1>2, <2>1
    <2>4. CASE x < start
      <3> DEFINE k == x - (start - n) + 1
      <3>1. k \in 1..Len(v)
        <4>1. start - n <= x
          BY <1>5
        <4> HIDE DEF x
        <4> QED  BY <1>1, <1>2, <2>1, <2>4, <4>1
      <3>2. w[k] = v[k]
        <4> HIDE DEF k
        <4> QED  BY <1>3, <3>1, Zenon
      <3>3. payload'[i][o] = v[k]
        BY <1>5, <2>2, <2>4, Zenon
      <3> HIDE DEF x
      <3> QED  BY <2>3, <3>2, <3>3, Zenon
    <2>5. CASE ~(x < start)
      <3> DEFINE k == x - start + 1
      <3>1. k \in 1..Len(written) /\ start <= x /\ Len(v) + k = x - (start - n) + 1
        <4>1. x < messageLength
          BY <1>5
        <4> HIDE DEF x
        <4> QED  BY <1>1, <1>2, <2>1, <2>5, <4>1
      <3>2. w[Len(v) + k] = written[k]
        <4> HIDE DEF k
        <4> QED  BY <1>3, <3>1, Zenon
      <3>3. payload'[i][o] = payload[i][o]
        BY <2>2, <2>5, Zenon
      <3>4. payload[i][o] = written[At(i) + o - start + 1]
        BY <1>5, <3>1, Zenon DEF Kept
      <3> HIDE DEF x
      <3> QED  BY <2>3, <3>1, <3>2, <3>3, <3>4, Zenon
    <2> QED  BY <2>4, <2>5
  <1> QED  BY <1>3, <1>4, <1>5, Zenon DEF Kept, w, v

(* The packets that hold the message are the first ones.                     *)
LEMMA PackedFirst ==
  ASSUME BufferTypes, Packed
  PROVE  /\ occupied = 0..(numPackets - 1) /\ numPackets = numExpectedPackets
         /\ numPackets \in Nat
  <1> DEFINE q == numExpectedPackets
  <1>1. q \in 0..MAX_MESSAGE_PACKETS /\ \A i \in Nat : i < q <=> At(i) < messageLength
    BY ExpectedPackets, Zenon DEF BufferTypes
  <1> HIDE DEF q
  <1>2. MAX_MESSAGE_PACKETS \in Nat
    BY BufferAssumption
  <1>3. occupied = 0..(q - 1)
    <2>1. ASSUME NEW i \in Index, At(i) < messageLength
          PROVE  i \in 0..(q - 1)
      <3>1. i \in Nat
        BY <1>2 DEF Index
      <3>2. i < q
        BY <1>1, <2>1, <3>1
      <3> QED  BY <1>1, <1>2, <3>1, <3>2
    <2>2. ASSUME NEW i \in 0..(q - 1)
          PROVE  i \in Index /\ At(i) < messageLength
      <3>1. i \in Nat /\ i < q /\ i \in Index
        BY <1>1, <1>2 DEF Index
      <3> QED  BY <1>1, <3>1
    <2> QED  BY <2>1, <2>2, Zenon DEF Packed, Holding
  <1>4. Cardinality(0..(q - 1)) = q
    <2>1. 0 \in Int /\ q - 1 \in Int
      BY <1>1, <1>2
    <2>2. Cardinality(0..(q - 1)) = IF 0 > q - 1 THEN 0 ELSE q - 1 - 0 + 1
      BY <2>1, FS_Interval, Zenon
    <2> QED  BY <1>1, <1>2, <2>2
  <1>5. numPackets = q
    BY <1>3, <1>4, Zenon DEF Packed
  <1> QED  BY <1>1, <1>2, <1>3, <1>5 DEF q

(* It holds at first.                                                        *)
LEMMA BufferInvInit == BufferInit => BufferInv
  <1> SUFFICES ASSUME BufferInit PROVE BufferInv
    OBVIOUS
  <1>1. maxMessageLength \in Nat
    BY BufferAssumption, AtLemma DEF maxMessageLength
  <1>2. BufferTypes
    BY <1>1 DEF BufferInit, BufferTypes
  <1>3. messageLength = 0 /\ \A i \in Index : At(i) \in Nat
    <2>1. \A i \in Index : i \in Nat
      BY BufferAssumption DEF Index
    <2>2. \A i \in Index : At(i) \in Nat
      BY <2>1, AtLemma
    <2> QED  BY <2>2 DEF BufferInit
  <1>4. Packed
    <2>1. occupied = Holding(messageLength)
      BY <1>3 DEF BufferInit, Holding
    <2>2. numPackets = Cardinality(occupied)
      BY FS_EmptySet DEF BufferInit
    <2>3. \A i \in Index : Filled(messageLength, i) = 0
      BY <1>3 DEF Filled
    <2>4. packetLength = [i \in Index |-> Filled(messageLength, i)]
      BY <2>3, Zenon DEF BufferInit
    <2> QED  BY <2>1, <2>2, <2>4 DEF Packed
  <1>5. Kept
    <2>1. Len(written) = messageLength - start
      BY DEF BufferInit
    <2>2. \A i \in Index, o \in Offset : ~(At(i) + o < messageLength)
      <3>1. \A i \in Index, o \in Offset : At(i) + o \in Nat
        BY ByteAt, Zenon
      <3> QED  BY <1>3, <3>1
    <2> QED  BY <2>1, <2>2, Zenon DEF Kept
  <1>6. Sent /\ Received /\ ReleasedExactly
    BY DEF BufferInit, Sent, Received, ReleasedExactly
  <1> QED  BY <1>2, <1>4, <1>5, <1>6 DEF BufferInv

(* While a message is built, nothing is received or released.                *)
LEMMA BuildingKeeps ==
  ASSUME BufferInv, outState = "building", UNCHANGED <<outState, inVars, outReleased, inReleased>>
  PROVE  Sent' /\ ReleasedExactly' /\ inState = "none" /\ UNCHANGED <<inStart, inOccupied>>
         /\ (inOccupied \subseteq occupied' => Received')
  <1>1. inState = "none"
    BY DEF BufferInv, Sent
  <1>2. inState' = inState /\ inStart' = inStart /\ inOccupied' = inOccupied
    BY DEF inVars
  <1> QED  BY <1>1, <1>2 DEF Sent, ReleasedExactly, Received

(* Reserved headroom holds nothing that was written.                         *)
LEMMA ReserveKeeps ==
  ASSUME BufferInv, NEW n \in 1..MaxCount, reserve(n)
  PROVE  BufferInv'
  <1> DEFINE count == Clip(start, n)
  <1>1. /\ outState = "building" /\ start = messageLength
        /\ Extend(Chunks(start, count)) /\ start' = start + count
        /\ messageLength' = messageLength + count
        /\ UNCHANGED <<outState, payload, inVars, outReleased, inReleased, written>>
    BY Zenon DEF reserve
  <1>2. BufferTypes /\ Packed /\ Kept /\ Received
    BY DEF BufferInv
  <1>3. /\ messageLength \in Nat /\ maxMessageLength \in Nat
        /\ count \in Nat /\ messageLength + count <= maxMessageLength
    <2>1. maxMessageLength \in Nat /\ n \in Nat
      BY BufferAssumption, AtLemma DEF maxMessageLength
    <2>2. messageLength \in 0..maxMessageLength
      BY <1>2 DEF BufferTypes
    <2>3. count \in Nat /\ start + count <= maxMessageLength
      BY <1>1, <2>1, <2>2, ClipLemma, Zenon
    <2> QED  BY <1>1, <2>1, <2>2, <2>3
  <1> HIDE DEF count
  <1>4. Packed'
    BY <1>1, <1>2, <1>3, ExtendLemma, Zenon
  <1>5. occupied \subseteq occupied'
    BY <1>1, Zenon DEF Extend
  <1>6. Sent' /\ ReleasedExactly' /\ inState = "none" /\ UNCHANGED <<inStart, inOccupied>>
         /\ (inOccupied \subseteq occupied' => Received')
    BY <1>1, BuildingKeeps
  <1>7. Received'
    BY <1>2, <1>5, <1>6 DEF Received
  <1>8. BufferTypes'
    BY <1>1, <1>2, <1>3, <1>6 DEF BufferTypes, inVars
  <1>9. Kept'
    <2>1. Len(written') = messageLength' - start'
      BY <1>1, <1>2, <1>3 DEF Kept
    <2>2. \A i \in Index, o \in Offset :
            ~(start' <= At(i) + o /\ At(i) + o < messageLength')
      <3>1. \A i \in Index, o \in Offset : At(i) + o \in Nat
        BY ByteAt, Zenon
      <3>2. start' = messageLength' /\ messageLength' \in Nat
        BY <1>1, <1>3
      <3> QED  BY <3>1, <3>2
    <2> QED  BY <2>1, <2>2, Zenon DEF Kept
  <1> QED  BY <1>4, <1>6, <1>7, <1>8, <1>9 DEF BufferInv

(* append extends the message at its end.                                    *)
LEMMA AppendKeepsInv ==
  ASSUME BufferInv, NEW n \in 1..MaxCount, append(n)
  PROVE  BufferInv'
  <1> DEFINE count == Clip(messageLength, n)
  <1>1. /\ outState = "building"
        /\ Extend(Chunks(messageLength, count))
        /\ payload' = Copy(Chunks(messageLength, count), Fresh(count))
        /\ messageLength' = messageLength + count
        /\ written' = written \o Fresh(count)
        /\ UNCHANGED <<outState, start, inVars, outReleased, inReleased>>
    BY Zenon DEF append
  <1>2. BufferTypes /\ Packed /\ Kept /\ Received
    BY DEF BufferInv
  <1>3. /\ messageLength \in Nat /\ maxMessageLength \in Nat
        /\ count \in Nat /\ messageLength + count <= maxMessageLength
    <2>1. maxMessageLength \in Nat /\ n \in Nat
      BY BufferAssumption, AtLemma DEF maxMessageLength
    <2>2. messageLength \in 0..maxMessageLength
      BY <1>2 DEF BufferTypes
    <2>3. count \in Nat /\ messageLength + count <= maxMessageLength
      BY <2>1, <2>2, ClipLemma, Zenon
    <2> QED  BY <2>1, <2>2, <2>3
  <1> HIDE DEF count
  <1>4. Packed'
    BY <1>1, <1>2, <1>3, ExtendLemma, Zenon
  <1>5. occupied \subseteq occupied'
    BY <1>1, Zenon DEF Extend
  <1>6. Sent' /\ ReleasedExactly' /\ inState = "none" /\ UNCHANGED <<inStart, inOccupied>>
         /\ (inOccupied \subseteq occupied' => Received')
    BY <1>1, BuildingKeeps
  <1>7. Received'
    BY <1>2, <1>5, <1>6 DEF Received
  <1>8. start' = start
    BY <1>1
  <1>9. Kept' /\ written' \in Seq(Nat)
    BY <1>1, <1>2, <1>3, <1>8, AppendKeeps, Zenon
  <1>10. BufferTypes'
    <2>1. start' \in 0..messageLength' /\ messageLength' \in 0..maxMessageLength
      BY <1>1, <1>2, <1>3, <1>8 DEF BufferTypes
    <2> QED  BY <1>1, <1>2, <1>6, <1>9, <2>1 DEF BufferTypes, inVars
  <1> QED  BY <1>4, <1>6, <1>7, <1>9, <1>10 DEF BufferInv

(* prepend writes into packets that reserve allocated.                       *)
LEMMA PrependKeepsInv ==
  ASSUME BufferInv, NEW n \in 1..MaxCount, prepend(n)
  PROVE  BufferInv'
  <1>1. /\ outState = "building" /\ n <= start /\ start' = start - n
        /\ payload' = Copy(Chunks(start - n, n), Fresh(n))
        /\ written' = Fresh(n) \o written
        /\ UNCHANGED <<outState, messageLength, numPackets, occupied, packetLength, inVars,
                       outReleased, inReleased>>
    BY Zenon DEF prepend
  <1>2. BufferTypes /\ Packed /\ Kept /\ Received
    BY DEF BufferInv
  <1>3. n \in Nat /\ maxMessageLength \in Nat /\ messageLength' = messageLength
    BY <1>1, BufferAssumption, AtLemma DEF maxMessageLength
  <1>4. Packed'
    BY <1>1, <1>2 DEF Packed
  <1>5. Sent' /\ ReleasedExactly' /\ inState = "none" /\ UNCHANGED <<inStart, inOccupied>>
         /\ (inOccupied \subseteq occupied' => Received')
    BY <1>1, BuildingKeeps
  <1>6. Received'
    BY <1>1, <1>2, <1>5 DEF Received
  <1>7. Kept' /\ written' \in Seq(Nat)
    BY <1>1, <1>2, <1>3, PrependKeeps, Zenon
  <1>8. BufferTypes'
    <2>1. start' \in 0..messageLength' /\ messageLength' \in 0..maxMessageLength
      BY <1>1, <1>2, <1>3 DEF BufferTypes
    <2> QED  BY <1>1, <1>2, <1>5, <1>7, <2>1 DEF BufferTypes, inVars
  <1> QED  BY <1>4, <1>5, <1>6, <1>7, <1>8 DEF BufferInv

(* A message is sent once no headroom is left.                               *)
LEMMA SendKeeps ==
  ASSUME BufferInv, sendMessage
  PROVE  BufferInv'
  <1> USE DEF sendMessage, inVars
  <1>1. BufferTypes'
    BY DEF BufferInv, BufferTypes
  <1>2. Packed'
    BY DEF BufferInv, Packed
  <1>3. Kept'
    BY DEF BufferInv, Kept
  <1>4. Sent' /\ Received' /\ ReleasedExactly'
    BY DEF BufferInv, Sent, Received, ReleasedExactly
  <1> QED  BY <1>1, <1>2, <1>3, <1>4 DEF BufferInv

(* The sender's destructor counts on packets without a gap.                  *)
LEMMA DestroyOutKeeps ==
  ASSUME BufferInv, destroyOut
  PROVE  BufferInv'
  <1>1. occupied = 0..(numPackets - 1)
    BY PackedFirst, Zenon DEF BufferInv
  <1> USE DEF destroyOut, inVars
  <1>2. BufferTypes'
    BY DEF BufferInv, BufferTypes
  <1>3. Packed'
    BY DEF BufferInv, Packed
  <1>4. Kept'
    BY DEF BufferInv, Kept
  <1>5. Sent' /\ Received'
    BY DEF BufferInv, Sent, Received
  <1>6. ReleasedExactly'
    BY <1>1 DEF BufferInv, ReleasedExactly
  <1> QED  BY <1>2, <1>3, <1>4, <1>5, <1>6 DEF BufferInv

(* The packets that arrived are as many as there are only if all arrived.    *)
LEMMA HandleDataKeeps ==
  ASSUME BufferInv, NEW i \in Index, handleDataPacket(i)
  PROVE  BufferInv'
  <1>1. BufferTypes /\ Packed /\ Kept /\ Sent /\ Received /\ ReleasedExactly
    BY DEF BufferInv
  <1>2. /\ outState \in {"sent", "destroyed"} /\ i < numPackets
        /\ inState \in {"none", "IN_PROGRESS", "COMPLETED"}
        /\ inOccupied' = inOccupied \cup {i}
        /\ inState' = (IF Cardinality(inOccupied') < numExpectedPackets
                       THEN "IN_PROGRESS" ELSE "COMPLETED")
        /\ UNCHANGED <<outVars, inStart, outReleased, inReleased, written>>
    BY Zenon DEF handleDataPacket, setPacket
  <1>3. occupied = 0..(numPackets - 1) /\ numPackets = numExpectedPackets /\ numPackets \in Nat
    BY <1>1, PackedFirst, Zenon
  <1>4. numPackets = Cardinality(occupied)
    BY <1>1 DEF Packed
  <1>5. i \in occupied
    BY <1>2, <1>3, BufferAssumption DEF Index
  <1>6. inOccupied' \subseteq occupied /\ inOccupied' \subseteq Index
    BY <1>1, <1>2, <1>5 DEF Received, BufferTypes
  <1>7. ~(Cardinality(inOccupied') < numExpectedPackets) => inOccupied' = occupied
    <2>1. IsFiniteSet(occupied)
      BY <1>3, FS_Interval
    <2>2. /\ Cardinality(inOccupied') <= Cardinality(occupied)
          /\ Cardinality(occupied) = Cardinality(inOccupied') => occupied = inOccupied'
          /\ IsFiniteSet(inOccupied')
      BY <1>6, <2>1, FS_Subset
    <2>3. Cardinality(inOccupied') \in Nat
      BY <2>2, FS_CardinalityType
    <2> QED  BY <1>3, <1>4, <2>2, <2>3
  <1>8. inState' \in {"IN_PROGRESS", "COMPLETED"} /\ (inState' = "COMPLETED" => inOccupied' = occupied)
    BY <1>2, <1>7
  <1>9. /\ UNCHANGED <<outState, start, messageLength, numPackets, occupied, packetLength, payload>>
        /\ UNCHANGED <<inStart, outReleased, inReleased, written>>
    BY <1>2 DEF outVars
  <1>10. BufferTypes'
    BY <1>1, <1>6, <1>8, <1>9 DEF BufferTypes
  <1>11. Packed'
    BY <1>1, <1>9 DEF Packed
  <1>12. Kept'
    BY <1>1, <1>9 DEF Kept
  <1>13. Sent'
    BY <1>1, <1>2, <1>9 DEF Sent
  <1>14. Received'
    BY <1>6, <1>8, <1>9 DEF Received
  <1>15. ReleasedExactly'
    BY <1>1, <1>8, <1>9 DEF ReleasedExactly
  <1> QED  BY <1>10, <1>11, <1>12, <1>13, <1>14, <1>15 DEF BufferInv

(* strip moves no byte.                                                      *)
LEMMA StripKeeps ==
  ASSUME BufferInv, NEW n \in 1..MaxCount, strip(n)
  PROVE  BufferInv'
  <1>1. BufferTypes /\ Packed /\ Kept /\ Sent /\ Received /\ ReleasedExactly
    BY DEF BufferInv
  <1>2. /\ inStart' = Least(inStart + n, messageLength)
        /\ UNCHANGED <<outState, start, messageLength, numPackets, occupied, packetLength, payload>>
        /\ UNCHANGED <<inState, inOccupied, outReleased, inReleased, written>>
    BY DEF strip, outVars
  <1>3. inStart' \in Nat
    <2>1. inStart \in Nat /\ messageLength \in Nat /\ n \in Nat
      BY <1>1, BufferAssumption DEF BufferTypes, maxMessageLength
    <2> QED  BY <1>2, <2>1 DEF Least
  <1>4. BufferTypes'
    BY <1>1, <1>2, <1>3 DEF BufferTypes
  <1>5. Packed'
    BY <1>1, <1>2 DEF Packed
  <1>6. Kept'
    BY <1>1, <1>2 DEF Kept
  <1>7. Sent' /\ Received' /\ ReleasedExactly'
    BY <1>1, <1>2 DEF Sent, Received, ReleasedExactly
  <1> QED  BY <1>4, <1>5, <1>6, <1>7 DEF BufferInv

(* The receiver's destructor releases what arrived.                          *)
LEMMA DestroyInKeeps ==
  ASSUME BufferInv, destroyIn
  PROVE  BufferInv'
  <1>1. BufferTypes /\ Packed /\ Kept /\ Sent /\ Received /\ ReleasedExactly
    BY DEF BufferInv
  <1> DEFINE all == Released.released \o LastRegion(Released)
  <1>2. /\ inState \in {"IN_PROGRESS", "COMPLETED"} /\ inState' = "destroyed"
        /\ inReleased' = all
        /\ UNCHANGED <<outVars, inStart, inOccupied, outReleased, written>>
    BY Zenon DEF destroyIn
  <1>3. ToSet(all) = inOccupied /\ Len(all) = Cardinality(inOccupied)
    BY <1>1, ReleasedLemma, Zenon DEF BufferTypes
  <1> HIDE DEF all
  <1>4. /\ UNCHANGED <<outState, start, messageLength, numPackets, occupied, packetLength, payload>>
        /\ UNCHANGED <<inStart, inOccupied, outReleased, written>>
    BY <1>2 DEF outVars
  <1>5. BufferTypes'
    BY <1>1, <1>2, <1>4 DEF BufferTypes
  <1>6. Packed'
    BY <1>1, <1>4 DEF Packed
  <1>7. Kept'
    BY <1>1, <1>4 DEF Kept
  <1>8. Sent' /\ Received'
    BY <1>1, <1>2, <1>4 DEF Sent, Received
  <1>9. ToSet(inReleased') = inOccupied' /\ Len(inReleased') = Cardinality(inOccupied')
    BY <1>2, <1>3, <1>4, Zenon
  <1>10. outState' \in {"destroyed", "discarded"} => outReleased' = occupied'
    BY <1>1, <1>4, Zenon DEF ReleasedExactly
  <1>11. ReleasedExactly'
    BY <1>9, <1>10, Zenon DEF ReleasedExactly
  <1> QED  BY <1>5, <1>6, <1>7, <1>8, <1>11 DEF BufferInv

(* Every step keeps it.                                                      *)
LEMMA BufferInvNext == BufferInv /\ [BufferNext]_bufferVars => BufferInv'
  <1> SUFFICES ASSUME BufferInv, [BufferNext]_bufferVars PROVE BufferInv'
    OBVIOUS
  <1>1. ASSUME NEW n \in 1..MaxCount, reserve(n) PROVE BufferInv'
    BY <1>1, ReserveKeeps, Zenon
  <1>2. ASSUME NEW n \in 1..MaxCount, append(n) PROVE BufferInv'
    BY <1>2, AppendKeepsInv, Zenon
  <1>3. ASSUME NEW n \in 1..MaxCount, prepend(n) PROVE BufferInv'
    BY <1>3, PrependKeepsInv, Zenon
  <1>4. ASSUME NEW n \in 1..MaxCount, strip(n) PROVE BufferInv'
    BY <1>4, StripKeeps, Zenon
  <1>5. ASSUME sendMessage PROVE BufferInv'
    BY <1>5, SendKeeps, Zenon
  <1>6. ASSUME NEW i \in Index, handleDataPacket(i) PROVE BufferInv'
    BY <1>6, HandleDataKeeps, Zenon
  <1>7. ASSUME destroyOut PROVE BufferInv'
    BY <1>7, DestroyOutKeeps, Zenon
  <1>8. ASSUME destroyIn PROVE BufferInv'
    BY <1>8, DestroyInKeeps, Zenon
  <1>9. CASE UNCHANGED bufferVars
    <2> USE <1>9 DEF bufferVars, outVars, inVars
    <2>1. BufferTypes'
      BY DEF BufferInv, BufferTypes
    <2>2. Packed'
      BY DEF BufferInv, Packed
    <2>3. Kept'
      BY DEF BufferInv, Kept
    <2>4. Sent' /\ Received' /\ ReleasedExactly'
      BY DEF BufferInv, Sent, Received, ReleasedExactly
    <2> QED  BY <2>1, <2>2, <2>3, <2>4 DEF BufferInv
  <1> QED  BY <1>1, <1>2, <1>3, <1>4, <1>5, <1>6, <1>7, <1>8, <1>9, Zenon DEF BufferNext

(* It says all that ContentsExact does.                                      *)
LEMMA BufferInvExact == BufferInv => ContentsExact
  <1> SUFFICES ASSUME BufferInv PROVE ContentsExact
    OBVIOUS
  <1>1. BufferTypes /\ Packed /\ Kept /\ Sent /\ Received /\ ReleasedExactly
    BY DEF BufferInv
  <1>2. Packetized
    <2>1. occupied = 0..(numPackets - 1) /\ numPackets = numExpectedPackets
      BY <1>1, PackedFirst, Zenon
    <2>2. ASSUME NEW i \in occupied
          PROVE  packetLength[i] = Least(PACKET_DATA_LENGTH,
                                         messageLength - i * PACKET_DATA_LENGTH)
      <3>1. i \in Index /\ At(i) < messageLength
        BY <1>1 DEF Packed, Holding
      <3>2. packetLength[i] = Filled(messageLength, i)
        BY <1>1, <3>1, Zenon DEF Packed
      <3>3. At(i) \in Nat /\ messageLength \in Nat
        <4>1. i \in Nat
          BY <3>1, BufferAssumption DEF Index
        <4>2. At(i) \in Nat /\ maxMessageLength \in Nat
          BY <4>1, AtLemma, BufferAssumption DEF maxMessageLength
        <4> QED  BY <1>1, <4>2 DEF BufferTypes
      <3>4. ~(messageLength <= At(i))
        BY <3>1, <3>3
      <3>5. packetLength[i] = Least(PACKET_DATA_LENGTH, messageLength - At(i))
        BY <3>2, <3>4, Zenon DEF Filled
      <3> QED  BY <3>5, Zenon DEF At
    <2> QED  BY <2>1, <2>2, Zenon DEF Packetized
  <1>3. ReadsWritten
    <2> SUFFICES ASSUME inState = "COMPLETED"
                 PROVE  /\ Len(written) = messageLength
                        /\ \A offset, count \in 0..(maxMessageLength + 1) :
                             get(offset, count)
                               = SubSeq(written, inStart + offset + 1,
                                        Least(messageLength, inStart + offset + count))
      BY Zenon DEF ReadsWritten
    <2>1. start = 0
      BY <1>1 DEF Sent
    <2>2. inOccupied = Holding(messageLength)
      BY <1>1 DEF Received, Packed
    <2>3. maxMessageLength \in Nat
      BY BufferAssumption, AtLemma DEF maxMessageLength
    <2>4. Len(written) = messageLength
      BY <1>1, <2>1, <2>3 DEF Kept, BufferTypes
    <2>5. messageLength \in 0..maxMessageLength /\ written \in Seq(Nat) /\ inStart \in Nat
      BY <1>1 DEF BufferTypes
    <2>6. ASSUME NEW offset \in 0..(maxMessageLength + 1),
                 NEW count \in 0..(maxMessageLength + 1)
          PROVE  get(offset, count)
                   = SubSeq(written, inStart + offset + 1,
                            Least(messageLength, inStart + offset + count))
      <3>1. offset \in Nat /\ count \in Nat
        BY <2>3
      <3> QED  BY <1>1, <2>1, <2>2, <2>5, <3>1, GetLemma, Zenon
    <2> QED  BY <2>4, <2>6, Zenon
  <1> QED  BY <1>1, <1>2, <1>3 DEF ContentsExact

(* For packets of any size and any number of them: however a message is      *)
(* built with reserve, append and prepend, its packets are full but for the  *)
(* last, whatever order they arrive in get reads what was written, and both  *)
(* destructors release every packet once.                                    *)
THEOREM ContentsStayExact ==
  BufferInit /\ [][BufferNext]_bufferVars => []ContentsExact
  BY BufferInvInit, BufferInvNext, BufferInvExact, PTL
=============================================================================
