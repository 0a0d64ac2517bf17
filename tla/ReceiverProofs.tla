--------------------------- MODULE ReceiverProofs ---------------------------
(***************************************************************************)
(* Proofs that the safety properties of Receiver hold for any number of     *)
(* messages, peers and packets, and any policy.  The two-level schedule is  *)
(* treated first, as a value: what schedule, unschedule and updateSchedule  *)
(* do to a schedule that is sound.  The invariant then needs only which     *)
(* messages are in it.                                                      *)
(***************************************************************************)
EXTENDS Receiver, IntrusiveListTheorems, FiniteSetTheorems

(* The types of the variables, the schedule's apart (SoundSchedule).         *)
TypeOK ==
  /\ state \in [Message -> {"NONE", "IN_PROGRESS", "COMPLETED", "DROPPED"}]
  /\ packets \in [Message -> SUBSET Nat]
  /\ \A m \in Message : packets[m] \subseteq Indices(m)
  /\ numUnscheduledPackets \in [Message -> Nat]
  /\ bytesRemaining \in [Message -> Nat]
  /\ bytesGranted \in [Message -> Nat]
  /\ messageTimeout \subseteq Message /\ resendTimeout \subseteq Message
  /\ receivedMessages \in Seq(Message) /\ delivered \subseteq Message
  /\ granting \in BOOLEAN /\ it \in Peer \cup {NoPeer} /\ slot \in Nat

(* The messages in list q come from peer p.                                  *)
FromPeer(q, p) == \A m \in Elements(q) : Source[m] = p

(* The schedule s is sound for the bytesRemaining in rem: it holds each      *)
(* message at most once and with its own peer, each peer that has messages   *)
(* once and no other, and both levels are in SRPT order.                     *)
SoundSchedule(s, rem) ==
  /\ s.messages \in [Peer -> Seq(Message)]
  /\ s.peers \in Seq(Peer)
  /\ \A p \in Peer : /\ Linked(s.messages[p])
                     /\ FromPeer(s.messages[p], p)
                     /\ Ordered(s.messages[p], rem)
  /\ Linked(s.peers)
  /\ Elements(s.peers) = {p \in Peer : s.messages[p] # <<>>}
  /\ Ordered(s.peers, PeerKey(s.messages, rem))

(* The messages that are linked in s.                                        *)
Scheduled(s) == {m \in Message : m \in Elements(s.messages[Source[m]])}

(* trySendGrants' iterator refers to a peer that is linked.                  *)
IteratorValid == granting /\ it # NoPeer => it \in Elements(schedule.peers)

(* The bytes of m that are missing when the packets in pk are there.         *)
MissingBytes(m, pk) ==
  LET missing == Indices(m) \ pk
      last == numExpectedPackets(m) - 1
  IN  IF last \in missing
      THEN (Cardinality(missing) - 1) * PACKET_DATA_LENGTH + PacketBytes(m, last)
      ELSE Cardinality(missing) * PACKET_DATA_LENGTH

(* A message's place: the queue, the application and the timeouts.           *)
MessageOK(m) ==
  /\ state[m] = "NONE" => packets[m] = {}
  /\ state[m] # "NONE" => (state[m] = "IN_PROGRESS" <=> packets[m] # Indices(m))
  /\ m \in Elements(receivedMessages) \/ m \in delivered
       <=> state[m] # "NONE" /\ packets[m] = Indices(m)
  /\ ~(m \in Elements(receivedMessages) /\ m \in delivered)
  /\ m \in resendTimeout <=> state[m] = "IN_PROGRESS" /\ packets[m] # {}
  /\ m \in resendTimeout => m \in messageTimeout
  /\ m \in messageTimeout => state[m] # "NONE"

(* A message's grants, and its place in the schedule.                        *)
GrantOK(m) ==
  /\ m \in Scheduled(schedule)
       <=> state[m] # "NONE" /\ NeedsGrants(m) /\ bytesGranted[m] < Length[m]
  /\ bytesRemaining[m] <= Length[m]
  /\ m \in Scheduled(schedule) =>
       /\ bytesGranted[m] <= Length[m] - bytesRemaining[m] + maxScheduledBytes
       /\ bytesRemaining[m] = MissingBytes(m, packets[m])

(* The inductive invariant.                                                  *)
Inv ==
  /\ TypeOK
  /\ SoundSchedule(schedule, bytesRemaining)
  /\ IteratorValid
  /\ Linked(receivedMessages)
  /\ \A m \in Message : MessageOK(m) /\ GrantOK(m)

-----------------------------------------------------------------------------
(* One level of the schedule. *)

(* The keys of S are numbers; new differs from key at x only.                *)
IntKeys(S, key) == \A e \in S : key[e] \in Int
AgreeBut(S, key, new, x) == \A e \in S \ {x} : new[e] = key[e]

(* Nothing in an ordered list precedes its first element.                    *)
LEMMA FirstIsLeast ==
  ASSUME NEW S, NEW q \in Seq(S), NEW key, IntKeys(S, key),
         Ordered(q, key), NEW e \in Elements(q)
  PROVE  /\ q # <<>>
         /\ q[1] \in Elements(q)
         /\ key[q[1]] <= key[e]
<1>1. Position(q, e) \in 1..Len(q) /\ q[Position(q, e)] = e
  BY PositionLemma
<1>2. 1 \in 1..Len(q) /\ q[1] \in S
  BY <1>1
<1>3. q[1] \in Elements(q)
  BY <1>2 DEF Elements
<1>4. key[q[1]] <= key[e]
  <2>1. CASE Position(q, e) = 1
    BY <2>1, <1>1, <1>2 DEF IntKeys
  <2>2. CASE Position(q, e) > 1
    BY <2>2, <1>1, <1>2 DEF Ordered
  <2> QED BY <2>1, <2>2, <1>1
<1> QED BY <1>1, <1>2, <1>3, <1>4

(* A list is empty exactly if it has no element.                             *)
LEMMA EmptyList ==
  ASSUME NEW S, NEW q \in Seq(S)
  PROVE  /\ q = <<>> <=> Elements(q) = {}
         /\ q # <<>> => q[1] \in Elements(q)
         /\ Elements(q) \subseteq S
<1>1. q # <<>> => 1 \in 1..Len(q)
  OBVIOUS
<1>2. q # <<>> => q[1] \in Elements(q)
  BY <1>1 DEF Elements
<1>3. q = <<>> => Elements(q) = {}
  BY DEF Elements
<1> QED BY <1>2, <1>3, PositionLemma

(* The order depends on the keys of the elements only.                       *)
LEMMA SameKeys ==
  ASSUME NEW S, NEW q \in Seq(S), NEW key, NEW new,
         \A e \in Elements(q) : new[e] = key[e], Ordered(q, key)
  PROVE  Ordered(q, new)
BY DEF Ordered, Elements

(* prioritize restores the order after the key of x has gone down.           *)
LEMMA LoweredKey ==
  ASSUME NEW S, NEW q \in Seq(S), Linked(q), NEW x \in Elements(q),
         NEW key, IntKeys(S, key),
         NEW new, IntKeys(S, new),
         AgreeBut(S, key, new, x), new[x] <= key[x],
         Ordered(q, key)
  PROVE  Ordered(Prioritize(q, x, new), new)
<1>1. Position(q, x) \in 1..Len(q) /\ q[Position(q, x)] = x /\ x \in S
  BY PositionLemma
<1>2. ASSUME NEW i \in 1..Len(q), NEW j \in 1..Len(q), i < j, q[i] # x, q[j] # x
      PROVE  new[q[i]] <= new[q[j]]
  BY <1>2 DEF Ordered, AgreeBut
<1>3. ASSUME NEW i \in 1..Len(q), i > Position(q, x)
      PROVE  new[x] <= new[q[i]]
  <2>1. key[x] <= key[q[i]] /\ q[i] # x /\ q[i] \in S
    BY <1>1, <1>3 DEF Ordered, Linked
  <2> QED BY <2>1, <1>1 DEF AgreeBut, IntKeys
<1> QED BY <1>2, <1>3, PrioritizeLemma DEF IntKeys

(* deprioritize restores the order after the key of x has gone up.           *)
LEMMA RaisedKey ==
  ASSUME NEW S, NEW q \in Seq(S), Linked(q), NEW x \in Elements(q),
         NEW key, IntKeys(S, key),
         NEW new, IntKeys(S, new),
         AgreeBut(S, key, new, x), key[x] <= new[x],
         Ordered(q, key)
  PROVE  Ordered(Deprioritize(q, x, new), new)
<1>1. Position(q, x) \in 1..Len(q) /\ q[Position(q, x)] = x /\ x \in S
  BY PositionLemma
<1>2. ASSUME NEW i \in 1..Len(q), NEW j \in 1..Len(q), i < j, q[i] # x, q[j] # x
      PROVE  new[q[i]] <= new[q[j]]
  BY <1>2 DEF Ordered, AgreeBut
<1>3. ASSUME NEW i \in 1..Len(q), i < Position(q, x)
      PROVE  new[q[i]] <= new[x]
  <2>1. key[q[i]] <= key[x] /\ q[i] # x /\ q[i] \in S
    BY <1>1, <1>3 DEF Ordered, Linked
  <2> QED BY <2>1, <1>1 DEF AgreeBut, IntKeys
<1> QED BY <1>2, <1>3, DeprioritizeLemma DEF IntKeys

(* Nothing has to move if the key of x has gone up, but not above that of    *)
(* the element after x.                                                      *)
LEMMA RaisedInPlace ==
  ASSUME NEW S, NEW q \in Seq(S), Linked(q), NEW x \in Elements(q),
         NEW key, IntKeys(S, key),
         NEW new, IntKeys(S, new),
         AgreeBut(S, key, new, x), key[x] <= new[x],
         Ordered(q, key), NEW Nil, Nil \notin S,
         NextOf(q, x, Nil) = Nil \/ new[x] <= new[NextOf(q, x, Nil)]
  PROVE  Ordered(q, new)
<1> DEFINE k == Position(q, x)
           n == NextOf(q, x, Nil)
<1>1. k \in 1..Len(q) /\ q[k] = x /\ x \in S
  BY PositionLemma
<1>2. /\ n # Nil => Position(q, n) = k + 1 /\ n \in Elements(q) /\ n # x
      /\ n = Nil => k = Len(q)
  BY NextLemma
<1>3. n # Nil => k + 1 \in 1..Len(q) /\ q[k + 1] = n /\ n \in S
  BY <1>2, PositionLemma
<1> HIDE DEF k, n
<1> SUFFICES ASSUME NEW i \in 1..Len(q), NEW j \in 1..Len(q), i < j
             PROVE  new[q[i]] <= new[q[j]]
  BY DEF Ordered
<1>4. \A h \in 1..Len(q) : q[h] \in S /\ (h # k => q[h] # x /\ new[q[h]] = key[q[h]])
  BY <1>1 DEF Linked, AgreeBut
<1>5. key[q[i]] <= key[q[j]]
  BY DEF Ordered
<1>6. CASE i # k /\ j # k
  BY <1>4, <1>5, <1>6
<1>7. CASE j = k
  <2>1. new[q[i]] = key[q[i]] /\ q[i] \in S /\ q[j] = x
    BY <1>1, <1>4, <1>7
  <2> QED BY <2>1, <1>1, <1>5 DEF IntKeys
<1>8. CASE i = k
  <2>1. n # Nil /\ new[x] <= new[n]
    BY <1>1, <1>2, <1>8 DEF n
  <2>2. key[n] <= key[q[j]]
    <3>1. CASE j = k + 1
      BY <3>1, <2>1, <1>3 DEF IntKeys
    <3>2. CASE j > k + 1
      BY <3>2, <2>1, <1>3 DEF Ordered
    <3> QED BY <3>1, <3>2, <1>8, <1>1
  <2>3. new[n] = key[n] /\ new[q[j]] = key[q[j]] /\ q[j] \in S /\ q[i] = x
    BY <2>1, <1>1, <1>2, <1>3, <1>4, <1>8 DEF AgreeBut
  <2> QED BY <2>1, <2>2, <2>3, <1>1, <1>3 DEF IntKeys
<1> QED BY <1>6, <1>7, <1>8

-----------------------------------------------------------------------------
(* The two levels together. *)

(* What a sound schedule says of one peer.                                   *)
LEMMA PeerOf ==
  ASSUME NEW s, NEW rem \in [Message -> Nat], SoundSchedule(s, rem), NEW p \in Peer
  PROVE  /\ s.messages[p] \in Seq(Message)
         /\ Linked(s.messages[p])
         /\ Ordered(s.messages[p], rem)
         /\ Elements(s.messages[p]) \subseteq Message
         /\ FromPeer(s.messages[p], p)
         /\ p \in Elements(s.peers) <=> s.messages[p] # <<>>
<1>1. s.messages[p] \in Seq(Message)
  BY DEF SoundSchedule
<1>2. Elements(s.messages[p]) \subseteq Message
  BY <1>1, EmptyList
<1> QED BY <1>1, <1>2 DEF SoundSchedule

(* The keys of the peers are numbers.                                        *)
LEMMA PeerKeyType ==
  ASSUME NEW messages \in [Peer -> Seq(Message)], NEW rem \in [Message -> Nat]
  PROVE  /\ PeerKey(messages, rem) \in [Peer -> Nat]
         /\ IntKeys(Peer, PeerKey(messages, rem))
<1> SUFFICES ASSUME NEW p \in Peer, messages[p] # <<>> PROVE rem[messages[p][1]] \in Nat
  BY DEF PeerKey, IntKeys
<1>1. messages[p] \in Seq(Message) /\ 1 \in 1..Len(messages[p])
  OBVIOUS
<1>2. messages[p][1] \in Message
  BY <1>1
<1> QED BY <1>2

(* The lists of messages after those of the peer of m have become q.         *)
With(s, m, q) == [s.messages EXCEPT ![Source[m]] = q]

(* A change to one peer's messages and to the bytesRemaining of one of them  *)
(* leaves the keys of the other peers alone.                                 *)
LEMMA OtherKeys ==
  ASSUME NEW s, NEW old \in [Message -> Nat], SoundSchedule(s, old),
         NEW m \in Message, NEW q \in Seq(Message),
         NEW rem \in [Message -> Nat], AgreeBut(Message, old, rem, m)
  PROVE  /\ With(s, m, q) \in [Peer -> Seq(Message)]
         /\ With(s, m, q)[Source[m]] = q
         /\ PeerKey(With(s, m, q), rem)[Source[m]] = IF q = <<>> THEN 0 ELSE rem[q[1]]
         /\ \A p \in Peer \ {Source[m]} :
              /\ With(s, m, q)[p] = s.messages[p]
              /\ Ordered(With(s, m, q)[p], rem)
         /\ AgreeBut(Peer, PeerKey(s.messages, old), PeerKey(With(s, m, q), rem), Source[m])
<1> DEFINE messages == With(s, m, q)
<1>1. Source[m] \in Peer /\ s.messages \in [Peer -> Seq(Message)]
  BY PeerAssumption DEF SoundSchedule
<1>2. /\ messages \in [Peer -> Seq(Message)] /\ messages[Source[m]] = q
      /\ \A p \in Peer \ {Source[m]} : messages[p] = s.messages[p]
  BY <1>1 DEF With
<1> HIDE DEF messages
<1>3. PeerKey(messages, rem)[Source[m]] = IF q = <<>> THEN 0 ELSE rem[q[1]]
  BY <1>1, <1>2 DEF PeerKey
<1>4. ASSUME NEW p \in Peer \ {Source[m]}
      PROVE  /\ Ordered(messages[p], rem)
             /\ PeerKey(messages, rem)[p] = PeerKey(s.messages, old)[p]
  <2>1. messages[p] = s.messages[p] /\ s.messages[p] \in Seq(Message)
    BY <1>1, <1>2
  <2>2. Ordered(s.messages[p], old) /\ \A x \in Elements(s.messages[p]) : rem[x] = old[x]
    BY PeerOf DEF AgreeBut, FromPeer
  <2>3. Ordered(s.messages[p], rem)
    BY <2>1, <2>2, SameKeys
  <2>4. s.messages[p] # <<>> => rem[s.messages[p][1]] = old[s.messages[p][1]]
    BY <2>1, <2>2, EmptyList
  <2> QED BY <2>1, <2>3, <2>4 DEF PeerKey
<1> QED BY <1>2, <1>3, <1>4 DEF messages, AgreeBut

(* t is s after the messages of the peer of m have become q and the peers    *)
(* have been adjusted.                                                       *)
PeersFollow(s, m, q, t, rem) ==
  /\ t.messages = With(s, m, q)
  /\ t.peers \in Seq(Peer) /\ Linked(t.peers)
  /\ Elements(t.peers) = IF q = <<>> THEN Elements(s.peers) \ {Source[m]}
                                     ELSE Elements(s.peers) \cup {Source[m]}
  /\ Ordered(t.peers, PeerKey(t.messages, rem))

(* The messages that are linked then.                                        *)
LinkedAfter(s, m, q) ==
  (Scheduled(s) \ Elements(s.messages[Source[m]])) \cup Elements(q)

(* What it takes for a schedule to be sound again after a change to one      *)
(* peer's messages.                                                          *)
LEMMA SoundAgain ==
  ASSUME NEW s, NEW old \in [Message -> Nat], SoundSchedule(s, old),
         NEW m \in Message, NEW q \in Seq(Message), Linked(q),
         NEW rem \in [Message -> Nat], AgreeBut(Message, old, rem, m),
         Ordered(q, rem), FromPeer(q, Source[m]),
         NEW t, PeersFollow(s, m, q, t, rem)
  PROVE  /\ SoundSchedule(t, rem)
         /\ t.messages[Source[m]] = q
         /\ \A p \in Peer \ {Source[m]} : t.messages[p] = s.messages[p]
         /\ \A x : x \in Scheduled(t) <=> x \in LinkedAfter(s, m, q)
<1> DEFINE messages == With(s, m, q)
<1>1. /\ messages \in [Peer -> Seq(Message)]
      /\ messages[Source[m]] = q
      /\ \A p \in Peer \ {Source[m]} : messages[p] = s.messages[p] /\ Ordered(messages[p], rem)
  BY OtherKeys, SMTT(20)
<1>2. Source[m] \in Peer
  BY PeerAssumption
<1>3. /\ t.messages = messages /\ Ordered(t.peers, PeerKey(messages, rem))
      /\ t.peers \in Seq(Peer) /\ Linked(t.peers)
      /\ Elements(t.peers) = IF q = <<>> THEN Elements(s.peers) \ {Source[m]}
                                         ELSE Elements(s.peers) \cup {Source[m]}
  BY DEF PeersFollow
<1> HIDE DEF messages
<1>4. ASSUME NEW p \in Peer
      PROVE  /\ Linked(messages[p])
             /\ FromPeer(messages[p], p)
             /\ Ordered(messages[p], rem)
  <2>1. CASE p = Source[m]
    BY <2>1, <1>1
  <2>2. CASE p # Source[m]
    BY <2>2, <1>1, PeerOf
  <2> QED BY <2>1, <2>2
<1>5. Elements(t.peers) = {p \in Peer : messages[p] # <<>>}
  <2>1. Elements(s.peers) = {p \in Peer : s.messages[p] # <<>>}
    BY DEF SoundSchedule
  <2> QED BY <2>1, <1>1, <1>2, <1>3
<1>6. SoundSchedule(t, rem)
  BY <1>1, <1>3, <1>4, <1>5 DEF SoundSchedule
<1>7. Scheduled(t) = LinkedAfter(s, m, q)
  <2> SUFFICES ASSUME NEW x \in Message
               PROVE  x \in Scheduled(t) <=>
                        \/ x \in Scheduled(s) /\ x \notin Elements(s.messages[Source[m]])
                        \/ x \in Elements(q)
    BY EmptyList DEF Scheduled, LinkedAfter
  <2>1. Source[x] \in Peer
    BY PeerAssumption
  <2>2. CASE Source[x] = Source[m]
    BY <2>2, <1>1, <1>3 DEF Scheduled
  <2>3. CASE Source[x] # Source[m]
    <3>1. x \notin Elements(q) /\ x \notin Elements(s.messages[Source[m]])
      <4>1. FromPeer(s.messages[Source[m]], Source[m])
        BY <1>2, PeerOf
      <4> QED BY <4>1, <2>3 DEF FromPeer
    <3> QED BY <3>1, <2>1, <2>3, <1>1, <1>3 DEF Scheduled
  <2> QED BY <2>2, <2>3
<1> QED BY <1>1, <1>3, <1>6, <1>7

(* Receiver::schedule links a message that was not linked.                   *)
LEMMA ScheduleLemma ==
  ASSUME NEW s, NEW old \in [Message -> Nat], SoundSchedule(s, old),
         NEW m \in Message, m \notin Scheduled(s),
         NEW rem \in [Message -> Nat], AgreeBut(Message, old, rem, m)
  PROVE  /\ SoundSchedule(Schedule(s, m, rem), rem)
         /\ Scheduled(Schedule(s, m, rem)) = Scheduled(s) \cup {m}
<1> DEFINE p == Source[m]
           q0 == s.messages[p]
           q == Deprioritize(PushFront(q0, m), m, rem)
           key0 == PeerKey(s.messages, old)
           messages == With(s, m, q)
           key == PeerKey(messages, rem)
           t == Schedule(s, m, rem)
<1>1. p \in Peer /\ m \notin Elements(q0)
  BY PeerAssumption DEF Scheduled
<1>2. /\ q0 \in Seq(Message) /\ Linked(q0) /\ Ordered(q0, old)
      /\ Elements(q0) \subseteq Message /\ FromPeer(q0, p)
      /\ p \in Elements(s.peers) <=> q0 # <<>>
  BY <1>1, PeerOf
<1>3. Ordered(q0, rem) /\ \A x \in Elements(q0) : rem[x] = old[x]
  <2>1. \A x \in Elements(q0) : rem[x] = old[x]
    BY <1>1, <1>2 DEF AgreeBut
  <2> QED BY <2>1, <1>2, SameKeys
<1>4. /\ q \in Seq(Message) /\ Linked(q) /\ Ordered(q, rem)
      /\ Elements(q) = Elements(q0) \cup {m}
  BY <1>1, <1>2, <1>3, InsertLemma
<1>5. s.peers \in Seq(Peer) /\ Linked(s.peers) /\ Ordered(s.peers, key0)
  BY DEF SoundSchedule
<1> HIDE DEF q
<1>6. /\ q # <<>> /\ q[1] \in Elements(q)
      /\ \A x \in Elements(q) : rem[q[1]] <= rem[x]
  <2>1. IntKeys(Message, rem) /\ m \in Elements(q)
    BY <1>4 DEF IntKeys
  <2> QED BY <2>1, <1>4, FirstIsLeast
<1>7. /\ messages \in [Peer -> Seq(Message)] /\ messages[p] = q
      /\ key[p] = rem[q[1]]
      /\ AgreeBut(Peer, key0, key, p)
  BY <1>4, <1>6, OtherKeys
<1>8. IntKeys(Peer, key) /\ IntKeys(Peer, key0)
  <2>1. s.messages \in [Peer -> Seq(Message)]
    BY DEF SoundSchedule
  <2> QED BY <2>1, <1>7, PeerKeyType
<1>9. q0 # <<>> => /\ key0[p] = old[q0[1]] /\ q0[1] \in Elements(q0)
                   /\ rem[q0[1]] = old[q0[1]]
                   /\ \A x \in Elements(q0) : rem[q0[1]] <= rem[x]
  <2>1. q0 # <<>> => key0[p] = old[q0[1]] /\ q0[1] \in Elements(q0)
    BY <1>1, <1>2, EmptyList DEF PeerKey
  <2>2. \A x \in Elements(q0) : rem[q0[1]] <= rem[x]
    <3>1. IntKeys(Message, rem)
      BY DEF IntKeys
    <3> QED BY <3>1, <1>2, <1>3, FirstIsLeast
  <2> QED BY <2>1, <2>2, <1>3
<1>10. t = [messages |-> messages,
            peers |-> IF p \notin Elements(s.peers)
                      THEN Deprioritize(PushFront(s.peers, p), p, key)
                      ELSE IF q[1] = m THEN Prioritize(s.peers, p, key) ELSE s.peers]
  BY <1>7 DEF Schedule, q, With
<1> DEFINE peers == t.peers
<1>11. /\ peers \in Seq(Peer) /\ Linked(peers) /\ Ordered(peers, key)
       /\ Elements(peers) = IF q = <<>> THEN Elements(s.peers) \ {p}
                                        ELSE Elements(s.peers) \cup {p}
  <2> HIDE DEF key, key0, p, q0, t
  <2> SUFFICES /\ peers \in Seq(Peer) /\ Linked(peers) /\ Ordered(peers, key)
               /\ Elements(peers) = Elements(s.peers) \cup {p}
    BY <1>6
  <2>1. CASE p \notin Elements(s.peers)
    <3>1. \A x \in Elements(s.peers) : key[x] = key0[x]
      BY <2>1, <1>5, <1>7, EmptyList DEF AgreeBut
    <3>2. Ordered(s.peers, key)
      BY <3>1, <1>5, SameKeys
    <3>3. peers = Deprioritize(PushFront(s.peers, p), p, key)
      BY <2>1, <1>10
    <3> QED BY <3>2, <3>3, <2>1, <1>1, <1>5, <1>8, InsertLemma DEF IntKeys
  <2>2. CASE p \in Elements(s.peers) /\ q[1] = m
    <3>1. key[p] <= key0[p]
      <4>1. q0[1] \in Elements(q) /\ key0[p] = rem[q0[1]]
        BY <2>2, <1>2, <1>4, <1>9
      <4> QED BY <4>1, <1>6, <1>7
    <3>2. peers = Prioritize(s.peers, p, key)
      BY <2>2, <1>10
    <3>3. Ordered(peers, key)
      BY <3>1, <3>2, <2>2, <1>5, <1>7, <1>8, LoweredKey
    <3>4. peers \in Seq(Peer) /\ Linked(peers) /\ Elements(peers) = Elements(s.peers)
      BY <3>2, <2>2, <1>5, <1>8, PrioritizeLemma DEF IntKeys
    <3> QED BY <3>3, <3>4, <2>2
  <2>3. CASE p \in Elements(s.peers) /\ q[1] # m
    <3>1. q0 # <<>> /\ q0[1] \in Elements(q) /\ q[1] \in Elements(q0)
      BY <2>3, <1>2, <1>4, <1>6, <1>9
    <3>2. rem[q[1]] <= rem[q0[1]] /\ rem[q0[1]] <= rem[q[1]]
      BY <3>1, <1>6, <1>9
    <3>3. rem[q[1]] \in Nat /\ rem[q0[1]] \in Nat
      BY <3>1, <1>2
    <3>4. key[p] = key0[p]
      BY <3>1, <3>2, <3>3, <1>7, <1>9
    <3>5. \A x \in Elements(s.peers) : key[x] = key0[x]
      BY <3>4, <1>5, <1>7, EmptyList DEF AgreeBut
    <3>6. peers = s.peers
      BY <2>3, <1>10
    <3> QED BY <3>5, <3>6, <2>3, <1>5, SameKeys
  <2> QED BY <2>1, <2>2, <2>3
<1>12. PeersFollow(s, m, q, t, rem)
  <2>1. t.messages = messages
    BY <1>10
  <2> HIDE DEF t
  <2> QED BY <2>1, <1>11 DEF PeersFollow
<1> HIDE DEF t
<1>13. FromPeer(q, Source[m])
  BY <1>2, <1>4 DEF FromPeer
<1>14. /\ SoundSchedule(t, rem)
       /\ Scheduled(t) = (Scheduled(s) \ Elements(q0)) \cup Elements(q)
  <2>1. q \in Seq(Message) /\ Linked(q) /\ Ordered(q, rem) /\ FromPeer(q, Source[m])
    BY <1>4, <1>13
  <2> HIDE DEF p, q0, messages, key, key0
  <2>2. SoundSchedule(t, rem)
    BY <2>1, <1>12, SoundAgain
  <2>3. \A x : x \in Scheduled(t) <=> x \in LinkedAfter(s, m, q)
    BY <2>1, <1>12, SoundAgain
  <2> QED BY <2>2, <2>3 DEF q0, p, LinkedAfter
<1>15. Elements(q0) \subseteq Scheduled(s)
  BY <1>2 DEF Scheduled, FromPeer
<1> QED BY <1>4, <1>14, <1>15 DEF t

(* Receiver::updateSchedule puts a message right whose bytesRemaining went   *)
(* down.                                                                     *)
LEMMA UpdateLemma ==
  ASSUME NEW s, NEW old \in [Message -> Nat], SoundSchedule(s, old),
         NEW m \in Message, m \in Scheduled(s),
         NEW rem \in [Message -> Nat], AgreeBut(Message, old, rem, m), rem[m] <= old[m]
  PROVE  /\ SoundSchedule(UpdateSchedule(s, m, rem), rem)
         /\ Scheduled(UpdateSchedule(s, m, rem)) = Scheduled(s)
<1> DEFINE p == Source[m]
           q0 == s.messages[p]
           q == Prioritize(q0, m, rem)
           key0 == PeerKey(s.messages, old)
           messages == With(s, m, q)
           key == PeerKey(messages, rem)
           t == UpdateSchedule(s, m, rem)
<1>1. p \in Peer /\ m \in Elements(q0)
  BY PeerAssumption DEF Scheduled
<1>2. /\ q0 \in Seq(Message) /\ Linked(q0) /\ Ordered(q0, old)
      /\ Elements(q0) \subseteq Message /\ FromPeer(q0, p)
      /\ p \in Elements(s.peers) <=> q0 # <<>>
  BY <1>1, PeerOf
<1>3. IntKeys(Message, rem) /\ IntKeys(Message, old) /\ \A x \in Message : rem[x] <= old[x]
  BY DEF IntKeys, AgreeBut
<1>4. /\ q \in Seq(Message) /\ Linked(q) /\ Elements(q) = Elements(q0)
  BY <1>1, <1>2, <1>3, PrioritizeLemma DEF IntKeys
<1>5. Ordered(q, rem)
  BY <1>1, <1>2, <1>3, LoweredKey
<1>6. /\ s.peers \in Seq(Peer) /\ Linked(s.peers) /\ Ordered(s.peers, key0)
      /\ s.messages \in [Peer -> Seq(Message)]
  BY DEF SoundSchedule
<1>7. t = [messages |-> messages,
           peers |-> IF messages[p][1] = m THEN Prioritize(s.peers, p, key) ELSE s.peers]
  BY DEF UpdateSchedule, With
<1> HIDE DEF q
<1>8. /\ q # <<>> /\ q[1] \in Elements(q)
      /\ \A x \in Elements(q) : rem[q[1]] <= rem[x]
  <2>1. m \in Elements(q)
    BY <1>1, <1>4
  <2> QED BY <2>1, <1>3, <1>4, <1>5, FirstIsLeast
<1>9. /\ q0 # <<>> /\ q0[1] \in Elements(q0)
      /\ \A x \in Elements(q0) : old[q0[1]] <= old[x]
  BY <1>1, <1>2, <1>3, FirstIsLeast
<1>10. /\ messages \in [Peer -> Seq(Message)] /\ messages[p] = q
       /\ key[p] = rem[q[1]] /\ key0[p] = old[q0[1]]
       /\ AgreeBut(Peer, key0, key, p)
  <2>1. key0[p] = old[q0[1]]
    BY <1>1, <1>9 DEF PeerKey
  <2> QED BY <2>1, <1>4, <1>8, OtherKeys
<1>11. IntKeys(Peer, key) /\ IntKeys(Peer, key0)
  BY <1>6, <1>10, PeerKeyType
<1>12. key[p] <= key0[p] /\ (q[1] # m => key[p] = key0[p])
  <2>1. /\ q[1] \in Message /\ q0[1] \in Message
        /\ rem[q[1]] <= rem[q0[1]] /\ rem[q0[1]] <= old[q0[1]]
    BY <1>2, <1>3, <1>4, <1>8, <1>9
  <2>2. q[1] # m => old[q0[1]] <= rem[q[1]]
    BY <2>1, <1>4, <1>8, <1>9 DEF AgreeBut
  <2>3. rem[q[1]] \in Nat /\ rem[q0[1]] \in Nat /\ old[q0[1]] \in Nat
    BY <2>1
  <2> QED BY <2>1, <2>2, <2>3, <1>10
<1>13. t.messages = messages
       /\ t.peers = IF q[1] = m THEN Prioritize(s.peers, p, key) ELSE s.peers
  BY <1>7, <1>10
<1> HIDE DEF key, key0, messages, t
<1>14. /\ t.peers \in Seq(Peer) /\ Linked(t.peers) /\ Ordered(t.peers, key)
       /\ Elements(t.peers) = Elements(s.peers)
  <2>1. p \in Elements(s.peers)
    BY <1>2, <1>9
  <2> HIDE DEF p
  <2>2. CASE q[1] = m
    <3>1. t.peers = Prioritize(s.peers, p, key)
      BY <2>2, <1>13
    <3>2. Ordered(t.peers, key)
      BY <3>1, <2>1, <1>6, <1>10, <1>11, <1>12, LoweredKey
    <3> QED BY <3>1, <3>2, <2>1, <1>6, <1>11, PrioritizeLemma DEF IntKeys
  <2>3. CASE q[1] # m
    <3>1. \A x \in Elements(s.peers) : key[x] = key0[x]
      BY <2>3, <1>6, <1>10, <1>12, EmptyList DEF AgreeBut
    <3>2. Ordered(s.peers, key)
      BY <3>1, <1>6, SameKeys
    <3> QED BY <2>3, <3>2, <1>6, <1>13
  <2> QED BY <2>2, <2>3
<1>15. PeersFollow(s, m, q, t, rem)
  <2>1. Elements(s.peers) \cup {Source[m]} = Elements(s.peers)
    BY <1>2, <1>9
  <2> QED BY <2>1, <1>8, <1>13, <1>14 DEF PeersFollow, key, messages
<1>16. q \in Seq(Message) /\ Linked(q) /\ Ordered(q, rem) /\ FromPeer(q, Source[m])
  BY <1>2, <1>4, <1>5 DEF FromPeer
<1> HIDE DEF p, q0
<1>17. SoundSchedule(t, rem) /\ \A x : x \in Scheduled(t) <=> x \in LinkedAfter(s, m, q)
  BY <1>15, <1>16, SoundAgain
<1>18. Elements(q0) \subseteq Scheduled(s)
  BY <1>2 DEF Scheduled, FromPeer, q0, p
<1> QED BY <1>4, <1>17, <1>18 DEF t, LinkedAfter, q0, p

(* Receiver::unschedule unlinks a message; only its peer can leave with it.  *)
LEMMA UnscheduleLemma ==
  ASSUME NEW s, NEW rem \in [Message -> Nat], SoundSchedule(s, rem),
         NEW m \in Message, m \in Scheduled(s)
  PROVE  /\ SoundSchedule(Unschedule(s, m, rem), rem)
         /\ Scheduled(Unschedule(s, m, rem)) = Scheduled(s) \ {m}
         /\ Elements(s.peers) \ {Source[m]} \subseteq Elements(Unschedule(s, m, rem).peers)
<1> DEFINE p == Source[m]
           q0 == s.messages[p]
           q == Unlink(q0, m)
           key0 == PeerKey(s.messages, rem)
           messages == With(s, m, q)
           key == PeerKey(messages, rem)
           next == NextOf(s.peers, p, NoPeer)
           t == Unschedule(s, m, rem)
<1>1. p \in Peer /\ NoPeer \notin Peer /\ m \in Elements(q0)
  BY PeerAssumption DEF Scheduled
<1>2. /\ q0 \in Seq(Message) /\ Linked(q0) /\ Ordered(q0, rem)
      /\ Elements(q0) \subseteq Message /\ FromPeer(q0, p)
      /\ p \in Elements(s.peers) <=> q0 # <<>>
  BY <1>1, PeerOf
<1>3. IntKeys(Message, rem) /\ AgreeBut(Message, rem, rem, m)
  BY DEF IntKeys, AgreeBut
<1>4. /\ q \in Seq(Message) /\ Linked(q) /\ Elements(q) = Elements(q0) \ {m}
      /\ Ordered(q, rem)
  BY <1>2, UnlinkLemma
<1>5. /\ s.peers \in Seq(Peer) /\ Linked(s.peers) /\ Ordered(s.peers, key0)
      /\ s.messages \in [Peer -> Seq(Message)]
  BY DEF SoundSchedule
<1>6. t = [messages |-> messages,
           peers |-> IF messages[p] = <<>> THEN Unlink(s.peers, p)
                     ELSE IF next = NoPeer THEN s.peers
                     ELSE IF ~(key[next] < key[p]) THEN s.peers
                     ELSE Deprioritize(s.peers, p, key)]
  BY DEF Unschedule, With
<1> HIDE DEF q
<1>7. /\ q0 # <<>> /\ q0[1] \in Elements(q0)
      /\ \A x \in Elements(q0) : rem[q0[1]] <= rem[x]
  BY <1>1, <1>2, <1>3, FirstIsLeast
<1>8. /\ messages \in [Peer -> Seq(Message)] /\ messages[p] = q
      /\ q # <<>> => key[p] = rem[q[1]]
      /\ key0[p] = rem[q0[1]]
      /\ AgreeBut(Peer, key0, key, p)
  <2>1. key0[p] = rem[q0[1]]
    BY <1>1, <1>7 DEF PeerKey
  <2>2. /\ messages \in [Peer -> Seq(Message)] /\ messages[p] = q
        /\ key[p] = IF q = <<>> THEN 0 ELSE rem[q[1]]
        /\ AgreeBut(Peer, key0, key, p)
    BY <1>3, <1>4, OtherKeys
  <2> QED BY <2>1, <2>2
<1>9. IntKeys(Peer, key) /\ IntKeys(Peer, key0)
  BY <1>5, <1>8, PeerKeyType
<1>10. q # <<>> => key0[p] <= key[p]
  BY <1>4, <1>7, <1>8, EmptyList
<1>11. p \in Elements(s.peers)
  BY <1>2, <1>7
<1>12. t.messages = messages
       /\ t.peers = IF q = <<>> THEN Unlink(s.peers, p)
                    ELSE IF next = NoPeer THEN s.peers
                    ELSE IF ~(key[next] < key[p]) THEN s.peers
                    ELSE Deprioritize(s.peers, p, key)
  BY <1>6, <1>8
<1> HIDE DEF key, key0, messages, t, next
<1>13. /\ t.peers \in Seq(Peer) /\ Linked(t.peers) /\ Ordered(t.peers, key)
       /\ Elements(t.peers) = IF q = <<>> THEN Elements(s.peers) \ {p} ELSE Elements(s.peers)
  <2>1. CASE q = <<>>
    <3>1. t.peers = Unlink(s.peers, p)
      BY <2>1, <1>12
    <3>2. /\ t.peers \in Seq(Peer) /\ Linked(t.peers)
          /\ Elements(t.peers) = Elements(s.peers) \ {p} /\ Ordered(t.peers, key0)
      BY <3>1, <1>5, UnlinkLemma
    <3>3. \A x \in Elements(t.peers) : key[x] = key0[x]
      BY <3>2, <1>5, <1>8, EmptyList DEF AgreeBut
    <3>4. Ordered(t.peers, key)
      BY <3>2, <3>3, SameKeys
    <3> QED BY <3>2, <3>4, <2>1
  <2>2. CASE q # <<>> /\ (next = NoPeer \/ ~(key[next] < key[p]))
    <3> HIDE DEF p
    <3>1. t.peers = s.peers
      BY <2>2, <1>12
    <3>2. next = NoPeer \/ key[p] <= key[next]
      <4>1. next \in Elements(s.peers) \cup {NoPeer}
        BY <1>1, <1>5, <1>11, NextLemma DEF next
      <4>2. next = NoPeer \/ next \in Peer
        BY <4>1, <1>5, EmptyList
      <4> QED BY <4>2, <2>2, <1>1, <1>9 DEF IntKeys
    <3>3. Ordered(s.peers, key)
      BY <3>2, <2>2, <1>1, <1>5, <1>8, <1>9, <1>10, <1>11, RaisedInPlace DEF next
    <3> QED BY <3>1, <3>3, <2>2, <1>5
  <2>3. CASE q # <<>> /\ next # NoPeer /\ key[next] < key[p]
    <3> HIDE DEF p
    <3>1. t.peers = Deprioritize(s.peers, p, key)
      BY <2>3, <1>12
    <3>2. Ordered(t.peers, key)
      BY <3>1, <2>3, <1>5, <1>8, <1>9, <1>10, <1>11, RaisedKey
    <3> QED BY <3>1, <3>2, <2>3, <1>5, <1>9, <1>11, DeprioritizeLemma DEF IntKeys
  <2> QED BY <2>1, <2>2, <2>3
<1>14. PeersFollow(s, m, q, t, rem)
  <2>1. Elements(s.peers) \cup {Source[m]} = Elements(s.peers)
    BY <1>11
  <2> QED BY <2>1, <1>12, <1>13 DEF PeersFollow, key, messages
<1>15. q \in Seq(Message) /\ Linked(q) /\ Ordered(q, rem) /\ FromPeer(q, Source[m])
  BY <1>2, <1>4 DEF FromPeer
<1> HIDE DEF p, q0
<1>16. SoundSchedule(t, rem) /\ \A x : x \in Scheduled(t) <=> x \in LinkedAfter(s, m, q)
  BY <1>3, <1>14, <1>15, SoundAgain
<1>17. Elements(q0) \subseteq Scheduled(s)
  BY <1>2 DEF Scheduled, FromPeer, q0, p
<1>18. Scheduled(t) = Scheduled(s) \ {m}
  BY <1>1, <1>4, <1>16, <1>17 DEF LinkedAfter, q0, p
<1> QED BY <1>13, <1>16, <1>18 DEF t, p

(* A message that is not linked may change.                                  *)
LEMMA UnlinkedChange ==
  ASSUME NEW s, NEW old \in [Message -> Nat], SoundSchedule(s, old),
         NEW m \in Message, m \notin Scheduled(s),
         NEW rem \in [Message -> Nat], AgreeBut(Message, old, rem, m)
  PROVE  SoundSchedule(s, rem)
<1>1. ASSUME NEW p \in Peer
      PROVE  /\ Ordered(s.messages[p], rem)
             /\ PeerKey(s.messages, rem)[p] = PeerKey(s.messages, old)[p]
  <2>1. /\ s.messages[p] \in Seq(Message) /\ Ordered(s.messages[p], old)
        /\ Elements(s.messages[p]) \subseteq Message /\ FromPeer(s.messages[p], p)
    BY PeerOf
  <2>2. \A x \in Elements(s.messages[p]) : rem[x] = old[x]
    BY <2>1 DEF FromPeer, Scheduled, AgreeBut
  <2>3. Ordered(s.messages[p], rem)
    BY <2>1, <2>2, SameKeys
  <2>4. s.messages[p] # <<>> => rem[s.messages[p][1]] = old[s.messages[p][1]]
    BY <2>1, <2>2, EmptyList
  <2> QED BY <2>3, <2>4 DEF PeerKey
<1>2. s.peers \in Seq(Peer) /\ Ordered(s.peers, PeerKey(s.messages, old))
  BY DEF SoundSchedule
<1>3. \A p \in Elements(s.peers) : PeerKey(s.messages, rem)[p] = PeerKey(s.messages, old)[p]
  BY <1>1, <1>2, EmptyList
<1>4. Ordered(s.peers, PeerKey(s.messages, rem))
  BY <1>2, <1>3, SameKeys
<1> QED BY <1>1, <1>4 DEF SoundSchedule

-----------------------------------------------------------------------------
(* Packets and bytes. *)

(* The packets for a number of bytes hold them, and one packet less does not. *)
LEMMA CeilBounds ==
  ASSUME NEW b \in Nat \ {0}
  PROVE  /\ Ceil(b) \in Nat \ {0}
         /\ (Ceil(b) - 1) * PACKET_DATA_LENGTH < b
<1> DEFINE P == PACKET_DATA_LENGTH
           n == Ceil(b)
           r == (b + P - 1) % P
<1>1. P \in Nat \ {0}
  BY PacketAssumption
<1>2. n \in Int /\ r \in 0..(P - 1) /\ b + P - 1 = P * n + r
  BY <1>1 DEF Ceil
<1> HIDE DEF n, r, P
<1>3. P * n = n * P /\ (n - 1) * P = n * P - P
  BY <1>1, <1>2
<1>4. n * P > 0
  BY <1>1, <1>2, <1>3
<1>5. n > 0
  BY <1>1, <1>2, <1>4
<1> QED BY <1>1, <1>2, <1>3, <1>5 DEF n, P

(* The packets of a message.                                                 *)
LEMMA NumPackets ==
  ASSUME NEW m \in Message
  PROVE  /\ numExpectedPackets(m) \in Nat \ {0}
         /\ Length[m] \in Nat \ {0}
         /\ (numExpectedPackets(m) - 1) * PACKET_DATA_LENGTH < Length[m]
<1>1. Length[m] \in Nat \ {0}
  BY LengthAssumption
<1> QED BY <1>1, CeilBounds DEF numExpectedPackets

(* The packets of a message are finitely many and some.                      *)
LEMMA IndicesLemma ==
  ASSUME NEW m \in Message
  PROVE  /\ IsFiniteSet(Indices(m))
         /\ Cardinality(Indices(m)) = numExpectedPackets(m)
         /\ numExpectedPackets(m) - 1 \in Indices(m)
         /\ Indices(m) \in SUBSET Nat
<1>1. numExpectedPackets(m) \in Nat \ {0}
  BY NumPackets
<1>2. 0 \in Int /\ numExpectedPackets(m) - 1 \in Int
  BY <1>1
<1>3. /\ IsFiniteSet(0..(numExpectedPackets(m) - 1))
      /\ Cardinality(0..(numExpectedPackets(m) - 1)) =
           IF 0 > numExpectedPackets(m) - 1 THEN 0 ELSE numExpectedPackets(m) - 1 - 0 + 1
  BY <1>2, FS_Interval
<1> QED BY <1>1, <1>3 DEF Indices

(* The payloads are numbers.                                                 *)
LEMMA PacketBytesType ==
  ASSUME NEW m \in Message, NEW i \in Indices(m)
  PROVE  PacketBytes(m, i) \in Nat
<1> DEFINE n == numExpectedPackets(m)
           last == (n - 1) * PACKET_DATA_LENGTH
<1>1. n \in Nat \ {0} /\ Length[m] \in Nat /\ last < Length[m]
  BY NumPackets
<1>2. PACKET_DATA_LENGTH \in Nat
  BY PacketAssumption
<1>3. last \in Int
  BY <1>1, <1>2
<1> HIDE DEF last
<1>4. Length[m] - last \in Nat
  BY <1>1, <1>3
<1> QED BY <1>2, <1>4 DEF PacketBytes, last

(* Before the first packet the whole message is missing.                     *)
LEMMA MissingAll ==
  ASSUME NEW m \in Message
  PROVE  MissingBytes(m, {}) = Length[m]
<1> DEFINE n == numExpectedPackets(m)
           last == (n - 1) * PACKET_DATA_LENGTH
<1>1. n \in Nat \ {0} /\ Length[m] \in Nat
  BY NumPackets
<1>2. Indices(m) \ {} = Indices(m)
  OBVIOUS
<1>3. n - 1 \in Indices(m) /\ Cardinality(Indices(m)) = n
  BY IndicesLemma
<1>4. MissingBytes(m, {}) = last + PacketBytes(m, n - 1)
  BY <1>2, <1>3 DEF MissingBytes
<1>4a. PacketBytes(m, n - 1) = Length[m] - last
  BY DEF PacketBytes
<1>5. last \in Int
  BY <1>1, PacketAssumption
<1> HIDE DEF last
<1> QED BY <1>1, <1>4, <1>4a, <1>5

(* A packet that arrives is missing no more, and nothing else changes.       *)
LEMMA MissingLess ==
  ASSUME NEW m \in Message, NEW pk \in SUBSET Indices(m), NEW i \in Indices(m), i \notin pk
  PROVE  /\ MissingBytes(m, pk \cup {i}) = MissingBytes(m, pk) - PacketBytes(m, i)
         /\ MissingBytes(m, pk \cup {i}) \in Nat
<1> DEFINE missing == Indices(m) \ pk
           c == Cardinality(missing)
           P == PACKET_DATA_LENGTH
           last == numExpectedPackets(m) - 1
           B == PacketBytes(m, last)
<1>1. P \in Nat /\ last \in Indices(m) /\ B \in Nat
  BY PacketAssumption, IndicesLemma, PacketBytesType
<1>2. IsFiniteSet(missing)
  BY IndicesLemma, FS_Subset
<1>3. c \in Nat
  BY <1>2, FS_CardinalityType
<1>4. Indices(m) \ (pk \cup {i}) = missing \ {i}
  OBVIOUS
<1>5. IsFiniteSet(missing \ {i}) /\ Cardinality(missing \ {i}) = c - 1
  BY <1>2, FS_RemoveElement
<1>6. c - 1 \in Nat
  BY <1>5, FS_CardinalityType
<1>7. MissingBytes(m, pk) = IF last \in missing THEN (c - 1) * P + B ELSE c * P
  BY DEF MissingBytes
<1>8. MissingBytes(m, pk \cup {i}) =
        IF last \in missing \ {i} THEN ((c - 1) - 1) * P + B ELSE (c - 1) * P
  BY <1>4, <1>5 DEF MissingBytes
<1>9. PacketBytes(m, i) = IF i = last THEN B ELSE P
  BY DEF PacketBytes
<1>10. i \in missing
  OBVIOUS
<1>11. last \in missing \ {i} => (c - 1) - 1 \in Nat
  <2> SUFFICES ASSUME last \in missing \ {i} PROVE (c - 1) - 1 \in Nat
    OBVIOUS
  <2>1. /\ IsFiniteSet((missing \ {i}) \ {last})
        /\ Cardinality((missing \ {i}) \ {last}) = (c - 1) - 1
    BY <1>5, FS_RemoveElement
  <2> HIDE DEF missing
  <2> QED BY <2>1, FS_CardinalityType
<1> HIDE DEF missing, c, P, last, B
<1>12. (c - 1) * P \in Nat /\ c * P \in Nat /\ c * P = (c - 1) * P + P
  BY <1>1, <1>3, <1>6
<1>13. CASE last \in missing \ {i}
  <2>1. ((c - 1) - 1) * P \in Nat /\ (c - 1) * P = ((c - 1) - 1) * P + P
    BY <1>1, <1>3, <1>11, <1>13
  <2> QED BY <2>1, <1>1, <1>7, <1>8, <1>9, <1>12, <1>13
<1>14. CASE last \notin missing \ {i} /\ i = last
  BY <1>1, <1>7, <1>8, <1>9, <1>10, <1>12, <1>14
<1>15. CASE last \notin missing \ {i} /\ i # last
  BY <1>1, <1>7, <1>8, <1>9, <1>12, <1>15
<1> QED BY <1>13, <1>14, <1>15

(* The count of packets tells whether the message is complete.               *)
LEMMA LastPacket ==
  ASSUME NEW m \in Message, NEW pk \in SUBSET Indices(m), NEW i \in Indices(m), i \notin pk
  PROVE  Cardinality(pk) + 1 < numExpectedPackets(m) <=> pk \cup {i} # Indices(m)
<1>1. /\ IsFiniteSet(Indices(m)) /\ Cardinality(Indices(m)) = numExpectedPackets(m)
      /\ numExpectedPackets(m) \in Nat
  BY IndicesLemma, NumPackets
<1>2. IsFiniteSet(pk)
  BY <1>1, FS_Subset
<1>3. IsFiniteSet(pk \cup {i}) /\ Cardinality(pk \cup {i}) = Cardinality(pk) + 1
  BY <1>2, FS_AddElement
<1>4. Cardinality(pk) \in Nat
  BY <1>2, FS_CardinalityType
<1>5. pk \cup {i} \in SUBSET Indices(m)
  OBVIOUS
<1>6. /\ Cardinality(pk \cup {i}) <= Cardinality(Indices(m))
      /\ Cardinality(Indices(m)) = Cardinality(pk \cup {i}) => Indices(m) = pk \cup {i}
  BY <1>1, <1>5, FS_Subset
<1>7. ASSUME Cardinality(pk) + 1 < numExpectedPackets(m) PROVE pk \cup {i} # Indices(m)
  BY <1>1, <1>3, <1>4, <1>7
<1>8. ASSUME ~(Cardinality(pk) + 1 < numExpectedPackets(m)) PROVE pk \cup {i} = Indices(m)
  <2>1. Cardinality(pk) + 1 <= numExpectedPackets(m)
    BY <1>1, <1>3, <1>6
  <2>2. Cardinality(pk) + 1 = numExpectedPackets(m)
    BY <2>1, <1>1, <1>4, <1>8
  <2> QED BY <2>2, <1>1, <1>3, <1>6
<1> QED BY <1>7, <1>8

-----------------------------------------------------------------------------
(* The queue of received messages. *)

(* push_back of a message that is not queued.                                *)
LEMMA AppendLemma ==
  ASSUME NEW S, NEW q \in Seq(S), Linked(q), NEW x \in S, x \notin Elements(q)
  PROVE  /\ Append(q, x) \in Seq(S)
         /\ Linked(Append(q, x))
         /\ Elements(Append(q, x)) = Elements(q) \cup {x}
<1> DEFINE r == Append(q, x)
<1>1. /\ r \in Seq(S) /\ Len(r) = Len(q) + 1 /\ r[Len(q) + 1] = x
      /\ \A i \in 1..Len(q) : r[i] = q[i]
  OBVIOUS
<1> HIDE DEF r
<1>2. \A i \in 1..Len(r) : i \in 1..Len(q) \/ i = Len(q) + 1
  BY <1>1
<1>3. \A i \in 1..Len(q) : q[i] # x
  BY DEF Elements
<1>4. Linked(r)
  BY <1>1, <1>2, <1>3 DEF Linked
<1>5. Elements(r) \subseteq Elements(q) \cup {x}
  BY <1>1, <1>2 DEF Elements
<1>6. Elements(q) \cup {x} \subseteq Elements(r)
  <2>1. x \in Elements(r)
    BY <1>1, Len(q) + 1 \in 1..Len(r) DEF Elements
  <2>2. ASSUME NEW i \in 1..Len(q) PROVE q[i] \in Elements(r)
    BY <1>1, i \in 1..Len(r) DEF Elements
  <2> QED BY <2>1, <2>2 DEF Elements
<1> QED BY <1>1, <1>4, <1>5, <1>6 DEF r

(* pop_front *)
LEMMA TailLemma ==
  ASSUME NEW S, NEW q \in Seq(S), Linked(q), q # <<>>
  PROVE  /\ Head(q) \in Elements(q)
         /\ Tail(q) \in Seq(S)
         /\ Linked(Tail(q))
         /\ Elements(Tail(q)) = Elements(q) \ {Head(q)}
<1> DEFINE r == Tail(q)
<1>1. /\ r \in Seq(S) /\ Len(r) = Len(q) - 1 /\ Head(q) = q[1] /\ 1 \in 1..Len(q)
      /\ \A i \in 1..Len(r) : r[i] = q[i + 1]
  OBVIOUS
<1> HIDE DEF r
<1>2. \A i \in 1..Len(r) : i + 1 \in 1..Len(q)
  BY <1>1
<1>3. Linked(r)
  <2> SUFFICES ASSUME NEW i \in 1..Len(r), NEW j \in 1..Len(r), r[i] = r[j] PROVE i = j
    BY DEF Linked
  <2>1. i + 1 = j + 1
    BY <1>1, <1>2 DEF Linked
  <2> QED BY <2>1
<1>4. Elements(r) \subseteq Elements(q) \ {q[1]}
  <2> SUFFICES ASSUME NEW i \in 1..Len(r) PROVE r[i] \in Elements(q) /\ r[i] # q[1]
    BY DEF Elements
  <2>1. r[i] = q[i + 1] /\ i + 1 \in 1..Len(q) /\ i + 1 # 1
    BY <1>1, <1>2
  <2> QED BY <2>1, <1>1 DEF Elements, Linked
<1>5. Elements(q) \ {q[1]} \subseteq Elements(r)
  <2> SUFFICES ASSUME NEW i \in 1..Len(q), q[i] # q[1] PROVE q[i] \in Elements(r)
    BY DEF Elements
  <2>1. i - 1 \in 1..Len(r)
    BY <1>1
  <2>2. r[i - 1] = q[i]
    BY <2>1, <1>1
  <2> QED BY <2>1, <2>2 DEF Elements
<1>6. Head(q) \in Elements(q)
  BY <1>1 DEF Elements
<1>7. Elements(r) = Elements(q) \ {Head(q)}
  BY <1>1, <1>4, <1>5
<1> QED BY <1>1, <1>3, <1>6, <1>7 DEF r

-----------------------------------------------------------------------------
(* The invariant holds at first and is preserved. *)

(* The initial states.                                                       *)
LEMMA InitInv == Init => Inv
<1> SUFFICES ASSUME Init PROVE Inv
  OBVIOUS
<1> USE DEF Init
<1>1. Elements(<<>>) = {} /\ Linked(<<>>) /\ \A key : Ordered(<<>>, key)
  BY DEF Elements, Linked, Ordered
<1>2. TypeOK
  <2>1. packets \in [Message -> SUBSET Nat] /\ \A m \in Message : packets[m] \subseteq Indices(m)
    OBVIOUS
  <2>2. /\ state \in [Message -> {"NONE", "IN_PROGRESS", "COMPLETED", "DROPPED"}]
        /\ numUnscheduledPackets \in [Message -> Nat]
        /\ bytesRemaining \in [Message -> Nat] /\ bytesGranted \in [Message -> Nat]
    OBVIOUS
  <2>3. granting \in BOOLEAN
    BY Zenon
  <2>4. receivedMessages \in Seq(Message)
    OBVIOUS
  <2> QED BY <2>1, <2>2, <2>3, <2>4 DEF TypeOK
<1>3. SoundSchedule(schedule, bytesRemaining)
  BY <1>1 DEF SoundSchedule, FromPeer
<1>4. Scheduled(schedule) = {}
  BY <1>1, PeerAssumption DEF Scheduled
<1>5. \A m \in Message : MessageOK(m)
  BY <1>1 DEF MessageOK
<1>6. \A m \in Message : GrantOK(m)
  BY <1>4, NumPackets DEF GrantOK
<1> QED BY <1>1, <1>2, <1>3, <1>5, <1>6 DEF Inv, IteratorValid

(* A new message: it is linked if it needs GRANTs.                           *)
LEMMA CreateInv ==
  ASSUME Inv, NEW m \in Message, NEW limit \in UnscheduledIndexLimits, CreateMessage(m, limit)
  PROVE  Inv'
<1>0. /\ state[m] = "NONE"
      /\ state' = [state EXCEPT ![m] = "IN_PROGRESS"]
      /\ numUnscheduledPackets' = [numUnscheduledPackets EXCEPT ![m] = limit]
      /\ bytesRemaining' = [bytesRemaining EXCEPT ![m] = Length[m]]
      /\ bytesGranted' = [bytesGranted EXCEPT ![m] = 0]
      /\ UNCHANGED <<packets, messageTimeout, resendTimeout, receivedMessages, delivered>>
      /\ UNCHANGED <<granting, it, slot>>
  BY DEF CreateMessage, timers, inbox, loop
<1>0a. Exceeds(m, limit) => ~granting /\ schedule' = Schedule(schedule, m, bytesRemaining')
  BY DEF CreateMessage
<1>0b. ~Exceeds(m, limit) => schedule' = schedule
  BY DEF CreateMessage
<1>1. TypeOK /\ MessageOK(m) /\ GrantOK(m) /\ SoundSchedule(schedule, bytesRemaining)
  BY DEF Inv
<1>2. limit \in Nat /\ Length[m] \in Nat \ {0} /\ Indices(m) # {}
  BY UnscheduledAssumption, NumPackets, IndicesLemma
<1>3. TypeOK'
  BY <1>0, <1>1, <1>2 DEF TypeOK
<1>4. m \notin Scheduled(schedule)
  BY <1>0, <1>1 DEF GrantOK
<1>5. bytesRemaining \in [Message -> Nat] /\ bytesRemaining' \in [Message -> Nat]
  BY <1>1, <1>3 DEF TypeOK
<1>6. AgreeBut(Message, bytesRemaining, bytesRemaining', m)
  BY <1>0, <1>5 DEF AgreeBut
<1>7. /\ SoundSchedule(schedule', bytesRemaining')
      /\ Scheduled(schedule') = IF Exceeds(m, limit) THEN Scheduled(schedule) \cup {m}
                                                    ELSE Scheduled(schedule)
  <2>1. CASE Exceeds(m, limit)
    <3>1. /\ SoundSchedule(Schedule(schedule, m, bytesRemaining'), bytesRemaining')
          /\ Scheduled(Schedule(schedule, m, bytesRemaining')) = Scheduled(schedule) \cup {m}
      BY <1>1, <1>4, <1>5, <1>6, ScheduleLemma
    <3> QED BY <3>1, <2>1, <1>0a
  <2>2. CASE ~Exceeds(m, limit)
    <3>1. SoundSchedule(schedule, bytesRemaining')
      BY <1>1, <1>4, <1>5, <1>6, UnlinkedChange
    <3> QED BY <3>1, <2>2, <1>0b
  <2> QED BY <2>1, <2>2
<1>8. IteratorValid'
  BY <1>0, <1>0a, <1>0b DEF Inv, IteratorValid
<1>9. ASSUME NEW x \in Message PROVE MessageOK(x)' /\ GrantOK(x)'
  <2>1. CASE x = m
    <3>1. state'[m] = "IN_PROGRESS" /\ packets'[m] = {}
      BY <1>0, <1>1 DEF TypeOK, MessageOK
    <3>2. MessageOK(m)'
      BY <3>1, <1>0, <1>1, <1>2 DEF MessageOK
    <3>3. /\ numUnscheduledPackets'[m] = limit /\ bytesRemaining'[m] = Length[m]
          /\ bytesGranted'[m] = 0
      BY <1>0, <1>1 DEF TypeOK
    <3>4. NeedsGrants(m)' <=> Exceeds(m, limit)
      BY <3>3 DEF NeedsGrants
    <3>5. MissingBytes(m, packets'[m]) = Length[m]
      BY <3>1, MissingAll
    <3>6. GrantOK(m)'
      BY <3>1, <3>3, <3>4, <3>5, <1>2, <1>4, <1>7, PolicyAssumption DEF GrantOK
    <3> QED BY <3>2, <3>6, <2>1
  <2>2. CASE x # m
    <3>1. /\ state'[x] = state[x] /\ packets'[x] = packets[x]
          /\ numUnscheduledPackets'[x] = numUnscheduledPackets[x]
          /\ bytesRemaining'[x] = bytesRemaining[x] /\ bytesGranted'[x] = bytesGranted[x]
      BY <2>2, <1>0, <1>1 DEF TypeOK
    <3>2. MessageOK(x) /\ GrantOK(x) /\ (x \in Scheduled(schedule') <=> x \in Scheduled(schedule))
      BY <2>2, <1>7 DEF Inv
    <3>3. NeedsGrants(x)' <=> NeedsGrants(x)
      BY <3>1 DEF NeedsGrants
    <3>4. MessageOK(x)'
      BY <3>1, <3>2, <1>0 DEF MessageOK
    <3> QED BY <3>1, <3>2, <3>3, <3>4 DEF GrantOK
  <2> QED BY <2>1, <2>2
<1>10. Linked(receivedMessages')
  BY <1>0 DEF Inv
<1> QED BY <1>3, <1>7, <1>8, <1>9, <1>10 DEF Inv

(* A packet that is new: its message's bytesRemaining goes down with it.      *)
LEMMA DataInv ==
  ASSUME Inv, NEW m \in Message, NEW i \in Indices(m), HandleData(m, i)
  PROVE  Inv'
<1>0. /\ NeedsGrants(m) => ~granting
      /\ UNCHANGED <<numUnscheduledPackets, bytesGranted, delivered, granting, it, slot>>
      /\ StorePacket(m, i)
  BY DEF HandleData, loop
<1>0a. InSchedule(m) =>
         /\ bytesRemaining' = [bytesRemaining EXCEPT ![m] = @ - PacketBytes(m, i)]
         /\ schedule' = UpdateSchedule(schedule, m, bytesRemaining')
  BY DEF HandleData
<1>0b. ~InSchedule(m) => bytesRemaining' = bytesRemaining /\ schedule' = schedule
  BY DEF HandleData
<1>1. /\ TypeOK /\ MessageOK(m) /\ GrantOK(m) /\ SoundSchedule(schedule, bytesRemaining)
      /\ state[m] # "NONE" /\ i \notin packets[m] /\ Linked(receivedMessages)
  BY DEF Inv, HandleData
<1>2. packets[m] \in SUBSET Indices(m) /\ Indices(m) \in SUBSET Nat
  BY <1>1, IndicesLemma DEF TypeOK
<1>3. /\ packets' = [packets EXCEPT ![m] = @ \cup {i}]
      /\ messageTimeout' = messageTimeout \cup {m}
      /\ packets'[m] = packets[m] \cup {i}
      /\ \A x \in Message : packets'[x] \subseteq Indices(x)
      /\ packets' \in [Message -> SUBSET Nat]
  BY <1>0, <1>1, <1>2 DEF StorePacket, TypeOK
<1>4. Cardinality(packets[m]) + 1 < numExpectedPackets(m) <=> packets'[m] # Indices(m)
  BY <1>1, <1>2, <1>3, LastPacket
<1>5. m \notin Elements(receivedMessages) /\ m \notin delivered /\ state[m] = "IN_PROGRESS"
  <2>1. packets[m] # Indices(m)
    BY <1>1
  <2> QED BY <2>1, <1>1 DEF MessageOK
<1>6. /\ state' \in [Message -> {"NONE", "IN_PROGRESS", "COMPLETED", "DROPPED"}]
      /\ receivedMessages' \in Seq(Message) /\ Linked(receivedMessages')
      /\ resendTimeout' \subseteq Message
      /\ \A x \in Message \ {m} : state'[x] = state[x]
      /\ Elements(receivedMessages') \ {m} = Elements(receivedMessages) \ {m}
      /\ resendTimeout' \ {m} = resendTimeout \ {m}
      /\ packets'[m] # Indices(m) => /\ state'[m] = "IN_PROGRESS" /\ m \in resendTimeout'
                                     /\ m \notin Elements(receivedMessages')
      /\ packets'[m] = Indices(m) => /\ state'[m] = "COMPLETED" /\ m \notin resendTimeout'
                                     /\ m \in Elements(receivedMessages')
  <2>1. /\ receivedMessages \in Seq(Message) /\ resendTimeout \subseteq Message
        /\ state \in [Message -> {"NONE", "IN_PROGRESS", "COMPLETED", "DROPPED"}]
    BY <1>1 DEF TypeOK
  <2>2. CASE packets'[m] # Indices(m)
    <3>1. resendTimeout' = resendTimeout \cup {m} /\ state' = state
      BY <2>2, <1>0, <1>4 DEF StorePacket
    <3>2. receivedMessages' = receivedMessages
      BY <2>2, <1>0, <1>4 DEF StorePacket
    <3>3. /\ receivedMessages' \in Seq(Message) /\ Linked(receivedMessages')
          /\ Elements(receivedMessages') = Elements(receivedMessages)
      BY <3>2, <2>1, <1>1
    <3> QED BY <3>1, <3>3, <2>1, <2>2, <1>5
  <2>3. CASE packets'[m] = Indices(m)
    <3>1. state' = [state EXCEPT ![m] = "COMPLETED"] /\ resendTimeout' = resendTimeout \ {m}
      BY <2>3, <1>0, <1>4 DEF StorePacket
    <3>2. receivedMessages' = Append(receivedMessages, m)
      BY <2>3, <1>0, <1>4 DEF StorePacket
    <3>3. /\ receivedMessages' \in Seq(Message) /\ Linked(receivedMessages')
          /\ Elements(receivedMessages') = Elements(receivedMessages) \cup {m}
      BY <3>2, <2>1, <1>1, <1>5, AppendLemma
    <3> QED BY <3>1, <3>3, <2>1, <2>3, <1>5
  <2> QED BY <2>2, <2>3
<1>7. /\ bytesRemaining' \in [Message -> Nat]
      /\ \A x \in Message \ {m} : bytesRemaining'[x] = bytesRemaining[x]
      /\ bytesRemaining'[m] <= bytesRemaining[m]
      /\ SoundSchedule(schedule', bytesRemaining')
      /\ Scheduled(schedule') = Scheduled(schedule)
      /\ m \in Scheduled(schedule) => bytesRemaining'[m] = MissingBytes(m, packets'[m])
      /\ m \notin Scheduled(schedule) => schedule' = schedule
  <2>1. bytesRemaining \in [Message -> Nat]
    BY <1>1 DEF TypeOK
  <2>2. InSchedule(m) <=> m \in Scheduled(schedule)
    BY DEF InSchedule, Scheduled
  <2>3. CASE m \in Scheduled(schedule)
    <3>1. /\ bytesRemaining' = [bytesRemaining EXCEPT ![m] = @ - PacketBytes(m, i)]
          /\ schedule' = UpdateSchedule(schedule, m, bytesRemaining')
      BY <2>2, <2>3, <1>0a
    <3>2. bytesRemaining[m] = MissingBytes(m, packets[m])
      BY <2>3, <1>1 DEF GrantOK
    <3>3. /\ MissingBytes(m, packets'[m]) = bytesRemaining[m] - PacketBytes(m, i)
          /\ MissingBytes(m, packets'[m]) \in Nat
      BY <3>2, <1>1, <1>2, <1>3, MissingLess
    <3>4. PacketBytes(m, i) \in Nat
      BY PacketBytesType
    <3>5. /\ bytesRemaining' \in [Message -> Nat]
          /\ bytesRemaining'[m] = MissingBytes(m, packets'[m])
          /\ \A x \in Message \ {m} : bytesRemaining'[x] = bytesRemaining[x]
      BY <3>1, <3>3, <2>1
    <3>6. bytesRemaining'[m] <= bytesRemaining[m]
      BY <3>3, <3>4, <3>5, <2>1
    <3>7. AgreeBut(Message, bytesRemaining, bytesRemaining', m)
      BY <3>5 DEF AgreeBut
    <3>8. SoundSchedule(schedule', bytesRemaining') /\ Scheduled(schedule') = Scheduled(schedule)
      <4>1. /\ SoundSchedule(UpdateSchedule(schedule, m, bytesRemaining'), bytesRemaining')
            /\ Scheduled(UpdateSchedule(schedule, m, bytesRemaining')) = Scheduled(schedule)
        BY <3>5, <3>6, <3>7, <2>1, <2>3, <1>1, UpdateLemma
      <4> QED BY <4>1, <3>1
    <3> QED BY <3>5, <3>6, <3>8, <2>3
  <2>4. CASE m \notin Scheduled(schedule)
    <3>1. bytesRemaining' = bytesRemaining /\ schedule' = schedule
      BY <2>2, <2>4, <1>0b
    <3> QED BY <3>1, <2>1, <2>4, <1>1
  <2> QED BY <2>3, <2>4
<1>8. TypeOK'
  BY <1>0, <1>1, <1>3, <1>6, <1>7 DEF TypeOK
<1>9. IteratorValid'
  <2>1. m \in Scheduled(schedule) => ~granting
    BY <1>0, <1>1 DEF GrantOK
  <2> QED BY <2>1, <1>0, <1>7 DEF Inv, IteratorValid
<1>10. ASSUME NEW x \in Message PROVE MessageOK(x)'
  <2>1. CASE x = m
    BY <2>1, <1>0, <1>3, <1>5, <1>6 DEF MessageOK
  <2>2. CASE x # m
    <3>1. packets'[x] = packets[x] /\ (x \in messageTimeout' <=> x \in messageTimeout)
      BY <2>2, <1>1, <1>3 DEF TypeOK
    <3>2. MessageOK(x)
      BY DEF Inv
    <3>3. /\ state'[x] = state[x] /\ delivered' = delivered
          /\ x \in Elements(receivedMessages') <=> x \in Elements(receivedMessages)
          /\ x \in resendTimeout' <=> x \in resendTimeout
      BY <2>2, <1>0, <1>6
    <3> QED BY <3>1, <3>2, <3>3 DEF MessageOK
  <2> QED BY <2>1, <2>2
<1>11. ASSUME NEW x \in Message PROVE GrantOK(x)'
  <2>1. GrantOK(x)
    BY DEF Inv
  <2>2. (NeedsGrants(x)' <=> NeedsGrants(x)) /\ bytesGranted' = bytesGranted
    BY <1>0 DEF NeedsGrants
  <2>3. state'[x] = "NONE" <=> state[x] = "NONE"
    <3>1. CASE x = m
      BY <3>1, <1>1, <1>6
    <3>2. CASE x # m
      BY <3>2, <1>6
    <3> QED BY <3>1, <3>2
  <2>4. /\ bytesRemaining[x] \in Nat /\ bytesRemaining'[x] \in Nat
        /\ bytesRemaining'[x] <= bytesRemaining[x]
        /\ Length[x] \in Nat /\ bytesGranted[x] \in Nat /\ maxScheduledBytes \in Nat
    <3>1. /\ bytesRemaining \in [Message -> Nat] /\ bytesRemaining' \in [Message -> Nat]
          /\ bytesGranted \in [Message -> Nat]
      BY <1>1, <1>7 DEF TypeOK
    <3>2. bytesRemaining'[x] <= bytesRemaining[x]
      BY <3>1, <1>7
    <3> QED BY <3>1, <3>2, NumPackets, PolicyAssumption
  <2>5. x \in Scheduled(schedule) => bytesRemaining'[x] = MissingBytes(x, packets'[x])
    <3>1. CASE x = m
      BY <3>1, <1>7
    <3>2. CASE x # m
      BY <3>2, <2>1, <1>1, <1>3, <1>7 DEF GrantOK, TypeOK
    <3> QED BY <3>1, <3>2
  <2> QED BY <2>1, <2>2, <2>3, <2>4, <2>5, <1>7 DEF GrantOK
<1> QED BY <1>6, <1>7, <1>8, <1>9, <1>10, <1>11 DEF Inv

(* A step that changes the timeouts and the queue only.                      *)
LEMMA GrantFrame ==
  ASSUME Inv, UNCHANGED <<packets, numUnscheduledPackets, grantVars>>,
         NEW x \in Message, state'[x] = "NONE" <=> state[x] = "NONE"
  PROVE  GrantOK(x)'
<1>1. /\ packets' = packets /\ numUnscheduledPackets' = numUnscheduledPackets
      /\ bytesRemaining' = bytesRemaining /\ bytesGranted' = bytesGranted /\ schedule' = schedule
  BY DEF grantVars
<1>2. GrantOK(x) /\ (NeedsGrants(x)' <=> NeedsGrants(x))
  BY <1>1 DEF Inv, NeedsGrants
<1> QED BY <1>1, <1>2 DEF GrantOK

(* BUSY and PING packets.                                                    *)
LEMMA BusyInv ==
  ASSUME Inv, NEW m \in Message, HandleBusy(m) \/ HandlePing(m)
  PROVE  Inv'
<1>1. /\ packets[m] # {} /\ UNCHANGED <<msgVars, grantVars, inbox, loop>>
      /\ messageTimeout' = messageTimeout \cup {m}
      /\ resendTimeout' = resendTimeout
           \/ (resendTimeout' = resendTimeout \cup {m} /\ state[m] = "IN_PROGRESS")
  BY DEF HandleBusy, HandlePing, Findable
<1>2. /\ state' = state /\ packets' = packets /\ numUnscheduledPackets' = numUnscheduledPackets
      /\ bytesRemaining' = bytesRemaining /\ bytesGranted' = bytesGranted /\ schedule' = schedule
      /\ receivedMessages' = receivedMessages /\ delivered' = delivered
      /\ granting' = granting /\ it' = it /\ slot' = slot
  BY <1>1 DEF msgVars, grantVars, inbox, loop
<1>3. TypeOK'
  BY <1>1, <1>2 DEF Inv, TypeOK
<1>4. SoundSchedule(schedule', bytesRemaining') /\ IteratorValid' /\ Linked(receivedMessages')
  BY <1>2 DEF Inv, IteratorValid
<1>5. ASSUME NEW x \in Message PROVE MessageOK(x)' /\ GrantOK(x)'
  <2>1. MessageOK(x)
    BY DEF Inv
  <2>2. MessageOK(x)'
    BY <2>1, <1>1, <1>2 DEF MessageOK
  <2>3. GrantOK(x)'
    BY <1>1, <1>2, GrantFrame
  <2> QED BY <2>2, <2>3
<1> QED BY <1>3, <1>4, <1>5 DEF Inv

(* The application takes a message.                                          *)
LEMMA ReceiveInv ==
  ASSUME Inv, ReceiveMessage
  PROVE  Inv'
<1> DEFINE h == Head(receivedMessages)
<1>1. /\ receivedMessages # <<>> /\ UNCHANGED <<msgVars, timers, grantVars, loop>>
      /\ delivered' = delivered \cup {h} /\ receivedMessages' = Tail(receivedMessages)
  BY DEF ReceiveMessage
<1>2. /\ state' = state /\ packets' = packets /\ numUnscheduledPackets' = numUnscheduledPackets
      /\ bytesRemaining' = bytesRemaining /\ bytesGranted' = bytesGranted /\ schedule' = schedule
      /\ messageTimeout' = messageTimeout /\ resendTimeout' = resendTimeout
      /\ granting' = granting /\ it' = it /\ slot' = slot
  BY <1>1 DEF msgVars, timers, grantVars, loop
<1>3. /\ receivedMessages \in Seq(Message) /\ Linked(receivedMessages) /\ TypeOK
  BY DEF Inv, TypeOK
<1>4. /\ h \in Elements(receivedMessages) /\ receivedMessages' \in Seq(Message)
      /\ Linked(receivedMessages') /\ Elements(receivedMessages') = Elements(receivedMessages) \ {h}
  BY <1>1, <1>3, TailLemma
<1>5. h \in Message
  BY <1>3, <1>4, EmptyList
<1> HIDE DEF h
<1>6. TypeOK'
  BY <1>1, <1>2, <1>3, <1>4, <1>5 DEF TypeOK
<1>7. SoundSchedule(schedule', bytesRemaining') /\ IteratorValid'
  BY <1>2 DEF Inv, IteratorValid
<1>8. ASSUME NEW x \in Message PROVE MessageOK(x)' /\ GrantOK(x)'
  <2>1. MessageOK(x)
    BY DEF Inv
  <2>2. MessageOK(x)'
    BY <2>1, <1>1, <1>2, <1>4 DEF MessageOK
  <2>3. GrantOK(x)'
    BY <1>1, <1>2, GrantFrame
  <2> QED BY <2>2, <2>3
<1> QED BY <1>4, <1>6, <1>7, <1>8 DEF Inv

(* A message whose object is destroyed, which is not queued and leaves the   *)
(* application if it has it.                                                 *)
LEMMA DestroyInv ==
  ASSUME Inv, NEW m \in Message, Destroy(m), m \notin Elements(receivedMessages),
         delivered' = delivered \ {m}, UNCHANGED <<receivedMessages, loop>>
  PROVE  Inv'
<1>1. /\ NeedsGrants(m) => ~granting
      /\ messageTimeout' = messageTimeout \ {m} /\ resendTimeout' = resendTimeout \ {m}
      /\ state' = [state EXCEPT ![m] = "NONE"]
      /\ packets' = [packets EXCEPT ![m] = {}]
      /\ numUnscheduledPackets' = numUnscheduledPackets
      /\ bytesRemaining' = bytesRemaining /\ bytesGranted' = bytesGranted
      /\ granting' = granting /\ it' = it /\ slot' = slot
  BY DEF Destroy, loop
<1>2. /\ TypeOK /\ GrantOK(m) /\ SoundSchedule(schedule, bytesRemaining)
      /\ bytesRemaining \in [Message -> Nat]
  BY DEF Inv, TypeOK
<1>3. TypeOK'
  <2>1. /\ packets' \in [Message -> SUBSET Nat] /\ \A x \in Message : packets'[x] \subseteq Indices(x)
        /\ state' \in [Message -> {"NONE", "IN_PROGRESS", "COMPLETED", "DROPPED"}]
    BY <1>1, <1>2 DEF TypeOK
  <2> QED BY <2>1, <1>1, <1>2 DEF TypeOK
<1>4. /\ SoundSchedule(schedule', bytesRemaining')
      /\ m \notin Scheduled(schedule')
      /\ Scheduled(schedule') \ {m} = Scheduled(schedule) \ {m}
      /\ m \notin Scheduled(schedule) => schedule' = schedule
  <2>1. InSchedule(m) <=> m \in Scheduled(schedule)
    BY DEF InSchedule, Scheduled
  <2>2. CASE m \in Scheduled(schedule)
    <3>1. schedule' = Unschedule(schedule, m, bytesRemaining)
      BY <2>1, <2>2 DEF Destroy
    <3>2. /\ SoundSchedule(Unschedule(schedule, m, bytesRemaining), bytesRemaining)
          /\ Scheduled(Unschedule(schedule, m, bytesRemaining)) = Scheduled(schedule) \ {m}
      BY <2>2, <1>2, UnscheduleLemma
    <3> QED BY <3>1, <3>2, <2>2, <1>1
  <2>3. CASE m \notin Scheduled(schedule)
    <3>1. schedule' = schedule
      BY <2>1, <2>3 DEF Destroy
    <3> QED BY <3>1, <2>3, <1>1, <1>2
  <2> QED BY <2>2, <2>3
<1>5. IteratorValid'
  <2>1. m \in Scheduled(schedule) => ~granting
    BY <1>1, <1>2 DEF GrantOK
  <2> QED BY <2>1, <1>1, <1>4 DEF Inv, IteratorValid
<1>6. ASSUME NEW x \in Message PROVE MessageOK(x)' /\ GrantOK(x)'
  <2>1. MessageOK(x) /\ GrantOK(x)
    BY DEF Inv
  <2>2. NeedsGrants(x)' <=> NeedsGrants(x)
    BY <1>1 DEF NeedsGrants
  <2>3. CASE x = m
    <3>1. state'[m] = "NONE" /\ packets'[m] = {}
      BY <1>1, <1>2 DEF TypeOK
    <3>2. MessageOK(m)'
      BY <3>1, <1>1 DEF MessageOK
    <3>3. GrantOK(m)'
      BY <3>1, <1>1, <1>2, <1>4 DEF GrantOK
    <3> QED BY <3>2, <3>3, <2>3
  <2>4. CASE x # m
    <3>1. state'[x] = state[x] /\ packets'[x] = packets[x]
      BY <2>4, <1>1, <1>2 DEF TypeOK
    <3>2. MessageOK(x)'
      BY <3>1, <2>1, <2>4, <1>1 DEF MessageOK
    <3>3. x \in Scheduled(schedule') <=> x \in Scheduled(schedule)
      BY <2>4, <1>4
    <3>4. GrantOK(x)'
      BY <3>1, <3>3, <2>1, <2>2, <1>1 DEF GrantOK
    <3> QED BY <3>2, <3>4
  <2> QED BY <2>3, <2>4
<1>7. Linked(receivedMessages')
  BY DEF Inv
<1> QED BY <1>3, <1>4, <1>5, <1>6, <1>7 DEF Inv

(* The application releases a message.                                       *)
LEMMA DropInv ==
  ASSUME Inv, NEW m \in Message, DropMessage(m)
  PROVE  Inv'
<1>1. MessageOK(m) /\ m \in delivered
  BY DEF Inv, DropMessage
<1>2. m \notin Elements(receivedMessages)
  BY <1>1 DEF MessageOK
<1> QED BY <1>2, DestroyInv DEF DropMessage

(* The timeout of an unfinished message.                                     *)
LEMMA AbandonInv ==
  ASSUME Inv, NEW m \in Message, AbandonMessage(m)
  PROVE  Inv'
<1>1. MessageOK(m) /\ state[m] = "IN_PROGRESS"
  BY DEF Inv, AbandonMessage
<1>2. m \notin Elements(receivedMessages) /\ m \notin delivered
  BY <1>1 DEF MessageOK
<1>3. Destroy(m) /\ UNCHANGED <<inbox, loop>>
  BY DEF AbandonMessage
<1>4. delivered' = delivered \ {m} /\ UNCHANGED <<receivedMessages, loop>>
  BY <1>2, <1>3 DEF inbox
<1> QED BY <1>2, <1>3, <1>4, DestroyInv

(* The timeout of a complete message.                                        *)
LEMMA MarkInv ==
  ASSUME Inv, NEW m \in Message, MarkDropped(m)
  PROVE  Inv'
<1>1. /\ m \in messageTimeout /\ state[m] # "IN_PROGRESS"
      /\ messageTimeout' = messageTimeout \ {m} /\ resendTimeout' = resendTimeout \ {m}
      /\ state' = [state EXCEPT ![m] = "DROPPED"]
      /\ UNCHANGED <<packets, numUnscheduledPackets, grantVars, inbox, loop>>
  BY DEF MarkDropped
<1>2. /\ packets' = packets /\ numUnscheduledPackets' = numUnscheduledPackets
      /\ bytesRemaining' = bytesRemaining /\ bytesGranted' = bytesGranted /\ schedule' = schedule
      /\ receivedMessages' = receivedMessages /\ delivered' = delivered
      /\ granting' = granting /\ it' = it /\ slot' = slot
  BY <1>1 DEF grantVars, inbox, loop
<1>3. TypeOK /\ MessageOK(m)
  BY DEF Inv
<1>4. TypeOK'
  BY <1>1, <1>2, <1>3 DEF TypeOK
<1>5. SoundSchedule(schedule', bytesRemaining') /\ IteratorValid' /\ Linked(receivedMessages')
  BY <1>2 DEF Inv, IteratorValid
<1>6. state[m] # "NONE" /\ state'[m] = "DROPPED" /\ \A x \in Message \ {m} : state'[x] = state[x]
  BY <1>1, <1>3 DEF MessageOK, TypeOK
<1>7. ASSUME NEW x \in Message PROVE MessageOK(x)' /\ GrantOK(x)'
  <2>1. MessageOK(x)
    BY DEF Inv
  <2>2. MessageOK(x)'
    <3>1. CASE x = m
      BY <3>1, <2>1, <1>1, <1>2, <1>6 DEF MessageOK
    <3>2. CASE x # m
      BY <3>2, <2>1, <1>1, <1>2, <1>6 DEF MessageOK
    <3> QED BY <3>1, <3>2
  <2>3. state'[x] = "NONE" <=> state[x] = "NONE"
    BY <1>6
  <2>4. GrantOK(x)'
    BY <2>3, <1>1, GrantFrame
  <2> QED BY <2>2, <2>4
<1> QED BY <1>4, <1>5, <1>7 DEF Inv

-----------------------------------------------------------------------------
(* trySendGrants *)

(* A step of the loop that does not touch messages.                          *)
LEMMA LoopFrame ==
  ASSUME Inv, UNCHANGED <<msgVars, timers, grantVars, inbox>>,
         granting' \in BOOLEAN, it' \in Peer \cup {NoPeer}, slot' \in Nat, IteratorValid'
  PROVE  Inv'
<1>1. /\ state' = state /\ packets' = packets /\ numUnscheduledPackets' = numUnscheduledPackets
      /\ bytesRemaining' = bytesRemaining /\ bytesGranted' = bytesGranted /\ schedule' = schedule
      /\ messageTimeout' = messageTimeout /\ resendTimeout' = resendTimeout
      /\ receivedMessages' = receivedMessages /\ delivered' = delivered
  BY DEF msgVars, timers, grantVars, inbox
<1>2. TypeOK'
  BY <1>1 DEF Inv, TypeOK
<1>3. SoundSchedule(schedule', bytesRemaining') /\ Linked(receivedMessages')
  BY <1>1 DEF Inv
<1>4. ASSUME NEW x \in Message PROVE MessageOK(x)' /\ GrantOK(x)'
  <2>1. MessageOK(x)
    BY DEF Inv
  <2>2. MessageOK(x)'
    BY <2>1, <1>1 DEF MessageOK
  <2>3. GrantOK(x)'
    BY <1>1, GrantFrame
  <2> QED BY <2>2, <2>3
<1> QED BY <1>2, <1>3, <1>4 DEF Inv

(* Taking and releasing the schedulerMutex.                                  *)
LEMMA LoopInv ==
  ASSUME Inv, StartGranting \/ FinishGranting
  PROVE  Inv'
<1>1. UNCHANGED <<msgVars, timers, grantVars, inbox>> /\ schedule' = schedule
  BY DEF StartGranting, FinishGranting, grantVars
<1>2. schedule.peers \in Seq(Peer) /\ Linked(schedule.peers)
  BY DEF Inv, SoundSchedule
<1>3. CASE StartGranting
  <2>1. FirstOf(schedule.peers, NoPeer) \in Elements(schedule.peers) \cup {NoPeer}
    BY <1>2, FirstLemma
  <2>2. Elements(schedule.peers) \subseteq Peer
    BY <1>2, EmptyList
  <2>3. granting' = TRUE /\ it' = FirstOf(schedule.peers, NoPeer) /\ slot' = 0
    BY <1>3 DEF StartGranting
  <2>4. granting' \in BOOLEAN
    BY <2>3, Zenon
  <2>5. it' \in Peer \cup {NoPeer} /\ slot' \in Nat /\ IteratorValid'
    BY <2>1, <2>2, <2>3, <1>1 DEF IteratorValid
  <2> QED BY <2>4, <2>5, <1>1, LoopFrame
<1>4. CASE FinishGranting
  <2>1. granting' = FALSE /\ it' = NoPeer /\ slot' = 0
    BY <1>4 DEF FinishGranting
  <2>2. granting' \in BOOLEAN
    BY <2>1, Zenon
  <2>3. it' \in Peer \cup {NoPeer} /\ slot' \in Nat /\ IteratorValid'
    BY <2>1 DEF IteratorValid
  <2> QED BY <2>2, <2>3, <1>1, LoopFrame
<1> QED BY <1>3, <1>4

(* The message that gets the next slot.                                      *)
LEMMA SlotMessage ==
  ASSUME Inv, granting, it # NoPeer
  PROVE  LET m == schedule.messages[it][1]
         IN  m \in Message /\ Source[m] = it /\ m \in Scheduled(schedule)
<1> DEFINE q == schedule.messages[it]
<1>1. it \in Elements(schedule.peers) /\ schedule.peers \in Seq(Peer)
  BY DEF Inv, IteratorValid, SoundSchedule
<1>2. it \in Peer
  BY <1>1, EmptyList
<1>3. bytesRemaining \in [Message -> Nat] /\ SoundSchedule(schedule, bytesRemaining)
  BY DEF Inv, TypeOK
<1>4. q \in Seq(Message) /\ FromPeer(q, it) /\ q # <<>>
  BY <1>1, <1>2, <1>3, PeerOf
<1>5. q[1] \in Elements(q) /\ q[1] \in Message
  BY <1>4, EmptyList
<1> QED BY <1>4, <1>5 DEF FromPeer, Scheduled

(* The limit of a GRANT: within the message and the window, and not below    *)
(* the last one.                                                             *)
LEMMA NewLimit ==
  ASSUME Inv, NEW m \in Message, m \in Scheduled(schedule)
  PROVE  /\ NewGrantLimit(m) \in Nat
         /\ bytesGranted[m] <= NewGrantLimit(m)
         /\ NewGrantLimit(m) <= Length[m] - bytesRemaining[m] + maxScheduledBytes
<1>1. /\ bytesRemaining[m] \in Nat /\ bytesGranted[m] \in Nat /\ Length[m] \in Nat
      /\ minScheduledBytes \in Nat /\ maxScheduledBytes \in Nat
      /\ minScheduledBytes <= maxScheduledBytes
  BY NumPackets, PolicyAssumption DEF Inv, TypeOK
<1>2. GrantOK(m)
  BY DEF Inv
<1>3. /\ bytesGranted[m] < Length[m] /\ bytesRemaining[m] <= Length[m]
      /\ bytesGranted[m] <= Length[m] - bytesRemaining[m] + maxScheduledBytes
  BY <1>2 DEF GrantOK
<1> QED BY <1>1, <1>3 DEF NewGrantLimit

(* One slot: a GRANT, and the message leaves the schedule if it was the last. *)
LEMMA GrantInv ==
  ASSUME Inv, GrantSlot
  PROVE  Inv'
<1> DEFINE m == schedule.messages[it][1]
<1>1. /\ granting /\ it # NoPeer
      /\ bytesGranted' = [bytesGranted EXCEPT ![m] = NewGrantLimit(m)]
      /\ it' = NextOf(schedule.peers, it, NoPeer)
      /\ slot' = slot + 1
      /\ UNCHANGED <<msgVars, timers, bytesRemaining, inbox, granting>>
  BY DEF GrantSlot
<1>2. /\ state' = state /\ packets' = packets /\ numUnscheduledPackets' = numUnscheduledPackets
      /\ bytesRemaining' = bytesRemaining
      /\ messageTimeout' = messageTimeout /\ resendTimeout' = resendTimeout
      /\ receivedMessages' = receivedMessages /\ delivered' = delivered /\ granting' = granting
  BY <1>1 DEF msgVars, timers, inbox
<1>3. m \in Message /\ Source[m] = it /\ m \in Scheduled(schedule)
  BY <1>1, SlotMessage
<1>4. /\ FullyGranted(m, bytesGranted'[m]) => schedule' = Unschedule(schedule, m, bytesRemaining)
      /\ ~FullyGranted(m, bytesGranted'[m]) => schedule' = schedule
  BY DEF GrantSlot
<1> HIDE DEF m
<1>5. TypeOK /\ SoundSchedule(schedule, bytesRemaining) /\ bytesRemaining \in [Message -> Nat]
  BY DEF Inv, TypeOK
<1>6. /\ NewGrantLimit(m) \in Nat
      /\ NewGrantLimit(m) <= Length[m] - bytesRemaining[m] + maxScheduledBytes
      /\ bytesGranted'[m] = NewGrantLimit(m)
      /\ \A x \in Message \ {m} : bytesGranted'[x] = bytesGranted[x]
      /\ bytesGranted' \in [Message -> Nat]
  BY <1>1, <1>3, <1>5, NewLimit DEF TypeOK
<1>7. /\ SoundSchedule(schedule', bytesRemaining')
      /\ Scheduled(schedule') \ {m} = Scheduled(schedule) \ {m}
      /\ m \in Scheduled(schedule') <=> bytesGranted'[m] < Length[m]
      /\ Elements(schedule.peers) \ {it} \subseteq Elements(schedule'.peers)
  <2>1. Length[m] \in Nat
    BY <1>3, NumPackets
  <2>2. CASE FullyGranted(m, bytesGranted'[m])
    <3>1. /\ SoundSchedule(Unschedule(schedule, m, bytesRemaining), bytesRemaining)
          /\ Scheduled(Unschedule(schedule, m, bytesRemaining)) = Scheduled(schedule) \ {m}
          /\ Elements(schedule.peers) \ {Source[m]}
               \subseteq Elements(Unschedule(schedule, m, bytesRemaining).peers)
      BY <1>3, <1>5, UnscheduleLemma
    <3>2. ~(bytesGranted'[m] < Length[m])
      BY <2>1, <2>2, <1>6 DEF FullyGranted
    <3> QED BY <3>1, <3>2, <2>2, <1>2, <1>3, <1>4
  <2>3. CASE ~FullyGranted(m, bytesGranted'[m])
    <3>1. bytesGranted'[m] < Length[m]
      BY <2>1, <2>3, <1>6 DEF FullyGranted
    <3> QED BY <3>1, <2>3, <1>2, <1>3, <1>4, <1>5
  <2> QED BY <2>2, <2>3
<1>8. it' \in Elements(schedule.peers) \cup {NoPeer} /\ it' # it
  <2>1. it \in Elements(schedule.peers) /\ schedule.peers \in Seq(Peer) /\ Linked(schedule.peers)
    BY <1>1 DEF Inv, IteratorValid, SoundSchedule
  <2> QED BY <2>1, <1>1, NextLemma, PeerAssumption
<1>9. it' \in Peer \cup {NoPeer}
  <2>1. Elements(schedule.peers) \subseteq Peer
    BY <1>5, EmptyList DEF SoundSchedule
  <2> QED BY <2>1, <1>8
<1>10. TypeOK'
  BY <1>1, <1>2, <1>5, <1>6, <1>9 DEF TypeOK
<1>11. IteratorValid'
  BY <1>7, <1>8 DEF IteratorValid
<1>12. Linked(receivedMessages')
  BY <1>2 DEF Inv
<1>13. ASSUME NEW x \in Message PROVE MessageOK(x)' /\ GrantOK(x)'
  <2>1. MessageOK(x) /\ GrantOK(x)
    BY DEF Inv
  <2>2. MessageOK(x)'
    BY <2>1, <1>2 DEF MessageOK
  <2>3. NeedsGrants(x)' <=> NeedsGrants(x)
    BY <1>2 DEF NeedsGrants
  <2>4. GrantOK(x)'
    <3>1. CASE x = m
      BY <3>1, <2>1, <2>3, <1>2, <1>3, <1>6, <1>7 DEF GrantOK
    <3>2. CASE x # m
      <4>1. /\ x \in Scheduled(schedule') <=> x \in Scheduled(schedule)
            /\ bytesGranted'[x] = bytesGranted[x]
        BY <3>2, <1>6, <1>7
      <4> QED BY <4>1, <2>1, <2>3, <1>2 DEF GrantOK
    <3> QED BY <3>1, <3>2
  <2> QED BY <2>2, <2>4
<1> QED BY <1>7, <1>10, <1>11, <1>12, <1>13 DEF Inv

(* A step of no action.                                                      *)
LEMMA StutterInv ==
  ASSUME Inv, UNCHANGED vars
  PROVE  Inv'
<1>1. UNCHANGED <<msgVars, timers, grantVars, inbox>> /\ UNCHANGED loop
  BY DEF vars
<1>2. granting' = granting /\ it' = it /\ slot' = slot /\ schedule' = schedule
  BY <1>1 DEF loop, grantVars
<1>3. granting' \in BOOLEAN /\ it' \in Peer \cup {NoPeer} /\ slot' \in Nat /\ IteratorValid'
  BY <1>2 DEF Inv, TypeOK, IteratorValid
<1> QED BY <1>1, <1>3, LoopFrame

(* Every step preserves the invariant.                                       *)
LEMMA NextInv == Inv /\ [Next]_vars => Inv'
<1> SUFFICES ASSUME Inv, [Next]_vars PROVE Inv'
  OBVIOUS
<1>1. CASE TrySendGrants
  BY <1>1, LoopInv, GrantInv DEF TrySendGrants
<1>2. CASE ReceiveMessage
  BY <1>2, ReceiveInv
<1>3. ASSUME NEW m \in Message, ReceivePacket(m) \/ DropMessage(m) \/ CheckMessageTimeout(m)
      PROVE  Inv'
  <2>1. CASE ReceivePacket(m)
    BY <2>1, CreateInv, DataInv, BusyInv DEF ReceivePacket
  <2>2. CASE DropMessage(m)
    BY <2>2, DropInv
  <2>3. CASE CheckMessageTimeout(m)
    BY <2>3, AbandonInv, MarkInv DEF CheckMessageTimeout
  <2> QED BY <1>3, <2>1, <2>2, <2>3
<1>4. CASE UNCHANGED vars
  BY <1>4, StutterInv
<1> QED BY <1>1, <1>2, <1>3, <1>4 DEF Next

-----------------------------------------------------------------------------
(* The theorems. *)

(* Inv is an invariant: the Receiver's data structures are sound in every    *)
(* reachable state, for any messages, peers, packet sizes and policy.        *)
THEOREM InductiveInvariant == Spec => []Inv
<1>1. Init => Inv
  BY InitInv
<1>2. Inv /\ [Next]_vars => Inv'
  BY NextInv
<1> QED BY <1>1, <1>2, PTL DEF Spec

(* The variables keep their types: no bytesRemaining underflows when packets *)
(* arrive, no packet beyond the message is stored.                           *)
THEOREM TypeCorrect == Spec => []TypeOK
<1>1. Inv => TypeOK
  BY DEF Inv
<1> QED BY <1>1, InductiveInvariant, PTL

(* Receiver::schedule, unschedule and updateSchedule keep both levels of the *)
(* schedule in SRPT order.                                                   *)
THEOREM ScheduleStaysOrdered == Spec => []ScheduleOrdered
<1>1. Inv => ScheduleOrdered
  BY DEF Inv, SoundSchedule, ScheduleOrdered
<1> QED BY <1>1, InductiveInvariant, PTL

(* A message is scheduled exactly while it needs GRANTs, a peer exactly      *)
(* while it has such messages.                                               *)
THEOREM ScheduleIsExact == Spec => []ScheduledExactly
<1>1. Inv => ScheduledExactly
  <2> SUFFICES ASSUME Inv PROVE ScheduledExactly
    OBVIOUS
  <2>1. SoundSchedule(schedule, bytesRemaining) /\ bytesRemaining \in [Message -> Nat]
    BY DEF Inv, TypeOK
  <2>2. ASSUME NEW p \in Peer
        PROVE  /\ Linked(schedule.messages[p])
               /\ Elements(schedule.messages[p]) =
                    {m \in Known : Source[m] = p /\ NeedsGrants(m) /\ bytesGranted[m] < Length[m]}
    <3>1. /\ Linked(schedule.messages[p]) /\ Elements(schedule.messages[p]) \subseteq Message
          /\ FromPeer(schedule.messages[p], p)
      BY <2>1, PeerOf
    <3>2. ASSUME NEW m \in Message
          PROVE  m \in Elements(schedule.messages[p]) <=>
                   /\ state[m] # "NONE" /\ Source[m] = p
                   /\ NeedsGrants(m) /\ bytesGranted[m] < Length[m]
      <4>1. GrantOK(m)
        BY DEF Inv
      <4>2. m \in Elements(schedule.messages[p]) <=> m \in Scheduled(schedule) /\ Source[m] = p
        BY <3>1 DEF FromPeer, Scheduled
      <4> QED BY <4>1, <4>2 DEF GrantOK
    <3> QED BY <3>1, <3>2 DEF Known
  <2>3. /\ Linked(schedule.peers)
        /\ Elements(schedule.peers) = {p \in Peer : schedule.messages[p] # <<>>}
    BY <2>1 DEF SoundSchedule
  <2> QED BY <2>2, <2>3 DEF ScheduledExactly
<1> QED BY <1>1, InductiveInvariant, PTL

(* No more than maxScheduledBytes are granted and not received.              *)
THEOREM GrantsStayInWindow == Spec => []GrantWindow
<1>1. Inv => GrantWindow
  <2> SUFFICES ASSUME Inv, NEW m \in Message, m \in Scheduled(schedule)
               PROVE  /\ bytesGranted[m] <= Length[m] - bytesRemaining[m] + maxScheduledBytes
                      /\ bytesGranted[m] <= Length[m]
    BY DEF GrantWindow, Known, InSchedule, Scheduled
  <2>1. GrantOK(m) /\ bytesGranted[m] \in Nat /\ Length[m] \in Nat
    BY NumPackets DEF Inv, TypeOK
  <2> QED BY <2>1 DEF GrantOK
<1> QED BY <1>1, InductiveInvariant, PTL

(* bytesRemaining is the payload of the packets that are missing.            *)
THEOREM RemainingIsExact == Spec => []RemainingAccounted
<1>1. Inv => RemainingAccounted
  <2> SUFFICES ASSUME Inv, NEW m \in Message, m \in Scheduled(schedule)
               PROVE  bytesRemaining[m] = MissingBytes(m, packets[m])
    BY DEF RemainingAccounted, Known, InSchedule, Scheduled, MissingBytes
  <2>1. GrantOK(m)
    BY DEF Inv
  <2> QED BY <2>1 DEF GrantOK
<1> QED BY <1>1, InductiveInvariant, PTL

(* A complete message is queued or delivered, once, and nothing else is.     *)
THEOREM DeliveryIsExact == Spec => []DeliveredOnce
<1>1. Inv => DeliveredOnce
  <2> SUFFICES ASSUME Inv PROVE DeliveredOnce
    OBVIOUS
  <2>1. Elements(receivedMessages) \subseteq Message /\ delivered \subseteq Message
    BY EmptyList DEF Inv, TypeOK
  <2>2. \A m \in Message : MessageOK(m)
    BY DEF Inv
  <2>3. Elements(receivedMessages) \cap delivered = {}
    BY <2>1, <2>2 DEF MessageOK
  <2>4. Elements(receivedMessages) \cup delivered = {m \in Known : packets[m] = Indices(m)}
    BY <2>1, <2>2 DEF MessageOK, Known
  <2>5. \A m \in Known : state[m] = "IN_PROGRESS" <=> packets[m] # Indices(m)
    BY <2>2 DEF MessageOK, Known
  <2> QED BY <2>3, <2>4, <2>5 DEF Inv, DeliveredOnce
<1> QED BY <1>1, InductiveInvariant, PTL

(* The assertion in checkResendTimeouts holds, and no unfinished message is  *)
(* left without a timeout.                                                   *)
THEOREM ResendsAreInProgress == Spec => []ResendOnlyInProgress
<1>1. Inv => ResendOnlyInProgress
  <2> SUFFICES ASSUME Inv PROVE ResendOnlyInProgress
    OBVIOUS
  <2>1. /\ messageTimeout \subseteq Message /\ resendTimeout \subseteq Message
        /\ \A m \in Message : MessageOK(m)
    BY DEF Inv, TypeOK
  <2>2. resendTimeout = {m \in Message : state[m] = "IN_PROGRESS" /\ Findable(m)}
    BY <2>1 DEF MessageOK, Findable
  <2>3. resendTimeout \subseteq messageTimeout /\ messageTimeout \subseteq Known
    BY <2>1 DEF MessageOK, Known
  <2> QED BY <2>2, <2>3 DEF ResendOnlyInProgress
<1> QED BY <1>1, InductiveInvariant, PTL

(* No step takes back what was granted to a message: the assertion           *)
(* newGrantLimit >= bytesGranted in trySendGrants.                           *)
THEOREM GrantsNeverShrink == Spec => GrantsGrow
<1> DEFINE Grows == \A m \in Message : m \in Known /\ m \in Known' => bytesGranted'[m] >= bytesGranted[m]
<1>1. Inv /\ [Next]_vars => [Grows]_vars
  <2> SUFFICES ASSUME Inv, Next PROVE Grows
    OBVIOUS
  <2> SUFFICES ASSUME NEW x \in Message, state[x] # "NONE"
               PROVE  bytesGranted'[x] >= bytesGranted[x]
    BY DEF Known
  <2>1. bytesGranted \in [Message -> Nat] /\ bytesGranted[x] >= bytesGranted[x]
    BY DEF Inv, TypeOK
  <2>2. CASE bytesGranted' = bytesGranted
    BY <2>1, <2>2
  <2>3. ASSUME NEW m \in Message, NEW u \in UnscheduledIndexLimits, CreateMessage(m, u)
        PROVE  bytesGranted'[x] >= bytesGranted[x]
    BY <2>1, <2>3 DEF CreateMessage
  <2>4. CASE GrantSlot
    <3> DEFINE m == schedule.messages[it][1]
    <3>1. /\ granting /\ it # NoPeer
          /\ bytesGranted' = [bytesGranted EXCEPT ![m] = NewGrantLimit(m)]
      BY <2>4 DEF GrantSlot
    <3>2. m \in Message /\ m \in Scheduled(schedule)
      BY <3>1, SlotMessage
    <3> HIDE DEF m
    <3>3. NewGrantLimit(m) >= bytesGranted[m]
      BY <3>2, <2>1, NewLimit
    <3> QED BY <3>1, <3>2, <3>3, <2>1
  <2>5. (\A m \in Message, u \in UnscheduledIndexLimits : ~CreateMessage(m, u)) /\ ~GrantSlot
          => bytesGranted' = bytesGranted
    BY DEF Next, TrySendGrants, StartGranting, FinishGranting, ReceiveMessage, ReceivePacket,
           HandleData, HandleBusy, HandlePing, DropMessage, CheckMessageTimeout,
           AbandonMessage, MarkDropped, Destroy, grantVars
  <2> QED BY <2>2, <2>3, <2>4, <2>5
<1> QED BY <1>1, InductiveInvariant, PTL DEF Spec, GrantsGrow
=============================================================================
