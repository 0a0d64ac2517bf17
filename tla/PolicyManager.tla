--------------------------- MODULE PolicyManager ----------------------------
(***************************************************************************)
(* Policy::Manager (src/src/Policy.cc): the priorities and byte limits it    *)
(* hands to Sender and Receiver, for a driver of which only the bandwidth    *)
(* and the number of priorities are known, and the priorities that           *)
(* Receiver::trySendGrants makes of them (src/src/Receiver.cc).              *)
(***************************************************************************)
EXTENDS Integers, Sequences

CONSTANTS
  RTT_TIME_US, UNSCHEDULED_PRIORITY_CUTOFFS, MAX_OVERCOMMIT_COUNT,
  Destinations,
  HighestPriorities,   \* what getHighestPacketPriority may answer
  Bandwidths,          \* what getBandwidth may answer, in Mbits per second
  MessageLengths,      \* lengths that are asked about
  MaxScheduledPeers    \* bound: peers with scheduled messages

ASSUME PolicyAssumption ==
  /\ RTT_TIME_US \in Nat \ {0} /\ MAX_OVERCOMMIT_COUNT \in Nat \ {0}
  /\ UNSCHEDULED_PRIORITY_CUTOFFS \in Seq(Nat)
  /\ \A i, j \in 1..Len(UNSCHEDULED_PRIORITY_CUTOFFS) :
       i < j => UNSCHEDULED_PRIORITY_CUTOFFS[i] < UNSCHEDULED_PRIORITY_CUTOFFS[j]
  /\ HighestPriorities \subseteq Nat /\ Bandwidths \subseteq Nat /\ MessageLengths \subseteq Nat

VARIABLES
  MAX_PRIORITY, RTT_BYTES,   \* const members, set by the constructor
  localScheduledPolicy,
  peerPolicies,              \* a function on the peers that were asked about
  answered                   \* the last answer: length, priority and limit

policyVars == <<MAX_PRIORITY, RTT_BYTES, localScheduledPolicy, peerPolicies, answered>>

AtLeastZero(n) == IF n < 0 THEN 0 ELSE n

DefaultUnscheduled(highest) ==
  [version |-> 0, highestPriority |-> highest,
   priorityCutoffBytes |-> UNSCHEDULED_PRIORITY_CUTOFFS]

DefaultScheduled(highest, rttBytes) ==
  [maxScheduledPriority |-> AtLeastZero(highest - (Len(UNSCHEDULED_PRIORITY_CUTOFFS) + 1)),
   degreeOvercommitment |-> MAX_OVERCOMMIT_COUNT,
   minScheduledBytes |-> rttBytes, maxScheduledBytes |-> 2 * rttBytes]

(* Policy::Manager::Manager *)
PolicyInit ==
  /\ MAX_PRIORITY \in HighestPriorities
  /\ RTT_BYTES \in {RTT_TIME_US * (b \div 8) : b \in Bandwidths}
  /\ localScheduledPolicy = DefaultScheduled(MAX_PRIORITY, RTT_BYTES)
  /\ peerPolicies = <<>>
  /\ answered = [length |-> 0, priority |-> MAX_PRIORITY, limit |-> RTT_BYTES]

(* Where the search through the cutoffs stops.                               *)
IsRank(cutoffs, messageLength, rank) ==
  /\ \A i \in 1..rank : messageLength >= cutoffs[i]
  /\ rank < Len(cutoffs) => messageLength < cutoffs[rank + 1]

UnscheduledPriority(peer, messageLength) ==
  LET rank == CHOOSE r \in 0..Len(peer.priorityCutoffBytes) :
                IsRank(peer.priorityCutoffBytes, messageLength, r)
  IN  AtLeastZero(peer.highestPriority - rank)

getUnscheduledPolicy(destination, messageLength) ==
  LET peers == IF destination \in DOMAIN peerPolicies THEN peerPolicies
               ELSE [d \in DOMAIN peerPolicies \cup {destination} |->
                       IF d = destination THEN DefaultUnscheduled(MAX_PRIORITY)
                       ELSE peerPolicies[d]]
  IN
  /\ peerPolicies' = peers
  /\ answered' = [length   |-> messageLength,
                  priority |-> UnscheduledPriority(peers[destination], messageLength),
                  limit    |-> RTT_BYTES]
  /\ UNCHANGED <<MAX_PRIORITY, RTT_BYTES, localScheduledPolicy>>

PolicyNext == \E d \in Destinations, n \in MessageLengths : getUnscheduledPolicy(d, n)

getResendPriority == MAX_PRIORITY

-----------------------------------------------------------------------------
(* Receiver::trySendGrants: the priority of the message in a slot when       *)
(* messages of n peers were scheduled as it began.                           *)

(* Mutant of unusedPriorities: maxScheduledPriority counts the priorities.   *)
unusedPrioritiesShort(n) == AtLeastZero(localScheduledPolicy.maxScheduledPriority - n)

unusedPriorities(n) == AtLeastZero(localScheduledPolicy.maxScheduledPriority + 1 - n)

SlotPriority(slot, n) ==
  AtLeastZero(localScheduledPolicy.maxScheduledPriority - slot - unusedPriorities(n))

(* The slots the loop may fill.  They may be more than the n peers: one whose *)
(* first message is granted in full and unscheduled moves back behind the     *)
(* iterator and is visited again, with its next message.                      *)
Slots == 0..(localScheduledPolicy.degreeOvercommitment - 1)

-----------------------------------------------------------------------------
(* Correctness. *)

(* The unscheduled packets of a message never travel at a lower priority than *)
(* those of a longer one, nor above what the driver has, and with enough      *)
(* priorities they all overtake what is scheduled; resent packets overtake    *)
(* both.                                                                      *)
PriorityBands ==
  /\ answered.priority \in 0..getResendPriority
  /\ \A d \in DOMAIN peerPolicies, n \in MessageLengths :
       LET p == UnscheduledPriority(peerPolicies[d], n) IN
       /\ n >= answered.length => p <= answered.priority
       /\ n <= answered.length => p >= answered.priority
       /\ MAX_PRIORITY > Len(UNSCHEDULED_PRIORITY_CUTOFFS)
            => p > localScheduledPolicy.maxScheduledPriority

(* What trySendGrants asserts: more concurrent grants than the highest        *)
(* scheduled priority.                                                        *)
GrantsForAllPriorities ==
  localScheduledPolicy.degreeOvercommitment > localScheduledPolicy.maxScheduledPriority

(* With the default policy the assertion holds for exactly the drivers with   *)
(* no more than so many priorities: with three cutoffs and four grants, the   *)
(* eight of IEEE 802.1p.                                                      *)
PolicyAsserted ==
  GrantsForAllPriorities
    <=> MAX_PRIORITY <= Len(UNSCHEDULED_PRIORITY_CUTOFFS) + MAX_OVERCOMMIT_COUNT

(* Where the assertion holds, however many peers have scheduled messages, an  *)
(* earlier slot (a message with fewer bytes remaining) has no lower priority  *)
(* than a later one; the first slots, one for each of the n peers, use the    *)
(* lowest priorities, a different one each as long as there are enough; and   *)
(* whatever a peer gets when it is visited again goes at priority 0, which it *)
(* then shares, even while priorities above are unused.                       *)
SlotPriorities ==
  GrantsForAllPriorities => \A n \in 1..MaxScheduledPeers :
    LET levels == localScheduledPolicy.maxScheduledPriority + 1 IN
    /\ {SlotPriority(s, n) : s \in {t \in Slots : t < n}}
         = 0..((IF n < levels THEN n ELSE levels) - 1)
    /\ \A s \in Slots : s >= n => SlotPriority(s, n) = 0
    /\ \A s, r \in Slots : s < r => SlotPriority(s, n) >= SlotPriority(r, n)

(* Messages on either side of a cutoff get different priorities: a message    *)
(* of exactly the cutoff's length is a longer one ("the number of bytes below *)
(* which a particular network priority should be used").                      *)
CutoffsSeparate ==
  \A d \in DOMAIN peerPolicies, i \in 1..Len(UNSCHEDULED_PRIORITY_CUTOFFS) :
    LET cutoff == UNSCHEDULED_PRIORITY_CUTOFFS[i] IN
    MAX_PRIORITY >= i =>
      UnscheduledPriority(peerPolicies[d], cutoff)
        = UnscheduledPriority(peerPolicies[d], cutoff - 1) - 1

(* Seen from the network: unscheduled packets get priorities by the length of *)
(* their message and granted ones by their slot, through every clamp and      *)
(* boundary of the policy.                                                    *)
PrioritiesFollowLength == PriorityBands /\ PolicyAsserted /\ SlotPriorities /\ CutoffsSeparate
=============================================================================
