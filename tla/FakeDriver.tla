----------------------------- MODULE FakeDriver -----------------------------
(***************************************************************************)
(* FakeDriver and the FakeNetwork that connects them                        *)
(* (src/src/Drivers/Fake/FakeDriver.cc).  The network's mutex protects the   *)
(* table of NICs, each NIC has a mutex for its queues; sendPacket takes the  *)
(* NIC's while it holds the network's and lets go of the network's first,    *)
(* so delivery is two steps.  A driver can be destroyed at any time that     *)
(* nobody calls it, also between those two steps of another driver's send.   *)
(***************************************************************************)
EXTENDS Integers, Sequences, FiniteSets, SequencesExt

CONSTANTS
  FakeDrivers, FakeThread,
  NUM_PRIORITIES,
  MaxFakePackets,        \* bound: FakePackets allocated at a time
  NoOne                  \* a mutex that is free, a thread that sends nowhere

ASSUME FakeAssumption ==
  /\ NoOne \notin FakeDrivers \cup FakeThread
  /\ NUM_PRIORITIES \in Nat \ {0}
  /\ MaxFakePackets \in Nat

VARIABLES
  driverState,    \* "none", "up", "deregistered" or "destroyed"
  packetLossRate, \* "all" (1.0), or "none": losing a packet now and then changes nothing
  nicMutex,
  priorityQueue,  \* of each NIC, for each priority
  fakeHeap,       \* FakePackets that are allocated
  fakeHeld,       \* the ones in the hands of applications
  delivery        \* destination and priority of a send under way

fakeVars == <<driverState, packetLossRate, nicMutex, priorityQueue, fakeHeap,
              fakeHeld, delivery>>

FakePriority == 0..(NUM_PRIORITIES - 1)
FakePacket   == 1..MaxFakePackets
NoDelivery   == [to |-> NoOne, priority |-> 0]

registered == {d \in FakeDrivers : driverState[d] = "up"}

FakeInit ==
  /\ driverState = [d \in FakeDrivers |-> "none"]
  /\ packetLossRate = "none"
  /\ nicMutex = [d \in FakeDrivers |-> NoOne]
  /\ priorityQueue = [d \in FakeDrivers |-> [i \in FakePriority |-> <<>>]]
  /\ fakeHeap = {} /\ fakeHeld = {}
  /\ delivery = [t \in FakeThread |-> NoDelivery]

(* operator new: which free address it returns makes no difference.          *)
NewPacket == CHOOSE k \in FakePacket \ fakeHeap : TRUE

(* FakeDriver::FakeDriver and FakeNetwork::registerNIC *)
constructFake(d) ==
  /\ driverState[d] = "none"
  /\ driverState' = [driverState EXCEPT ![d] = "up"]
  /\ UNCHANGED <<packetLossRate, nicMutex, priorityQueue, fakeHeap, fakeHeld, delivery>>

(* FakeDriver::~FakeDriver: deregisterNIC ...                                *)
deregisterFake(d) ==
  /\ driverState[d] = "up"
  /\ driverState' = [driverState EXCEPT ![d] = "deregistered"]
  /\ UNCHANGED <<packetLossRate, nicMutex, priorityQueue, fakeHeap, fakeHeld, delivery>>

QueuedPackets(d) == UNION {ToSet(priorityQueue[d][i]) : i \in FakePriority}

DeletedWithNic(d) == QueuedPackets(d)

(* ... then FakeNIC::~FakeNIC, with the NIC's mutex.                         *)
destroyFakeNic(d) ==
  /\ driverState[d] = "deregistered" /\ nicMutex[d] = NoOne
  /\ driverState' = [driverState EXCEPT ![d] = "destroyed"]
  /\ fakeHeap' = fakeHeap \ DeletedWithNic(d)
  /\ priorityQueue' = [priorityQueue EXCEPT ![d] = [i \in FakePriority |-> <<>>]]
  /\ UNCHANGED <<packetLossRate, nicMutex, fakeHeld, delivery>>

setPacketLossRate(rate) ==
  /\ packetLossRate # rate /\ packetLossRate' = rate
  /\ UNCHANGED <<driverState, nicMutex, priorityQueue, fakeHeap, fakeHeld, delivery>>

allocFakePacket ==
  /\ registered # {} /\ fakeHeap # FakePacket
  /\ fakeHeap' = fakeHeap \cup {NewPacket}
  /\ fakeHeld' = fakeHeld \cup {NewPacket}
  /\ UNCHANGED <<driverState, packetLossRate, nicMutex, priorityQueue, delivery>>

(* Mutant of LockNic: the NIC is found, its mutex is taken later.            *)
LockNicLater(d, t) == UNCHANGED nicMutex

LockNic(d, t) == nicMutex[d] = NoOne /\ nicMutex' = [nicMutex EXCEPT ![d] = t]

(* FakeNetwork::sendPacket with the network's mutex.  A packet that is lost, *)
(* or for which there is no NIC, changes nothing.                            *)
sendFakePacket(t, d, priority) ==
  /\ registered # {} /\ fakeHeld # {}
  /\ delivery[t] = NoDelivery
  /\ packetLossRate # "all" /\ d \in registered
  /\ LockNic(d, t)
  /\ delivery' = [delivery EXCEPT ![t] = [to |-> d, priority |-> priority]]
  /\ UNCHANGED <<driverState, packetLossRate, priorityQueue, fakeHeap, fakeHeld>>

(* The rest of it, with the NIC's mutex: a copy of the packet is queued.     *)
deliverFakePacket(t) ==
  LET d == delivery[t].to IN
  /\ d # NoOne /\ fakeHeap # FakePacket
  /\ fakeHeap' = fakeHeap \cup {NewPacket}
  /\ priorityQueue' = [priorityQueue EXCEPT ![d][delivery[t].priority] = Append(@, NewPacket)]
  /\ nicMutex' = [nicMutex EXCEPT ![d] = NoOne]
  /\ delivery' = [delivery EXCEPT ![t] = NoDelivery]
  /\ UNCHANGED <<driverState, packetLossRate, fakeHeld>>

(* How many packets the loop takes from queue i when it has room for so many *)
(* more.                                                                    *)
Taken(queue, room) == IF Len(queue) < room THEN Len(queue) ELSE room

(* FakeDriver::receivePackets: the loop comes to the queues from the highest *)
(* priority on, to queue i with room[i + 1] left of maxPackets.              *)
receiveFakePackets(d, maxPackets) ==
  \E room \in [0..NUM_PRIORITIES -> 0..maxPackets] :
    LET queue == priorityQueue[d]
        taken(i) == Taken(queue[i], room[i + 1])
        received == UNION {{queue[i][j] : j \in 1..taken(i)} : i \in FakePriority}
    IN
    /\ driverState[d] = "up" /\ nicMutex[d] = NoOne /\ received # {}
    /\ room[NUM_PRIORITIES] = maxPackets
    /\ \A i \in FakePriority : room[i] = room[i + 1] - taken(i)
    /\ priorityQueue' = [priorityQueue EXCEPT ![d] =
         [i \in FakePriority |-> SubSeq(queue[i], taken(i) + 1, Len(queue[i]))]]
    /\ fakeHeld' = fakeHeld \cup received
    /\ UNCHANGED <<driverState, packetLossRate, nicMutex, fakeHeap, delivery>>

releaseFakePacket(k) ==
  /\ k \in fakeHeld
  /\ fakeHeap' = fakeHeap \ {k} /\ fakeHeld' = fakeHeld \ {k}
  /\ UNCHANGED <<driverState, packetLossRate, nicMutex, priorityQueue, delivery>>

FakeNext ==
  \/ \E d \in FakeDrivers :
       \/ constructFake(d) \/ deregisterFake(d) \/ destroyFakeNic(d)
       \/ \E n \in 1..2 : receiveFakePackets(d, n)
       \/ \E t \in FakeThread, i \in FakePriority : sendFakePacket(t, d, i)
  \/ \E t \in FakeThread : deliverFakePacket(t)
  \/ \E rate \in {"none", "all"} : setPacketLossRate(rate)
  \/ allocFakePacket
  \/ \E k \in FakePacket : releaseFakePacket(k)

-----------------------------------------------------------------------------
(* Correctness. *)

(* A packet is never delivered into a NIC that is destroyed, and a NIC's      *)
(* mutex is held when its queues are changed: the hand-over from the          *)
(* network's mutex to the NIC's leaves no gap for the destructor.             *)
DeliversToLiveNic ==
  \A t \in FakeThread : delivery[t].to # NoOne =>
    /\ driverState[delivery[t].to] \in {"up", "deregistered"}
    /\ nicMutex[delivery[t].to] = t

(* Every FakePacket that is allocated is in the hands of an application or at *)
(* one place in one queue of a NIC that exists; none is leaked when a driver  *)
(* with packets in its queues is destroyed, and none is used after it is      *)
(* freed.                                                                     *)
FakePacketsOwned ==
  /\ fakeHeap = fakeHeld \cup UNION {QueuedPackets(d) : d \in FakeDrivers}
  /\ \A d \in FakeDrivers : QueuedPackets(d) \cap fakeHeld = {}
  /\ \A d, e \in FakeDrivers, i, j \in FakePriority :
       \A a \in 1..Len(priorityQueue[d][i]), b \in 1..Len(priorityQueue[e][j]) :
         priorityQueue[d][i][a] = priorityQueue[e][j][b] => d = e /\ i = j /\ a = b
=============================================================================
