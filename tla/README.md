# Homa: a TLA+ verification project

Homa is a message transport that runs in user space.  An application allocates
an `OutMessage`, fills it and sends it; the receiving transport hands out an
`InMessage` when all its packets have arrived.  Nothing runs by itself: any
number of application threads call `Transport::poll()` over and over, and each
call processes a burst of packets, sends what may be sent, sends GRANTs and
checks timeouts.  The library's difficulty is there: two priority schedulers,
timeouts, retries and object lifetimes, all driven by threads that interleave
under fine-grained spin locks, over a network that loses, duplicates and
reorders packets.

Line numbers are those of the repository at the commit this project is kept
beside; `PROJECT.json` (`map`) gives the lines of every definition.

## Inventory

| Component | State | Operations | Interacts with |
|---|---|---|---|
| `Sender` (`Sender.cc/.h`) | messages in hash buckets (one mutex each) with two timeouts; `sendQueue` in SRPT order, `queueMutex`; flags `sendReady`, `sending`; the message pool | `allocMessage`, `sendMessage`, `cancelMessage`, `dropMessage`; handlers of DONE, RESEND, GRANT, UNKNOWN, ERROR; `poll` = `trySend` + timeouts | driver (packets), policy (limits), application (status), peers' `Receiver` |
| `Receiver` (`Receiver.cc/.h`) | messages in buckets with two timeouts; `scheduledPeers`, each with `scheduledMessages`, `schedulerMutex`; `receivedMessages`; flag `granting` | handlers of DATA, BUSY, PING; `receiveMessage`, `dropMessage`; `poll` = `trySendGrants` + timeouts | driver, policy, application, peers' `Sender` |
| Intrusive lists (`Intrusive.h`) | doubly linked nodes inside their owners | `push_front`, `push_back`, `remove`, `prioritize`, `deprioritize` | used by all the above and by the timeouts |
| Timeouts (`Timeout.h`) | list of timeouts, `nextTimeout` | `setTimeout`, `cancelTimeout`, `anyElapsed` (without lock) | two managers per bucket |
| Transport (`TransportImpl.cc`) | none of its own | `poll`: packets in, dispatch by opcode, `Sender::poll`, `Receiver::poll` | everything |
| Policy (`Policy.cc`) | per-peer unscheduled policies (constants) | `getUnscheduledPolicy`, `getScheduledPolicy`, `getResendPriority` | Sender, Receiver |
| Object pool (`ObjectPool.h`) | free memory blocks | `construct`, `destroy` | Sender, Receiver |
| Spin lock (`SpinLock.h`) | a flag | `lock`, `try_lock`, `unlock` | everything |
| DPDK driver (`Drivers/DPDK`) | mbufs and Packets, `mbufsOutstanding`, transmit buffer, loopback ring, `corked`; what start-up acquires | construction, `allocPacket`, `sendPacket`, `cork`, `uncork`, `receivePackets`, `releasePackets`, `getQueuedBytes` | Transport, NIC, `QueueEstimator` |
| Queue estimator (`QueueEstimator.h`) | estimate and time of the last refresh | `signalBytesSent`, `getQueueEstimate` | drivers |
| Fake driver (`Drivers/Fake`) | a table of NICs, their priority queues | the driver's operations, packet loss | tests' transports |
| Counters (`Perf`), thread names (`ThreadId`), log policy (`Debug`), `Tub` | per-thread counters, tables, a cache | `getStats`, `setName`, `setLogPolicy`, `isLogging`, ... | everything |

What is hard, and the properties that make each component correct:

* **Sender.** `trySend` works under the `queueMutex` but without bucket
  mutexes, the handlers under a bucket mutex; both write the message's state.
  The queue has to agree with the states, no granted packet may be left behind
  by the lock-free `sendReady`/`sending` pair, a message may be destroyed only
  when nothing links it, and a message that waits for its receiver must have
  its timeouts armed.
* **Receiver.** The two-level schedule is repaired locally after every change
  and must stay sorted; a message must be in it exactly while it still needs
  GRANTs; it must be delivered exactly once and given up when its sender is
  gone.
* **Timeouts.** The list must be in expiry order although it is only ever
  appended to, and `anyElapsed`, read without a lock, must not miss a timeout.
* **Contents.** The bytes of a message must come out as they went in, however
  the calls and the packet boundaries fall, and every packet buffer must be
  returned once.
* **Lists.** `prioritize`/`deprioritize` must produce a sorted list from a list
  with one element out of place, and lose nothing; the pointers must form one
  closed ring per list after any sequence of calls.
* **The exchange.** Whatever the network does, the outcome that the sending
  application sees has to agree with what the receiving application did, and
  the retries of the two sides have to come to an end.
* **Drivers.** No packet buffer may be freed while something refers to it or
  be forgotten; no frame may stay behind in the transmit buffer; a start-up
  that fails halfway must leave no socket open, and what else it leaves decides
  whether another can follow.
* **Locks.** Threads that call anything in any order must never all wait for
  each other.

`PROJECT.json` (`hazards`) lists these at the lines where they bite.

## Modules

| Module | Models | Notes |
|---|---|---|
| `IntrusiveList` | `Intrusive.h` | a list is a sequence without duplicates; `Prioritize` and `Deprioritize` are given by the position at which the code's loop stops |
| `IntrusiveListTheorems` | | facts about those operators, proved |
| `Sender` | `Sender.cc`, `Sender.h` | extends `IntrusiveList` |
| `SenderProofs` | | theorems about `Sender` |
| `Receiver` | `Receiver.cc`, `Receiver.h` | extends `IntrusiveList` |
| `ReceiverProofs` | | theorems about `Receiver` |
| `Transport` | `TransportImpl.cc/.h`, `ControlPacket.h`, `Protocol.h` | composes `Sender` and `Receiver` (INSTANCE) with a network |
| `MessageService` | `Homa.h` | the abstract specification that `Transport` implements |
| `TransportProofs` | | the composition keeps the specifications of its parts and implements `MessageService` |
| `TimeoutManager` | `Timeout.h` and the loops that use it | extends `IntrusiveList` |
| `MessageBuffer` | `Sender::Message` and `Receiver::Message` as containers of bytes | justifies what `Sender` and `Receiver` take for granted about packets |
| `BufferProofs` | | theorems about `MessageBuffer` |
| `DpdkDriver` | `DpdkDriverImpl.cc` | who owns which mbuf |
| `DpdkProofs` | | theorems about the counters and about the mbufs of `DpdkDriver` |
| `DpdkStart` | the constructors and the destructor of the same class | every stage may fail |
| `QueueEstimator`, `FakeDriver`, `PolicyManager`, `ObjectPool`, `ThreadId`, `Perf`, `Tub`, `DebugLog` | the files of these names (`DebugLog`: `Debug.cc`) | |
| `ListSpec`, `ListNodes` | `Intrusive.h` | lists as sequences, and the linked nodes that implement them |
| `LockOrder` | `SpinLock.h` and the calls that take the locks of Sender, Receiver, Policy and the DPDK driver | |
| `ListProofs` | | `ListNodes` implements `ListSpec` |
| `ComponentProofs` | | theorems about `TimeoutManager`, `QueueEstimator`, `ObjectPool`, `Tub`, `ThreadId`, `PolicyManager`, `DebugLog`, `FakeDriver`, `DpdkStart`, `Perf`, `LockOrder`, and about `MCComponents` |
| `MCSender`, `MCReceiver`, `MCTransport`, `MCDpdkDriver`, `MCComponents` | | values of the constants, and the statements of the repository that the violation runs refute |

### Sender

`life`, `status`, `held`, `options` are the fields of a `Sender::Message` and
its place in the pool; `tracked` is the set of messages linked in their bucket,
`messageTimeout` and `pingTimeout` the sets with an armed timeout.
`packetsGranted`, `packetsSent`, `unsentBytes` are `QueuedMessageInfo`.
`sendQueue`, `sendReady`, `sending` are the members of the same name; `pc`,
`it`, `sentMessageIds` are the local state of a thread inside `trySend`
(`it` is one variable: it is only used by the thread that holds the
`queueMutex`).  `aborted` records that an assertion failed - the one of
`~Node()`, that a destroyed message is linked in no list; in a build without
assertions the queue would refer to freed memory.

A method that holds a bucket mutex throughout is one action; where it takes the
`queueMutex` its guard is `~QueueLocked`.  `trySend` is a sequence of actions:
`CheckReady`, `TestAndSet`, `LockQueue`, then per message `SendPacket`,
`StoreSent`, `RemoveSent`, `NextMessage`, `HitByteLimit`, `ReachEnd`, and after
the unlock one `ProcessSent` per sent message.  `StoreSent` and `RemoveSent`
are two actions because `message.state` is read by others without the
`queueMutex`.  The bucket mutexes need no variable: the actions that hold one
are single steps, and no two of them need to be told apart by bucket.

One reduction is worth naming.  `handleUnknownPacket` takes the `queueMutex`
twice, to dequeue the message and, after resetting its headers and timeouts, to
queue it again; `HandleUnknownRestart` is one step.  Between the two the bucket
mutex is held and the message is in no queue, so only `trySend` and operations
on other messages can run, and none of them reads or writes this message; the
second section resets every field of `QueuedMessageInfo`.  What the reduction
hides is the state in between (IN_PROGRESS, not queued, bucket locked), to
which `QueueConsistent` does not apply in the code.

The packets a handler sends back are outputs: `Resent(m, index, num)` is the
set of packets that answer a RESEND (none: BUSY) and `Pinged(m)` says whether a
PING goes out.  They change no state of the Sender and are kept for the
composition.  Packet contents, priorities and counters are left out.  Building
a message (`append`, `prepend`, `reserve`) is in `MessageBuffer`.

### Receiver

A `Message` is an id.  `state` is `"NONE"` when no object exists, so a late
DATA packet makes a new one, as in the code.  `packets`,
`numUnscheduledPackets`, `bytesRemaining`, `bytesGranted` are fields of
`Receiver::Message`; `schedule` holds `scheduledPeers` and each peer's
`scheduledMessages`; `receivedMessages` is the queue and `delivered` the
messages the application has.  `granting`, `it`, `slot` are the local state of
the thread in `trySendGrants`; it keeps the `schedulerMutex`, so whatever needs
it waits (`~granting`), and everything else runs between its steps.

`handleDataPacket` is two actions, `CreateMessage` and `HandleData`, because it
releases the `schedulerMutex` in between: `trySendGrants` may grant to a
message that has no packet yet.  Nothing else can reach the message then (its
bucket is locked), which `Findable` expresses.  `checkResendTimeouts` re-arms
the timeout it found and sends RESENDs: it changes no modelled state, its
assertion is `ResendOnlyInProgress` and its output is `Requested(m)`.
`PingedLimit(m)` is the output of `handlePingPacket`.

### TimeoutManager

The clock is explicit here, bounded by `MaxTime`.  A poller reads the time
once, calls `anyElapsed` without the lock, and then works through the list,
where each handler either sets the timeout again or cancels it.  `Sender` and
`Receiver` abstract this to "any armed timeout may expire".

### Transport and MessageService

`Transport` takes the steps of `Sender` and `Receiver` by INSTANCE and adds the
packets: what each handler sends back is the output operator of the component
(`Resent`, `Pinged`, `Requested`, `PingedLimit`), and a handler that finds
nothing to do drops its packet.  There is one thread per transport here: it
finishes `trySend`, `trySendGrants` and `handleDataPacket` before it does
anything else (`Busy`, `Working`); the interleavings inside one transport are
those of the component runs.  `HitByteLimit` is left out of this composition,
since the few packets fit into the driver's queue.

A handler that sends several packets sends them in the order of their indices
(`InOrder`), as its loop does.

*The network.*  Each direction is a sequence that delivers in order unless the
network loses, duplicates or delays (moves to the end) the packet at its head.
There are at most `MaxFaults` faults.

*Time.*  The clock is not modelled; what the intervals ensure is.
`TransportImpl.cc:30-37` sets them in milliseconds, where a poll takes
microseconds, so a ping or resend timeout expires when no packet is under way
and nothing is left to send or to grant (`Quiescent`), and a message timeout,
several intervals longer, only after a ping (resend) went without an answer.  The
Receiver's 80 ms run out when the sender neither sends DATA nor pings: because it
has no ping timeout any more, or because RESENDs whose range it ignores come every
2 ms and set its 6 ms ping timeout again each time (`SenderSilent`).  A timeout that
expires earlier than that is one of the faults.  Without this
assumption liveness fails for a reason that is no fault of the code: a message
whose timeout is shorter than the time it takes to poll is abandoned and
restarted for ever.

`MessageService` knows only outcomes, what the receiving application holds and
what it replied.  The mapping reads IN_PROGRESS and SENT as PENDING.
`ImplementsService` says that COMPLETED needs an `acknowledge()` of a message
that was delivered, that COMPLETED and FAILED stay as long as the sending
application does not cancel the message, and that the receiving application is
never given a message of which it holds a copy (`copies` counts them).  Two things
the service has to allow because the code does them: `cancel()` overwrites any
outcome, where `Homa.h` speaks of messages that are IN_PROGRESS, and
a CANCELED message may become FAILED, since GRANTs and RESENDs still arm its
timeouts.  So COMPLETED, CANCELED, FAILED is a sequence that an application can
see; what it cannot see is COMPLETED after a cancel or after FAILED.  A canceled
message also still answers RESENDs with DATA.

*Fairness.*  `PollFairness`: both transports are polled for ever, so packets are
handled and all four kinds of timeouts are noticed when they expire in time.
`ApplicationFairness`: the receiving application takes messages, replies and
releases what it replied to.  A lost DONE or ERROR is only noticed after the
release (the next PING gets UNKNOWN, and the message is sent again), so an
application that holds on to its messages, or releases them without a reply,
keeps the sender waiting by design: `RepliesFirst`, the premise of
`EverySendSettles`.

### DpdkDriver and DpdkStart

DPDK (pool, reference counts, transmit buffer, NIC queues) is external and
modelled as the driver uses it.  `mbufs` has the reference counts and the two
properties of a frame that matter, its length and the priority in its header;
`packetPool` the Packets given out, each on an mbuf or an overflow buffer.
`sendPacket` is up to three steps (before `tx.mutex`, buffer, flush), `uncork`
two (the `fetch_sub`, then the flush with the mutex), `receivePackets` one for
the burst and one per frame.  `Holders(m)` counts everything that refers to an
mbuf: `NoUseAfterFree` and `NoMbufLeak` compare it with the reference count
from both sides.  Payload bytes are left out; in the overflow branch of
`receivePackets` the arguments of `rte_memcpy` are the wrong way round
(`DpdkDriverImpl.cc:435`), which a model of ownership does not show.

`DpdkStart` runs the constructor stage by stage; any stage may fail, which
throws, and the destructor does not run.  The model shows what the code leaves
behind then: the socket is closed on every path (`SocketClosed`), but a constructor
that fails after it created the pool keeps the pool, the callback and the buffer,
the started port, the ring and the pinned thread, as far as it got.  `LeftBehind`
says what that means: the name of the pool is taken, and no driver of the port comes
up again; as long as no such failure happened, drivers can be started and destroyed
over and over, and all that stays are the transmit callback and `tx.buffer`, which
`~Impl` does not free (it "[frees] the various allocated resources",
`DpdkDriverImpl.cc:169`) and which have no name to clash.  `StartsCleanly` is these
two with what a driver that is up has (`UpIsComplete`).

### ListSpec and ListNodes

`IntrusiveList` treats lists as sequences, and everything above is checked and
proved on that.  `ListNodes` is the code with its pointers: `prevNode`,
`nextNode`, `nodeList` of each node and the root of each list, with insertion
and unlinking as the code writes them, and the loops of `prioritize` and
`deprioritize` as walks along the pointers.  `ImplementsLists` shows that it
implements `ListSpec`, whose steps are the operators of `IntrusiveList`, and
that the rings stay closed in both directions (`WellLinked`).

### LockOrder

A call is the sequence of its lock and unlock steps in the order of the source, those
of alternative branches one after the other; an actual call leaves some out.  One
bucket stands for all, since no call holds two.  `NoLockCycle` is the absence
of deadlock among two threads that make any calls, together with the order in
which every call nests its locks (`Nesting`), from which it follows for any
number of threads.  The
destructors of `Sender` and `Receiver` take locks in the reverse order and are
left out: they run when no other thread uses the transport.  The mutexes of the
fake driver are in `FakeDriver`, and those of `Debug`, `Perf` and `ThreadId` guard
short functions that take none of the locks here.

### The other components

* `QueueEstimator` runs beside the true queue of a NIC that drains at a rate
  that is no whole number of bytes per tick.  Each refresh rounds against the
  estimate and forgets the fraction, so the estimate may drift below the queue by
  almost a byte per refresh; `EstimateBounds` says that this is all it does.
* `FakeDriver`: delivery is two steps, since the mutex of the network is given
  up for that of the NIC; drivers are destroyed meanwhile.  Its queue estimator
  is used without a lock (not modelled), and `~FakeNetwork` deletes the NICs
  that are left.
* `PolicyManager`: cutoffs and constants are those of `Policy.cc`; the
  priorities that `trySendGrants` computes from them are included.
  `PrioritiesFollowLength` collects what Sender and Receiver rely on, and under
  which condition: the first assertion of `trySendGrants` holds exactly if the
  highest priority is at most the number of cutoffs and grants together
  (`PolicyAsserted`; `HIGHEST_PACKET_PRIORITY_OVERRIDE` is not checked by the code),
  and scheduled priorities are below the unscheduled ones if there are more
  priorities than cutoffs.  `Slots` are all that the loop may fill: a peer whose
  message is granted in full moves back behind the iterator and is visited again
  with its next message.  That visit goes at priority 0, together with the last
  slot of the first round and with higher priorities unused, where the comment
  (`Receiver.cc:716-723`) has messages share one only if there are more messages
  than priorities.
* `Perf`: `getStats` reads one counter at a time while other threads count.
  `idle_cycles` is a difference that wraps around while a poll is under way;
  `StatsBracketed` shows it does not otherwise.
* `DebugLog`: a text is the sequence of its pieces between commas, and a piece the
  sequence of its parts between "@" signs; `Items` is `StringUtil::split`.
  `logPolicyToString` is documented as "as accepted by logPolicyFromString"; that
  is so for patterns without a comma (`CommaFree`, the premise of
  `PolicyRoundTrip`).  A pattern with one is split into two rules, the first of
  which has a piece of the pattern for its level.
* `ObjectPool`, `ThreadId`, `Tub`: all their operations in any order.

Two properties of `MCComponents` each gather what several of these promise:
`OwnedOnce` (pool memory, objects in Tubs, packets of the fake driver) and
`NoStaleAnswers` (log policy and its cache, names of threads).

### MessageBuffer

One message from its first byte to its last reader.  `outState` and the fields
with it are the `Sender::Message`, `inState` and its fields the
`Receiver::Message`; `written`
is the flat sequence of bytes that the calls of the application amount to, the
reference against which the packets are checked.  `Chunks` is the loop that
`append`, `prepend`, `reserve` and `get` share and `CopyTurn` one turn of it;
`ReleaseTurn` is one turn of the receiving destructor's loop, which returns packets in
contiguous runs.  Bytes
have identities (the n-th byte written is n).  The actions follow the documented
preconditions: `prepend` uses reserved space (asserted), `reserve` comes first
(asserted), a message is sent with its headroom used up (stated in `Homa.h`,
not checked by the code) and not changed after it is sent.

`Packetized` is what `Sender` and `Receiver` assume: a message of length L has
the packets `0 .. Ceil(L) - 1`, all full but the last.  `ContentsExact` is that,
the agreement of `get` with what was written (`ReadsWritten`) and the return of
every packet (`ReleasedExactly`).

## Runs

| Run | Instance | Shows |
|---|---|---|
| `SenderConcurrent` | 2 threads, 2 messages of 2 and 3 packets, with and without NO_KEEP_ALIVE | the safety invariants, the inductive invariant `Inv` with `TypeOK` in it, and `NeverRevived` |
| `SenderSingleThread` | 1 thread, messages of 1 and 3 packets, every option | `NoAbort`, `ArmedWhileSending`, `DroppedWaits` |
| `SenderProgress` | 2 threads, 2 messages of 2 packets | `GrantedAreSent`, `EventuallySettled` |
| `ReceiverSchedule` | 3 messages of 2 peers (2, 3 and 2 packets), two grant slots | `ScheduleOrdered`, `ScheduledExactly`, `GrantWindow`, `RemainingAccounted`, `GrantsGrow` |
| `ReceiverDelivery` | 2 messages, three unscheduled limits (none, one, all packets) | `DeliveredOnce`, `ResendOnlyInProgress`, `AbandonedEventually`, `DeliveredEventually` |
| `Transport` | one message of two packets, of which one or both are unscheduled, with and without NO_RETRY, two faults (108,586 states, 3.5 minutes) | `ImplementsService`, `EverySendSettles` |
| `Dpdk` | 2 threads, 3 mbufs (one in reserve), 2 Packets, bursts of 2, both constructors | `NoUseAfterFree`, `OutstandingExact`, `QueuedFramesKept`, `NothingStranded` |
| `Components` | thirteen components, one at a time (below) | `AnyElapsedExact`, `TimeoutsHandled`, `ContentsExact`, `EstimateBounds`, `DeliversToLiveNic`, `StartsCleanly`, `PrioritiesFollowLength`, `StatsBracketed`, `OwnedOnce`, `NoStaleAnswers`, `ImplementsLists`, `NoLockCycle` |
| `SenderDropRace`, `NoRetryTwice`, `TrailingLoss`, `MbufLeak` | the smallest instances that show it | see below |

`MCComponents` puts the components that do not interact into one run: the
first state chooses a component (`part`), which moves while the others stay in
their first state, so that their state spaces add up instead of being
multiplied.  Its instances: 3 timeouts, 2 pollers and 2 time steps; messages of
up to 3 packets of 2 bytes made by calls of up to 3 bytes; 2 drivers and 2
threads on the fake network; 3 starts of the DPDK driver; every number of
priorities from one to nine and lengths on both sides of each cutoff; 4 blocks
of pool memory; 2 threads at a time with up to 4 identifiers; 2 counting
threads; 3 Tubs; policies of up to 2 rules over 5 patterns, one with a comma; 4 nodes, two of
them equal, in 2 lists; 2 threads that make any two calls that take locks.

**Bounds.** Packets carry 2 bytes and lengths are chosen so that one message
ends in a packet that is not full.  Three packets give a first, a middle and a
last; with the limits used a message has granted and ungranted packets, is
granted bit by bit, at once, and beyond its end.  Two threads are enough for
the races of this code, which are between a thread in `trySend` and one that
handles a packet, a timeout or a call; the theorems do not depend on the
number.  Three messages of two peers are the smallest instance in which a peer
has to move because its first message changed while another message of the
same peer waits.  Among the contents a call
may start and end anywhere in a packet, reach over a boundary, or exceed
the maximum length.  In `Transport` two packets
make one that is unscheduled and one that needs a GRANT, or with the limit of 6
two that are unscheduled under a limit beyond the end of the message; two faults are
enough for a packet that is lost together with its repetition, or a duplicate
that arrives after a restart.  Three mbufs and two Packets let the pool run
empty, reach the limit, and hold a clone beside the mbuf it shares.
Bounds that cut behaviour off are named and stand in guards: `MaxTime`,
`MaxClock`, `MaxNicBytes`, `MaxCount`, `MaxFaults`, `MaxPackets`, `MaxRx`,
`MaxStarts`, `MaxBlocks`, `MaxThreadId`, `MaxCycles`, `MaxConstructed`,
`MaxFakePackets`.  Elsewhere the state is finite by itself (a message is sent
once, ids are not reused).  Thread
symmetry is used in safety runs only.

The Sender, Transport, Dpdk and Components runs do not check for deadlock: the
model may stop after a failed assertion, when all messages are settled and
released, or at a bound.  Where everyone could wait on everyone, `NoLockCycle`
says so.

**Fairness.** `Homa.h` requires that `poll()` is called over and over, so a
thread that can take a step of `trySend` eventually does (`WF` of `TrySend`),
and expired timeouts are eventually found (`TimeoutFairness`, a premise of
`EventuallySettled` only: `GrantedAreSent` must not hold just because a
stranded message times out).  `SF` of `SendPacket` says that the
driver's queue drains: the byte limit does not stop the same packet for ever.
In the Receiver the timeouts get `SF`, because `poll()` calls `trySendGrants`
and then `checkTimeouts`: a poller does not take the `schedulerMutex` twice
without visiting the timeouts in between.  In `Components` only
the pollers of `TimeoutManager` are fair.  No fairness is assumed of the network
or, outside `Transport`, of the peers.  `EventuallySettled` and `AbandonedEventually` are
stated for the case that the other side falls silent (`Silence`): a peer that
goes on answering keeps a message alive by design.

## What the violation runs show

Each states what the repository says and is refuted by what the code does;
`PROJECT.json` (`findings`) has the quotations.

* `SenderDropRace`: `trySend` stores SENT before it unlinks the message; a
  `dropMessage` in between destroys a linked message.
* `NoRetryTwice`: `Homa.h` promises at-most-once delivery with NO_RETRY.  A
  packet that arrives after the message was released creates it again, and the
  Sender, which answers RESENDs in every state, supplies the rest.
* `TrailingLoss`: when the last packet of an unscheduled message shorter than
  the unscheduled limit is lost or late, the RESEND reaches past the message's end
  and is ignored, so that the packet is not sent again; and since each RESEND sets
  the Sender's ping timeout before its range is looked at, the Sender does not ping
  either.  The stall ends with the Receiver's message timeout (80 ms), which destroys
  what has arrived; then a PING gets UNKNOWN and the message is sent again from its
  start or, with NO_RETRY, FAILS.  `EverySendSettles`, which the `Transport` run
  checks with a limit beyond the message too, shows that it always ends so.
* `MbufLeak`: the copy of an overflow buffer stays allocated when the
  destination has no ARP record.

Three more observations came from the modules and are described by their
definitions rather than by runs.  `trySend`'s last loop (`ProcessSent`,
`Sender.cc:1098-1122`) destroys a dropped message, or stops the timeouts of a
NO_KEEP_ALIVE one, without noticing that an UNKNOWN has queued it again.  A
message that is dropped while IN_PROGRESS and then FAILS is never freed
(`DroppedWaits` has the exception).  And `Homa.h:140` describes CANCELED as "The
message was canceled while still IN_PROGRESS", but `cancelMessage` asks for the
status only to take the message off the `sendQueue` and stores CANCELED over SENT,
COMPLETED and FAILED as well (`Sender.cc:857-871`); `Cancel` and `Fail` of
`MessageService` allow what comes of it.

`SenderDropRace` and the `ProcessSent` races need two threads: `SingleThreadSafe`
proves that.

## Proofs

`IntrusiveListTheorems` proves, for lists over any set, what `PushFront`,
`Unlink`, `Prioritize`, `Deprioritize`, `FirstOf` and `NextOf` do to the
elements, to the positions and to the order.  The positions at which the loops
stop are shown to exist with `LeastNat`, which is proved from the
well-foundedness of the natural numbers.

`SenderProofs` proves `Spec => []Inv` for any sets of messages and threads, any
lengths, packet size and limits, from the assumptions of `Sender` (lengths and
the packet size are positive, limits are natural numbers, `NoMessage` is no
message).  None of the properties is inductive by itself.

* `NoLostWakeup` is about a state in which nobody holds the `queueMutex`; that
  `ReachEnd` may leave `sendReady` false needs `PassedAreSent` (whatever is in
  front of the iterator has nothing left to send), which needs that
  `Prioritize` moves the current message only forward and leaves what is in
  front of its new place alone.
* `QueueConsistent` needs `OneSender` (one thread between `test_and_set` and
  `clear`), `IteratorValid` and `MarkedIsSent` for the message between
  `StoreSent` and `RemoveSent`, and `QueuedAreTracked`.
* `SendAccounting` needs the arithmetic of `Ceil`: the last packet is the one
  after which the remaining bytes are 0, full or not.
* `KeepAliveArmed` and `NoDangling` rest on `Lifecycle`.

The proof splits `Inv` into a half about the queue (`QInv`) and a half about
one message at a time (`ObjectOK`, `QueueOK`), so that most actions touch one
half and a frame lemma keeps the other.  Each action has a lemma; `NextInv`
puts them together.  The corollaries name the properties of the runs;
`SenderNeverRevived` is the action property.  `SingleThreadSafe` adds
`SentIsFresh` (what a single thread has sent and not yet processed cannot have
been started again) and proves that no assertion fails and that a message being
sent is armed, when one thread makes all the calls.

`SenderDroppedWaits` needs, beside `Inv`, what `ProcessSent` will still see of a
message that was dropped while it was sent.

`ReceiverProofs` proves its own `Inv` for any peers, messages, lengths, limits and
packet size.  The schedule is two-level, and the hard steps are those in which the
key of a message changes (`HandleData`) while its peer is somewhere in the outer
list: the peer's key is that of its first message, so the inner list has to be
sorted before the outer one is, and an empty inner list has to be out of the outer
one.  `ScheduleOrdered` and `ScheduledExactly` are inductive only together with
`RemainingAccounted` (the key is the bytes that have not arrived), and
`GrantWindow` needs both and the place of `trySendGrants` in its loop.
`DeliveredOnce` and `ResendOnlyInProgress` follow from what each state of a message
implies about its packets, queues and timeouts.  The cardinalities of the sets of
packets come from `FiniteSetTheorems`.

`TransportProofs` is about the composition, for any sets of messages and threads,
any lengths and limits and any bound on the faults.

* `ComponentsKeepTheirSpecs`: every step is, to each side, a step of its own
  specification or leaves it alone.  So everything proved of `Sender` and `Receiver`
  holds of the composed transports; `SenderProofs` and `ReceiverProofs` are
  instantiated, not repeated.  What is needed beyond the text of the actions is that
  the packets carry what the component allows as inputs.
* `CompositionInvariant`: that is `Exchange`.  DATA is only under way for a message
  that was sent and with an index it has; DONE only if the application has
  acknowledged the message; a Receiver only knows messages that were sent.  Losing,
  duplicating and delaying packets keep this because it is about the set of the
  packets under way.
* `TransportServes`: with both, every step is a step of `MessageService` or changes
  nothing that the applications can see.  That `receive` never hands out a second
  copy is in the invariant too (`copies` is 1 for what is delivered and else 0),
  and comes from the Receiver's invariant: what is queued is not with the application.

`ComponentProofs` has one invariant per component.  `TimeoutManager`: the list is in
expiry order because every timeout is set to a time later than all before it, and
`nextTimeout` is that of the first.  `QueueEstimator`: between refreshes the estimate
less what was drained since is never more than the NIC holds, and a NIC that is not
empty holds less than one byte more for each refresh and one.  `PolicyManager`: the
cutoffs are increasing, whatever the number of priorities.  `DebugLog`: the text of a
policy without commas has one piece per rule (`FlattenSingles`), which reads back as
that rule (`RuleRoundTrip`), so that both decide alike rule by rule.
`FakeDriver`: whoever holds a NIC's mutex keeps its destructor out, and
a packet has one place in the queues or with the application.  `DpdkStart`:
what is held at each stage, and that a pool, once abandoned, stays.  `ThreadId`: ids
are given out once, and every id in
the table of names was given out.  `ObjectPool`, `Tub`: counts of
constructed and destroyed objects.  `LockOrder`: each path takes its locks in the
order of `Nesting`, so that no circle of waiting threads, of any length, can form.
`OwnedOnce` and `NoStaleAnswers` are proved of
the specification the run uses, that of `MCComponents`.

`StatsAreBracketed`, in the same module, is about `Perf`: `getStats` adds up one
counter of one thread after another while the threads count, so that what it has read
is a mixture of several moments.  The invariant splits the threads into those that were
read and those that are left, and bounds what was read plus what is left to read from
both sides: by what was counted when `getStats` began and by what is counted now (`ReadInv`, `LeftInv`);
`PollInv` and `QuietInv` relate the two counters of a thread, which is what keeps
`idle_cycles` from wrapping around.  Sums over a set of threads are a recursive
function; what the proof needs of it, that a sum changes with one of its terms and
grows with all of them, is shown for finite sets by looking at a least subset of which
it would be false, `LeastSubset`
(`PerfAssumption`: the threads are finitely many).

`ListProofs` proves that `ListNodes` implements `ListSpec`, for any finite set of nodes
and any keys (`NodesAssumption`, which also says that lists, nodes and `NoList` are
different things).  The inductive invariant `Rings` gives for every list the sequence of
its nodes and says that the pointers are its ring: each node's `next` is the following
element, the last one's is the root, `prev` the reverse, and `nodeList` names the list;
`Counts` adds the sizes.  Inserting and unlinking one node changes four pointers at
most, and the ring of the new sequence is shown from the old one's case by case.  The
loops of `prioritize`, `deprioritize` and `clear` and the walk of the mapping are
functions over the number of turns: for each an explicit function of the sequence is
shown to satisfy the recursive equation, and any two that do so agree, so that the
definition is that function.

`BufferProofs` proves `ContentsExact` for packets of any size and any number of them.
`LoopState` is the invariant of the turns of `Chunks`: the parts so far are those of
the packets before the current one, in closed form (`Part`: where the packet and the
range meet), and the next byte to copy is where the packet goes on.  From it
(`ChunksLemma`) follow what a copy leaves in each byte (`CopyLemma`), that
`packet->length` grows to what the new length of the message fills of the packet
(`ExtendLemma`), and that `get` returns the range of `written` (`GetLemma`).
`ReleaseState` is the invariant of the destructor's turns: the packets found so far are
those released and those in the last region, which ends where the loop is.  The
inductive invariant `BufferInv` says that the packets that are set are those that begin
before `messageLength` and how far each is filled (`Packed`), that byte x of the
message is byte x - `start` of `written` (`Kept`), that no headroom is left once the
message is sent (`Sent`), and that a COMPLETED message has all its packets
(`Received`): the code counts packets, and as many as there are of them are all of
them.

`DpdkProofs`: `mbufsOutstanding` is the cardinality of the set of Packets that hold
an mbuf, in a driver made by the constructor that initializes EAL; `corked` is the
number of threads that have corked, and whoever brings it to
0 flushes.

It proves `NoUseAfterFree` and `QueuedFramesKept` for pools, rings and
bursts of any size and any finite set of threads.  `CountsOK` says of every mbuf that
its reference count is at least its clones plus the places that hold it: Packets,
transmit buffer, NIC, loopback ring, receive queue, and the calls under way.  A step
of the driver moves references one at a time, so that the invariant is false in the
middle of it.  `InHand` is the same invariant with one reference in the hand of the
call, and a step is a chain of lemmas, one for each way of taking a reference from a
place, cloning it, giving it to a place and freeing it.  Three facts have to be
carried along:

* `RxOnce`: a frame on the receiving side has a count of 1 at most, so that freeing it
  after it was copied, or when it is not for Homa, is the end of it;
* `AllocWhole`: a Packet of `allocPacket` is never on a clone, so that `sendPacket` may
  write its header.  It finds out whether it may with the reference count, which is
  1 exactly if nobody else refers to the mbuf (`Writable`);
* `TxKept`: a frame that waits is no clone and has the priority and the length that
  `sendPacket` wrote, which makes `FreedAfter` what freeing the frames one by one does,
  and makes `bufferedBytes` a multiple of the frame length.

Only model-checked: liveness (`GrantedAreSent`, `EventuallySettled`,
`AbandonedEventually`, `DeliveredEventually`, `EverySendSettles`, `TimeoutsHandled`),
which the prover does not handle.  Every invariant, action property and refinement that
the passing runs check is also proved.  What the loops in the code compute is written
as recursive functions over the turns, and no library theorem on induction can be used
on those here; the proofs show instead that there is no least turn at which the
invariant of the loop fails (`LeastNat`).

## Not modelled

* Memory orders: atomics are sequentially consistent here, as their default
  order is; `nextTimeout`, `nextBucketIndex` and the counters are relaxed, and
  the only relaxed read that matters to the protocol is `anyElapsed`, which may
  be late, as a poller that has not been scheduled yet is.
* Crashes: nothing is persisted; a transport that restarts has a new id.
* More than one transport on a side, and priorities on the wire: a priority
  only changes the order in which the network delivers, and `Delayed` reorders
  anyway.
* The byte layout of the packets, the hash of message ids, the bytes of frames,
  the ARP table and the hardware filter's configuration (DPDK's interface).
* Writing and formatting log messages, hex dumps, demangling, parsing of
  addresses and work on strings (`Util.cc`, `CodeLocation.cc`, `MacAddress.cc`,
  `Driver.cc`, `StringUtil.cc` but for `split`, and the rest of `Debug.cc`): pure formatting, with nothing that
  interleaves and no state.
* `log()` reads `logHandler` without the mutex (`Debug.cc:417`): a data race
  inside `std::function`, whose outcomes cannot be enumerated.

## Plan

1. **Done**: `IntrusiveList`, `Sender` with its proofs, `Receiver`,
   `TimeoutManager`, `MessageBuffer`.
2. **Done**: the composition `Transport` with its abstract specification, the
   drivers, the locks, the list nodes and the other components.
3. **Done**: the proofs of `Receiver`, of the composition and its refinement, of the
   locks, of the counters and the mbufs of `DpdkDriver`, of the list nodes and their
   refinement, of the contents of messages and of the small components.
4. `handleUnknownPacket` as two steps with the bucket mutex explicit; two
   messages in `Transport`, where a longer one waits for its GRANTs.

## Running

    tlc -config SenderConcurrent.cfg MCSender
    tlapm SenderProofs.tla
    tlapm TransportProofs.tla
