----------------------------- MODULE LockOrder ------------------------------
(***************************************************************************)
(* The SpinLocks (src/src/SpinLock.h) that the Transport's threads take in    *)
(* Sender, Receiver, Policy::Manager and the driver.  A call is the sequence *)
(* of its lock and unlock steps, those of alternative branches one after the *)
(* other; an actual call leaves some of them out.  One bucket of the         *)
(* Sender's and one of the Receiver's stand for all: no call holds two.      *)
(***************************************************************************)
EXTENDS Integers, Sequences

CONSTANT LockThread

VARIABLES
  flag,        \* SpinLock::flag of each lock
  path,        \* the lock steps of the call a thread makes
  step         \* how many of them are done

lockVars == <<flag, path, step>>

With(lock, body) ==
  <<[op |-> "lock", of |-> lock]>> \o body \o <<[op |-> "unlock", of |-> lock]>>

Holding(lock) == With(lock, <<>>)

-----------------------------------------------------------------------------
(* The driver (DpdkDriverImpl.cc) and ControlPacket::send. *)

allocPacketPath    == Holding("packetLock")
releasePacketsPath == Holding("packetLock")
sendPacketPath     == With("tx.mutex", Holding("tx.stats.mutex") \o Holding("tx.stats.mutex"))
getQueuedBytesPath == Holding("tx.stats.mutex")
controlPacketPath  == allocPacketPath \o sendPacketPath \o releasePacketsPath
policyPath         == Holding("policy.mutex")

(* The calls that TransportImpl::poll makes itself.                          *)
DriverCalls ==
  [receivePackets |-> Holding("rx.mutex") \o Holding("packetLock"),
   uncork         |-> With("tx.mutex", Holding("tx.stats.mutex"))]

(* Sender.cc *)
SenderPaths ==
  LET bucket(body) == With("sender.bucket", body)
      queue(body)  == With("queueMutex", body)
  IN
  [allocMessage         |-> Holding("sender.allocator") \o allocPacketPath,
   handleDonePacket     |-> bucket(releasePacketsPath),
   handleResendPacket   |-> bucket(queue(controlPacketPath \o releasePacketsPath)),
   handleGrantPacket    |-> bucket(queue(<<>>) \o releasePacketsPath),
   handleUnknownPacket  |-> bucket(queue(<<>>) \o policyPath \o sendPacketPath
                                     \o queue(<<>>) \o releasePacketsPath),
   sendMessage          |-> policyPath \o bucket(sendPacketPath \o queue(<<>>)),
   cancelMessage        |-> bucket(queue(<<>>)),
   dropMessage          |-> bucket(With("sender.allocator", releasePacketsPath)),
   checkPingTimeouts    |-> bucket(queue(<<>>) \o controlPacketPath)]

(* Mutant of trySendPath: the queueMutex is held on.                         *)
trySendNestedPath ==
  With("queueMutex",
    getQueuedBytesPath \o sendPacketPath
      \o With("sender.bucket", With("sender.allocator", releasePacketsPath)))

(* "Unlock the queueMutex to process any SENT messages to ensure any bucket  *)
(* mutex is always acquired before the send queueMutex."                     *)
trySendPath ==
  With("queueMutex", getQueuedBytesPath \o sendPacketPath)
    \o With("sender.bucket", With("sender.allocator", releasePacketsPath))

(* Receiver.cc; the loops of checkMessageTimeouts take the locks of          *)
(* dropMessage, and fail those of acknowledge.                               *)
ReceiverPaths ==
  LET bucket(body)    == With("receiver.bucket", body)
      scheduler(body) == With("schedulerMutex", body)
  IN
  [handleDataPacket    |-> bucket(Holding("receiver.allocator") \o policyPath
                                    \o scheduler(<<>>) \o scheduler(<<>>)
                                    \o Holding("receivedMessages.mutex")
                                    \o releasePacketsPath),
   handleBusyPacket    |-> bucket(releasePacketsPath),
   handlePingPacket    |-> bucket(scheduler(<<>>) \o controlPacketPath \o releasePacketsPath),
   receiveMessage      |-> Holding("receivedMessages.mutex"),
   acknowledge         |-> bucket(controlPacketPath),
   dropMessage         |-> bucket(scheduler(<<>>)
                                    \o With("receiver.allocator", releasePacketsPath)),
   checkResendTimeouts |-> bucket(scheduler(<<>>) \o scheduler(controlPacketPath)),
   trySendGrants       |-> scheduler(policyPath \o controlPacketPath)]

Paths == {SenderPaths[c] : c \in DOMAIN SenderPaths}
           \cup {ReceiverPaths[c] : c \in DOMAIN ReceiverPaths}
           \cup {DriverCalls[c] : c \in DOMAIN DriverCalls} \cup {trySendPath}

Locks == {s.of : s \in UNION {{p[i] : i \in 1..Len(p)} : p \in Paths}}

-----------------------------------------------------------------------------
LocksInit ==
  /\ flag = [l \in Locks |-> FALSE]
  /\ path = [t \in LockThread |-> <<>>]
  /\ step = [t \in LockThread |-> 0]

InCall(t)   == step[t] < Len(path[t])
NextStep(t) == path[t][step[t] + 1]

startCall(t, p) ==
  /\ ~InCall(t)
  /\ path' = [path EXCEPT ![t] = p]
  /\ step' = [step EXCEPT ![t] = 0]
  /\ UNCHANGED flag

(* What flag.test_and_set returns.                                           *)
testAndSet(l) == flag[l]

(* SpinLock::lock; a thread that finds the flag set spins, which changes      *)
(* nothing.                                                                  *)
lockStep(t) ==
  /\ InCall(t) /\ NextStep(t).op = "lock"
  /\ ~testAndSet(NextStep(t).of)
  /\ flag' = [flag EXCEPT ![NextStep(t).of] = TRUE]
  /\ step' = [step EXCEPT ![t] = @ + 1]
  /\ UNCHANGED path

(* SpinLock::unlock *)
unlockStep(t) ==
  /\ InCall(t) /\ NextStep(t).op = "unlock"
  /\ flag' = [flag EXCEPT ![NextStep(t).of] = FALSE]
  /\ step' = [step EXCEPT ![t] = @ + 1]
  /\ UNCHANGED path

LocksNext ==
  \E t \in LockThread :
    lockStep(t) \/ unlockStep(t) \/ \E p \in Paths : startCall(t, p)

-----------------------------------------------------------------------------
(* Correctness. *)

(* The locks a thread has taken and not given back.                          *)
Held(t) ==
  {l \in Locks : \E i \in 1..step[t] :
     /\ path[t][i] = [op |-> "lock", of |-> l]
     /\ \A j \in (i + 1)..step[t] : path[t][j] # [op |-> "unlock", of |-> l]}

(* No two threads hold one lock, and a flag is set exactly while one does:    *)
(* an unlock never frees a lock that another thread took.                     *)
MutualExclusion ==
  /\ \A t, u \in LockThread : t # u => Held(t) \cap Held(u) = {}
  /\ \A l \in Locks : flag[l] <=> \E t \in LockThread : l \in Held(t)

(* The order in which the code nests its locks.                              *)
Nesting == <<"sender.bucket", "receiver.bucket", "queueMutex", "schedulerMutex",
             "receivedMessages.mutex", "sender.allocator", "receiver.allocator",
             "policy.mutex", "tx.mutex", "tx.stats.mutex", "packetLock", "rx.mutex">>

Outside(l, k) ==
  \E i, j \in 1..Len(Nesting) : i < j /\ Nesting[i] = l /\ Nesting[j] = k

(* Threads that make any calls of Sender, Receiver and driver never all spin  *)
(* on locks that the others hold.  For two threads that is said directly; for any      *)
(* number of them it follows from the order in which a thread takes locks:    *)
(* buckets come before the queueMutex and the schedulerMutex, these before    *)
(* allocators, policy and driver.  And the locks exclude.                     *)
NoLockCycle ==
  /\ MutualExclusion
  /\ (\E t \in LockThread : InCall(t)) =>
       \E t \in LockThread : InCall(t) /\ (NextStep(t).op = "lock" => ~flag[NextStep(t).of])
  /\ \A t \in LockThread : InCall(t) /\ NextStep(t).op = "lock" =>
       \A l \in Held(t) : Outside(l, NextStep(t).of)
=============================================================================
