--------------------------- MODULE QueueEstimator ---------------------------
(***************************************************************************)
(* QueueEstimator (src/include/Homa/Drivers/Util/QueueEstimator.h) against  *)
(* the NIC whose transmit queue it estimates.  The NIC drains                *)
(* BandwidthBytes / BandwidthTicks bytes in a tick of the clock, which need  *)
(* not be an integer; the estimate is kept in whole bytes, and every         *)
(* refresh rounds it down.                                                   *)
(***************************************************************************)
EXTENDS Integers

CONSTANTS
  BandwidthBytes, BandwidthTicks,
  SentSizes,       \* sizes of the bursts that are sent
  MaxClock,        \* bound: time
  MaxNicBytes      \* bound: bytes in the NIC's queue

ASSUME EstimatorAssumption ==
  /\ BandwidthBytes \in Nat \ {0} /\ BandwidthTicks \in Nat \ {0}
  /\ SentSizes \subseteq Nat

VARIABLES
  queuedBytes, lastUpdateTime,
  steadyClock,
  nicBytes,        \* really in the queue, in bytes / BandwidthTicks
  refreshes        \* how often the estimate was rounded

estimatorVars == <<queuedBytes, lastUpdateTime, steadyClock, nicBytes, refreshes>>

EstimatorInit ==
  /\ queuedBytes = 0 /\ lastUpdateTime = 0
  /\ steadyClock = 0 /\ nicBytes = 0 /\ refreshes = 0

NonNegative(n) == IF n < 0 THEN 0 ELSE n

(* Bytes the NIC has sent since the last refresh, rounded up, so that the     *)
(* cast of the estimate to uint32_t is rounded down.                          *)
DrainedSince == (BandwidthBytes * (steadyClock - lastUpdateTime) + BandwidthTicks - 1)
                  \div BandwidthTicks

(* refreshQueuedBytesEstimate *)
Refreshed == NonNegative(queuedBytes - DrainedSince)

NicDrains ==
  /\ steadyClock < MaxClock
  /\ steadyClock' = steadyClock + 1
  /\ nicBytes' = NonNegative(nicBytes - BandwidthBytes)
  /\ UNCHANGED <<queuedBytes, lastUpdateTime, refreshes>>

estimateQueuedBytes ==
  /\ lastUpdateTime < steadyClock
  /\ queuedBytes' = Refreshed
  /\ lastUpdateTime' = steadyClock
  /\ refreshes' = refreshes + 1
  /\ UNCHANGED <<steadyClock, nicBytes>>

(* Mutant of signalBytesSent: the bytes are added before the refresh.         *)
signalBeforeRefresh(sentBytes) ==
  /\ nicBytes + sentBytes * BandwidthTicks <= MaxNicBytes * BandwidthTicks
  /\ queuedBytes' = NonNegative(queuedBytes + sentBytes - DrainedSince)
  /\ lastUpdateTime' = steadyClock
  /\ refreshes' = refreshes + 1
  /\ nicBytes' = nicBytes + sentBytes * BandwidthTicks
  /\ UNCHANGED steadyClock

signalBytesSent(sentBytes) ==
  /\ nicBytes + sentBytes * BandwidthTicks <= MaxNicBytes * BandwidthTicks
  /\ queuedBytes' = Refreshed + sentBytes
  /\ lastUpdateTime' = steadyClock
  /\ refreshes' = refreshes + (IF lastUpdateTime < steadyClock THEN 1 ELSE 0)
  /\ nicBytes' = nicBytes + sentBytes * BandwidthTicks
  /\ UNCHANGED steadyClock

EstimatorNext ==
  NicDrains \/ estimateQueuedBytes \/ \E n \in SentSizes : signalBytesSent(n)

-----------------------------------------------------------------------------
(* What getQueuedBytes answers at any time is never more than what the NIC    *)
(* holds, and less by under one byte for each refresh before: by rounding     *)
(* alone, and not because time is counted twice, or bytes that were sent      *)
(* later are taken as drained before.                                         *)
EstimateBounds ==
  /\ Refreshed * BandwidthTicks <= nicBytes
  /\ nicBytes < (Refreshed + refreshes + 1) * BandwidthTicks
=============================================================================
