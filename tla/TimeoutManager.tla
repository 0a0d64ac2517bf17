--------------------------- MODULE TimeoutManager ---------------------------
(***************************************************************************)
(* TimeoutManager (src/src/Timeout.h) and the loop with which Sender and    *)
(* Receiver check it (checkPingTimeouts, checkMessageTimeouts,              *)
(* checkResendTimeouts).  All methods but anyElapsed run under the bucket   *)
(* mutex, so each is one step; anyElapsed reads nextTimeout without it.     *)
(* The loop compares with the time it read before it took the mutex, while  *)
(* other threads set and cancel timeouts at later times.                    *)
(***************************************************************************)
EXTENDS IntrusiveList

CONSTANTS
  Timeout,       \* the timeouts of one manager, one per message
  Poller,        \* the threads that check it
  interval,      \* timeoutIntervalCycles
  MaxTime,       \* bound on the clock
  UINT64_MAX     \* nextTimeout when nothing is scheduled

ASSUME IntervalAssumption == interval \in Nat \ {0}
ASSUME TimeAssumption == /\ MaxTime \in Nat /\ UINT64_MAX \in Nat
                         /\ UINT64_MAX > MaxTime + interval

VARIABLES
  clock,           \* PerfUtils::Cycles::rdtsc()
  timeoutList,     \* the scheduled timeouts, the next one to elapse first
  expiration,      \* expirationCycleTime of each timeout
  nextTimeout,
  pollerAt,        \* "idle", "read", "loop": where a poller is
  now              \* the time a poller checks against

timeoutVars == <<clock, timeoutList, expiration, nextTimeout, pollerAt, now>>

TimeoutInit ==
  /\ clock = 0
  /\ timeoutList = <<>>
  /\ expiration = [x \in Timeout |-> 0]
  /\ nextTimeout = UINT64_MAX
  /\ pollerAt = [p \in Poller |-> "idle"]
  /\ now = [p \in Poller |-> 0]

hasElapsed(x, time) == time >= expiration[x]

Tick ==
  /\ clock < MaxTime
  /\ clock' = clock + 1
  /\ UNCHANGED <<timeoutList, expiration, nextTimeout, pollerAt, now>>

(* Mutant of SetLocked: nextTimeout is that of the newest.                   *)
SetNewest(x) ==
  /\ expiration' = [expiration EXCEPT ![x] = clock + interval]
  /\ timeoutList' = Append(Unlink(timeoutList, x), x)
  /\ nextTimeout' = expiration'[x]

(* The list and the expiry times after setTimeout / cancelTimeout of x.      *)
SetLocked(x) ==
  /\ expiration' = [expiration EXCEPT ![x] = clock + interval]
  /\ timeoutList' = Append(Unlink(timeoutList, x), x)
  /\ nextTimeout' = expiration'[timeoutList'[1]]

(* Mutant of CancelLocked: nextTimeout is left alone.                        *)
CancelOnly(x) == timeoutList' = Unlink(timeoutList, x) /\ UNCHANGED <<expiration, nextTimeout>>

CancelLocked(x) ==
  /\ timeoutList' = Unlink(timeoutList, x)
  /\ nextTimeout' = IF timeoutList' = <<>> THEN UINT64_MAX ELSE expiration[timeoutList'[1]]
  /\ UNCHANGED expiration

(* TimeoutManager::setTimeout, called by the handlers                        *)
SetTimeout(x) == SetLocked(x) /\ UNCHANGED <<clock, pollerAt, now>>

(* TimeoutManager::cancelTimeout, called by the handlers                     *)
CancelTimeout(x) == CancelLocked(x) /\ UNCHANGED <<clock, pollerAt, now>>

(* checkTimeouts: read the time once ...                                     *)
ReadClock(p) ==
  /\ pollerAt[p] = "idle"
  /\ now' = [now EXCEPT ![p] = clock]
  /\ pollerAt' = [pollerAt EXCEPT ![p] = "read"]
  /\ UNCHANGED <<clock, timeoutList, expiration, nextTimeout>>

(* ... if (!anyElapsed(now)) return, without the mutex ...                   *)
AnyElapsed(p) ==
  /\ pollerAt[p] = "read"
  /\ pollerAt' = [pollerAt EXCEPT ![p] = IF now[p] >= nextTimeout THEN "loop" ELSE "idle"]
  /\ UNCHANGED <<clock, timeoutList, expiration, nextTimeout, now>>

(* The loop's test: a timeout is scheduled and the first one has elapsed.     *)
FrontElapsed(p) == timeoutList # <<>> /\ hasElapsed(timeoutList[1], now[p])

(* ... then, with the mutex, handle the first timeout if it has elapsed: the *)
(* handlers either schedule it again or cancel it ...                        *)
HandleElapsed(p) ==
  /\ pollerAt[p] = "loop" /\ FrontElapsed(p)
  /\ SetLocked(timeoutList[1]) \/ CancelLocked(timeoutList[1])
  /\ UNCHANGED <<clock, pollerAt, now>>

(* ... and stop when there is none.                                          *)
StopLoop(p) ==
  /\ pollerAt[p] = "loop" /\ ~FrontElapsed(p)
  /\ pollerAt' = [pollerAt EXCEPT ![p] = "idle"]
  /\ UNCHANGED <<clock, timeoutList, expiration, nextTimeout, now>>

Poll(p) == ReadClock(p) \/ AnyElapsed(p) \/ HandleElapsed(p) \/ StopLoop(p)

TimeoutNext ==
  \/ Tick
  \/ \E x \in Timeout : SetTimeout(x) \/ CancelTimeout(x)
  \/ \E p \in Poller : Poll(p)

-----------------------------------------------------------------------------
(* Correctness. *)

(* The list is in the order in which the timeouts elapse, although setTimeout *)
(* only ever appends: the loops stop at the first that has not elapsed, so a  *)
(* timeout out of order would be noticed late.                                *)
InExpiryOrder == Linked(timeoutList) /\ Ordered(timeoutList, expiration)

(* anyElapsed, read without the mutex, is right at every moment: it holds as  *)
(* soon as some scheduled timeout has elapsed, and not when none has; and the  *)
(* list stays in the order the loops rely on.                                 *)
AnyElapsedExact ==
  /\ InExpiryOrder
  /\ clock >= nextTimeout <=> \E x \in Elements(timeoutList) : hasElapsed(x, clock)

-----------------------------------------------------------------------------
(* Liveness. *)

(* A scheduled timeout that has elapsed is handled, cancelled or set again,   *)
(* although anyElapsed is read without the mutex; and a pass over the elapsed  *)
(* timeouts ends, although its handlers schedule timeouts again.               *)
TimeoutsHandled ==
  /\ \A x \in Timeout :
       (x \in Elements(timeoutList) /\ hasElapsed(x, clock))
         ~> ~(x \in Elements(timeoutList) /\ hasElapsed(x, clock))
  /\ \A p \in Poller : pollerAt[p] = "loop" ~> pollerAt[p] = "idle"
=============================================================================
