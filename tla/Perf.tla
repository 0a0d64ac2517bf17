-------------------------------- MODULE Perf --------------------------------
(***************************************************************************)
(* Performance counters (src/src/Perf.h, src/src/Perf.cc): each thread adds  *)
(* to counters of its own without a lock, a thread that exits adds them to   *)
(* globalCounters under a mutex, and getStats adds up both under that mutex  *)
(* while the threads go on counting.  Of the 27 counters the model keeps     *)
(* total_cycles and active_cycles, the two that dumpStats relates.           *)
(***************************************************************************)
EXTENDS Integers, FiniteSets, FiniteSetsExt

CONSTANTS
  PerfThread,
  Nobody,         \* the mutex is free; getStats is at no thread
  MaxCycles       \* bound: cycles that are counted

ASSUME PerfAssumption == IsFiniteSet(PerfThread)

VARIABLES
  registeredThreads,   \* perThreadCounters
  threadCounters,      \* Perf::counters of each thread
  globalCounters,
  inPoll,              \* active cycles of the poll a thread is in, or NoPoll
  statsReader,         \* getStats: what is left to read, what is read so far
  countedAtStart,      \* the true counts when getStats began
  polledSince          \* a thread was in a poll since getStats began

perfVars == <<registeredThreads, threadCounters, globalCounters, inPoll,
              statsReader, countedAtStart, polledSince>>

NoPoll == -1
Zero   == [total |-> 0, active |-> 0]

(* Counters::add *)
AddCounters(a, b) == [total |-> a.total + b.total, active |-> a.active + b.active]

(* One counter of all the threads, and its sum over some of them.            *)
Totals(c)  == [t \in PerfThread |-> c[t].total]
Actives(c) == [t \in PerfThread |-> c[t].active]
SumOver(f, S) == MapThenSumSet(LAMBDA t : f[t], S)

(* All that was ever counted, and is not lost.                               *)
Counted ==
  AddCounters(globalCounters,
    [total  |-> SumOver(Totals(threadCounters), registeredThreads),
     active |-> SumOver(Actives(threadCounters), registeredThreads)])

PerfInit ==
  /\ registeredThreads = {}
  /\ threadCounters = [t \in PerfThread |-> Zero]
  /\ globalCounters = Zero
  /\ inPoll = [t \in PerfThread |-> NoPoll]
  /\ statsReader = [at |-> "idle", left |-> {}, thread |-> Nobody, output |-> Zero]
  /\ countedAtStart = Zero
  /\ polledSince = FALSE

(* Mutant of MutexFree: nobody waits for getStats.                           *)
MutexIgnored == TRUE

(* Internal::mutex is held by getStats alone for more than a step.           *)
MutexFree == statsReader.at \notin {"next", "active"}

(* ThreadCounters::ThreadCounters, when a thread first counts something      *)
registerThread(t) ==
  /\ t \notin registeredThreads /\ MutexFree
  /\ registeredThreads' = registeredThreads \cup {t}
  /\ threadCounters' = [threadCounters EXCEPT ![t] = Zero]
  /\ UNCHANGED <<globalCounters, inPoll, statsReader, countedAtStart, polledSince>>

(* ThreadCounters::~ThreadCounters *)
exitCounters(t) ==
  /\ t \in registeredThreads /\ inPoll[t] = NoPoll /\ MutexFree
  /\ globalCounters' = AddCounters(globalCounters, threadCounters[t])
  /\ registeredThreads' = registeredThreads \ {t}
  /\ UNCHANGED <<threadCounters, inPoll, statsReader, countedAtStart, polledSince>>

(* TransportImpl::poll starts a timer ...                                    *)
beginPoll(t) ==
  /\ t \in registeredThreads /\ inPoll[t] = NoPoll
  /\ Counted.total < MaxCycles
  /\ inPoll' = [inPoll EXCEPT ![t] = 0]
  /\ polledSince' = TRUE
  /\ UNCHANGED <<registeredThreads, threadCounters, globalCounters, statsReader,
                 countedAtStart>>

(* ... the work under it adds what it took to active_cycles ...              *)
addActive(t) ==
  /\ inPoll[t] # NoPoll /\ Counted.active < MaxCycles
  /\ inPoll' = [inPoll EXCEPT ![t] = @ + 1]
  /\ threadCounters' = [threadCounters EXCEPT ![t].active = @ + 1]
  /\ UNCHANGED <<registeredThreads, globalCounters, statsReader, countedAtStart,
                 polledSince>>

PollCycles(active, idle) == active + idle

(* ... and at the end all of it goes to total_cycles.                        *)
endPoll(t, idle) ==
  /\ inPoll[t] # NoPoll
  /\ threadCounters' = [threadCounters EXCEPT ![t].total = @ + PollCycles(inPoll[t], idle)]
  /\ inPoll' = [inPoll EXCEPT ![t] = NoPoll]
  /\ UNCHANGED <<registeredThreads, globalCounters, statsReader, countedAtStart,
                 polledSince>>

(* getStats takes the mutex and adds globalCounters ...                      *)
getStats ==
  /\ MutexFree
  /\ statsReader' = [at |-> "next", left |-> registeredThreads,
                     thread |-> Nobody, output |-> globalCounters]
  /\ countedAtStart' = Counted
  /\ polledSince' = (\E t \in PerfThread : inPoll[t] # NoPoll)
  /\ UNCHANGED <<registeredThreads, threadCounters, globalCounters, inPoll>>

(* ... then for each thread, in the order of the set, total_cycles ...       *)
addThreadTotal(t) ==
  /\ statsReader.at = "next" /\ t \in statsReader.left
  /\ statsReader' = [at |-> "active", left |-> statsReader.left \ {t}, thread |-> t,
                     output |-> [statsReader.output EXCEPT
                                   !.total = @ + threadCounters[t].total]]
  /\ UNCHANGED <<registeredThreads, threadCounters, globalCounters, inPoll,
                 countedAtStart, polledSince>>

(* ... and active_cycles, ...                                                *)
addThreadActive ==
  /\ statsReader.at = "active"
  /\ statsReader' = [statsReader EXCEPT
                       !.at = "next", !.thread = Nobody,
                       !.output.active = @ + threadCounters[statsReader.thread].active]
  /\ UNCHANGED <<registeredThreads, threadCounters, globalCounters, inPoll,
                 countedAtStart, polledSince>>

(* ... and dumps the sums.                                                   *)
dumpStats ==
  /\ statsReader.at = "next" /\ statsReader.left = {}
  /\ statsReader' = [statsReader EXCEPT !.at = "dumped"]
  /\ UNCHANGED <<registeredThreads, threadCounters, globalCounters, inPoll,
                 countedAtStart, polledSince>>

PerfNext ==
  \/ \E t \in PerfThread :
       \/ registerThread(t) \/ exitCounters(t)
       \/ beginPoll(t) \/ addActive(t) \/ \E idle \in 0..1 : endPoll(t, idle)
       \/ addThreadTotal(t)
  \/ getStats \/ addThreadActive \/ dumpStats

-----------------------------------------------------------------------------
(* Correctness. *)

(* Whatever threads come, go and count while getStats reads, each counter it  *)
(* reports lies between its true value when getStats began and its true value *)
(* now: the cycles of a thread that exits are neither lost nor counted twice. *)
(* And if no poll was under way meanwhile, the subtraction for idle_cycles    *)
(* does not wrap around.                                                      *)
StatsBracketed ==
  statsReader.at = "dumped" =>
    /\ statsReader.output.total \in countedAtStart.total..Counted.total
    /\ statsReader.output.active \in countedAtStart.active..Counted.active
    /\ ~polledSince => statsReader.output.total >= statsReader.output.active
=============================================================================
