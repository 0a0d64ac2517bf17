---------------------------- MODULE MCComponents ----------------------------
(***************************************************************************)
(* Instances for TLC of the components that do not interact with each other: *)
(* the first state chooses one of them, and that one moves while the others  *)
(* stay in their first state.  Their state spaces add up this way instead of *)
(* being multiplied.                                                         *)
(***************************************************************************)
EXTENDS TimeoutManager, MessageBuffer, QueueEstimator, FakeDriver, DpdkStart,
        PolicyManager, ObjectPool, ThreadId, Perf, Tub, DebugLog,
        ListNodes, LockOrder, TLC

CONSTANTS n1, n2, n3, n4, f1, f2

(* Two of the nodes compare as equal.                                        *)
FourKeys == (n1 :> 1) @@ (n2 :> 2) @@ (n3 :> 2) @@ (n4 :> 3)

DefaultCutoffs == <<469, 5521, 15267>>

(* The empty pattern, one that names a file, one with an "@" at its end, one  *)
(* with an "@" in it and one with a comma.                                    *)
Patterns == { << <<"">> >>, << <<"Sender.cc">> >>, << <<"a", "">> >>, << <<"a", "b">> >>,
              << <<"a">>, <<"b">> >> }
Matching == (<< <<"">> >> :> {f1, f2}) @@ (<< <<"Sender.cc">> >> :> {f1})
              @@ (<< <<"a", "">> >> :> {f2}) @@ (<< <<"a", "b">> >> :> {f1, f2})
              @@ (<< <<"a">>, <<"b">> >> :> {f2})

VARIABLE part          \* the component that moves

driverSideVars == <<timeoutVars, bufferVars, estimatorVars, fakeVars, startVars>>
utilityVars == <<policyVars, poolVars, threadIdVars, perfVars, tubVars>>
structureVars == <<debugVars, nodeVars, lockVars>>

Init ==
  /\ part \in {"timeouts", "contents", "estimator", "fakeDriver", "driverStart",
             "policy", "pool", "threadId", "perf", "tub",
             "debug", "nodes", "locks"}
  /\ TimeoutInit
  /\ BufferInit
  /\ EstimatorInit
  /\ FakeInit
  /\ StartInit
  /\ PolicyInit
  /\ PoolInit
  /\ ThreadIdInit
  /\ PerfInit
  /\ TubInit
  /\ DebugInit
  /\ NodesInit
  /\ LocksInit
  /\ part # "policy" => MAX_PRIORITY = 7 /\ RTT_BYTES = RTT_TIME_US * (10000 \div 8)

Next ==
  \/ part = "timeouts" /\ TimeoutNext
     /\ UNCHANGED <<part, bufferVars, estimatorVars, fakeVars, startVars, utilityVars, structureVars>>
  \/ part = "contents" /\ BufferNext
     /\ UNCHANGED <<part, timeoutVars, estimatorVars, fakeVars, startVars, utilityVars, structureVars>>
  \/ part = "estimator" /\ EstimatorNext
     /\ UNCHANGED <<part, timeoutVars, bufferVars, fakeVars, startVars, utilityVars, structureVars>>
  \/ part = "fakeDriver" /\ FakeNext
     /\ UNCHANGED <<part, timeoutVars, bufferVars, estimatorVars, startVars, utilityVars, structureVars>>
  \/ part = "driverStart" /\ StartNext
     /\ UNCHANGED <<part, timeoutVars, bufferVars, estimatorVars, fakeVars, utilityVars, structureVars>>
  \/ part = "policy" /\ PolicyNext
     /\ UNCHANGED <<part, driverSideVars, poolVars, threadIdVars, perfVars, tubVars, structureVars>>
  \/ part = "pool" /\ PoolNext
     /\ UNCHANGED <<part, driverSideVars, policyVars, threadIdVars, perfVars, tubVars, structureVars>>
  \/ part = "threadId" /\ ThreadIdNext
     /\ UNCHANGED <<part, driverSideVars, policyVars, poolVars, perfVars, tubVars, structureVars>>
  \/ part = "perf" /\ PerfNext
     /\ UNCHANGED <<part, driverSideVars, policyVars, poolVars, threadIdVars, tubVars, structureVars>>
  \/ part = "tub" /\ TubNext
     /\ UNCHANGED <<part, driverSideVars, policyVars, poolVars, threadIdVars, perfVars, structureVars>>
  \/ part = "debug" /\ DebugNext
     /\ UNCHANGED <<part, driverSideVars, utilityVars, nodeVars, lockVars>>
  \/ part = "nodes" /\ NodesNext
     /\ UNCHANGED <<part, driverSideVars, utilityVars, debugVars, lockVars>>
  \/ part = "locks" /\ LocksNext
     /\ UNCHANGED <<part, driverSideVars, utilityVars, debugVars, nodeVars>>

vars == <<part, driverSideVars, utilityVars, structureVars>>

(* poll() is called again and again, and a thread in the loop over the        *)
(* elapsed timeouts goes on.                                                  *)
PollTimeouts(p) ==
  /\ part = "timeouts" /\ Poll(p)
  /\ UNCHANGED <<part, bufferVars, estimatorVars, fakeVars, startVars, utilityVars, structureVars>>

Spec == Init /\ [][Next]_vars /\ \A p \in Poller : WF_vars(PollTimeouts(p))

-----------------------------------------------------------------------------
(* Whoever gets memory to manage keeps count of it: each block of an          *)
(* ObjectPool, each object in a Tub and each packet of a FakeDriver has one   *)
(* owner until it is given back, also when constructors throw, Tubs are       *)
(* assigned to each other and a driver is destroyed with full queues.         *)
OwnedOnce == PoolExact /\ TubBalanced /\ FakePacketsOwned

(* Tables that outlive what they describe give no stale answers: the cache of *)
(* isLogging after setLogPolicy, a policy without commas that is written down *)
(* and read back, and the names of threads whose predecessors have exited.    *)
NoStaleAnswers == CacheFresh /\ PolicyRoundTrip /\ NamesOwn
=============================================================================
