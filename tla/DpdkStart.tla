----------------------------- MODULE DpdkStart ------------------------------
(***************************************************************************)
(* The constructors and the destructor of DpdkDriver::Impl                   *)
(* (src/src/Drivers/DPDK/DpdkDriverImpl.cc).  _init acquires one thing after *)
(* another from the system and from DPDK; each may fail, which throws and    *)
(* leaves the constructor, so that the destructor never runs.  DPDK's pools  *)
(* and rings have names and outlive the driver until they are freed.         *)
(***************************************************************************)
EXTENDS Integers

CONSTANTS
  DefaultBandwidth,     \* bandwidthMbps before the link is asked
  LinkBandwidths,       \* what the link may answer
  MaxStarts             \* bound: drivers that are constructed

VARIABLES
  stage,                \* the next stage, or "none", "up" or "failed"
  withEal,              \* the constructor that initializes EAL runs
  socketOpen,           \* fd
  threadPinned,         \* rte_eal_init pinned the thread to one processor
  acquired,             \* what DPDK holds for the driver
  bandwidthMbps,
  estimatorBandwidth,   \* what the queueEstimator was constructed with
  poolAbandoned,        \* history: a constructor failed that had created the pool
  starts

startVars == <<stage, withEal, socketOpen, threadPinned, acquired, bandwidthMbps,
               estimatorBandwidth, poolAbandoned, starts>>

(* The calls that may fail, and which one follows each; the constructor for  *)
(* EAL makes two calls before _init and one after it.                        *)
StageAfter(s) ==
  [getAffinity |-> "ealInit",     ealInit |-> "ifname",
   ifname |-> "socket",           socket |-> "ipAddress",
   ipAddress |-> "macAddress",    macAddress |-> "mbufPool",
   mbufPool |-> "validPort",      validPort |-> "txCallback",
   txCallback |-> "txBuffer",     txBuffer |-> "getMtu",
   getMtu |-> "setMtu",           setMtu |-> "devStart",
   devStart |-> "link",           link |-> "loopbackRing",
   loopbackRing |-> IF withEal THEN "setAffinity" ELSE "up",
   setAffinity |-> "up"][s]

(* The stages of a constructor that has created the pool.                    *)
HasPool == {"validPort", "txCallback", "txBuffer", "getMtu", "setMtu", "devStart",
            "link", "loopbackRing", "setAffinity"}

(* What a stage leaves with DPDK.                                            *)
Acquires(s) == {s} \cap {"mbufPool", "txCallback", "txBuffer", "devStart", "loopbackRing"}

StartInit ==
  /\ stage = "none" /\ withEal = FALSE
  /\ socketOpen = FALSE /\ threadPinned = FALSE
  /\ acquired = {}
  /\ bandwidthMbps = DefaultBandwidth /\ estimatorBandwidth = 0
  /\ poolAbandoned = FALSE /\ starts = 0

(* Impl::Impl, with or without EAL                                           *)
constructDriver(eal) ==
  /\ stage \in {"none", "failed"} /\ starts < MaxStarts
  /\ eal => starts = 0
  /\ withEal' = eal
  /\ stage' = IF eal THEN "getAffinity" ELSE "ifname"
  /\ starts' = starts + 1
  /\ bandwidthMbps' = DefaultBandwidth /\ estimatorBandwidth' = 0
  /\ UNCHANGED <<socketOpen, threadPinned, acquired, poolAbandoned>>

(* A pool or ring of a name that exists is not created again.                *)
CanSucceed(s) == Acquires(s) \cap acquired \cap {"mbufPool", "loopbackRing"} = {}

EstimatorAt(s) == s = "link"

stageSucceeds(speed) ==
  /\ stage \notin {"none", "up", "failed"}
  /\ CanSucceed(stage)
  /\ stage' = StageAfter(stage)
  /\ socketOpen' = (stage \in {"socket", "ipAddress"})
  /\ threadPinned' = CASE stage = "ealInit" -> TRUE
                       [] stage = "setAffinity" -> FALSE
                       [] OTHER -> threadPinned
  /\ acquired' = acquired \cup Acquires(stage)
  /\ bandwidthMbps' = IF stage = "link" THEN speed ELSE bandwidthMbps
  /\ estimatorBandwidth' = IF EstimatorAt(stage) THEN bandwidthMbps' ELSE estimatorBandwidth
  /\ UNCHANGED <<withEal, poolAbandoned, starts>>

(* close(fd) precedes both throws after socket(); the other stages find it    *)
(* closed.                                                                   *)
ClosedBeforeThrow(s) == IF s \in {"ipAddress", "macAddress"} THEN FALSE ELSE socketOpen

(* DriverInitFailure: the constructor is left as it is, and whatever DPDK    *)
(* holds for it stays.                                                       *)
stageFails ==
  /\ stage \notin {"none", "up", "failed"}
  /\ stage' = "failed"
  /\ socketOpen' = ClosedBeforeThrow(stage)
  /\ poolAbandoned' = (poolAbandoned \/ stage \in HasPool)
  /\ UNCHANGED <<withEal, threadPinned, acquired, bandwidthMbps, estimatorBandwidth, starts>>

(* Mutant of Freed: the ring is forgotten.                                   *)
FreedButRing == {"devStart", "mbufPool"}

(* What ~Impl gives back: neither the callback nor tx.buffer.                *)
Freed == {"loopbackRing", "devStart", "mbufPool"}

(* DpdkDriver::Impl::~Impl *)
destroyDriver ==
  /\ stage = "up"
  /\ stage' = "none"
  /\ acquired' = acquired \ Freed
  /\ UNCHANGED <<withEal, socketOpen, threadPinned, bandwidthMbps, estimatorBandwidth,
                 poolAbandoned, starts>>

StartNext ==
  \/ \E eal \in BOOLEAN : constructDriver(eal)
  \/ \E speed \in LinkBandwidths \cup {DefaultBandwidth} : stageSucceeds(speed)
  \/ stageFails
  \/ destroyDriver

-----------------------------------------------------------------------------
(* Correctness. *)

(* Whichever call fails, the constructor leaves no socket open.               *)
SocketClosed == stage \in {"none", "up", "failed"} => ~socketOpen

(* A driver that is up has everything it uses, the estimator knows the        *)
(* bandwidth that the link reported, and the application's thread may run on  *)
(* its processors again.                                                      *)
UpIsComplete ==
  stage = "up" =>
    /\ {"mbufPool", "txCallback", "txBuffer", "devStart", "loopbackRing"} \subseteq acquired
    /\ estimatorBandwidth = bandwidthMbps
    /\ withEal => ~threadPinned

(* What is left when no driver is up.  As long as no constructor failed that  *)
(* had created the pool, only callbacks and transmit buffers, which ~Impl     *)
(* does not free and which are in nobody's way: the port is stopped and both  *)
(* names are free for the next driver.  After such a failure the pool is      *)
(* still there, under the name the next constructor asks for, and no driver   *)
(* of this port ever comes up again.                                          *)
LeftBehind ==
  /\ stage \in {"none", "failed"} =>
       IF poolAbandoned THEN "mbufPool" \in acquired
                        ELSE acquired \subseteq {"txCallback", "txBuffer"}
  /\ poolAbandoned => stage # "up"

(* The three together.  They say what a constructor that fails does keep (the *)
(* pool, the port, the ring, and the processor the thread was pinned to), and *)
(* that drivers which do come up and are destroyed leave the next one room.   *)
StartsCleanly == SocketClosed /\ UpIsComplete /\ LeftBehind
=============================================================================
