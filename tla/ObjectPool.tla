----------------------------- MODULE ObjectPool -----------------------------
(***************************************************************************)
(* ObjectPool (src/src/ObjectPool.h), from which Sender, Receiver and the    *)
(* drivers take messages and packets.  All calls on one pool are made under  *)
(* its owner's mutex, so each is one step.                                   *)
(***************************************************************************)
EXTENDS Integers, Sequences, FiniteSets, SequencesExt

CONSTANT MaxBlocks      \* bound: blocks of memory the allocator has

VARIABLES
  poolExists,
  pool,                 \* backing memory of destroyed objects
  outstandingObjects,
  heapBlocks,           \* blocks that operator new gave out
  liveObjects           \* blocks in which an object lives

poolVars == <<poolExists, pool, outstandingObjects, heapBlocks, liveObjects>>

Block == 1..MaxBlocks

PoolInit ==
  /\ poolExists = TRUE /\ pool = <<>> /\ outstandingObjects = 0
  /\ heapBlocks = {} /\ liveObjects = {}

(* Mutant of RestOfPool: the block that is used stays in the pool.           *)
WholePool == pool

(* The pool after pool.pop_back(), if there was anything in it.              *)
RestOfPool == IF pool = <<>> THEN <<>> ELSE Front(pool)

(* construct: the memory comes from the pool if it can ...                   *)
TakeBacking(backing) ==
  /\ poolExists
  /\ backing \in IF pool = <<>> THEN Block \ heapBlocks ELSE {Last(pool)}
  /\ heapBlocks' = heapBlocks \cup {backing}
  /\ UNCHANGED poolExists

construct(backing) ==
  /\ TakeBacking(backing)
  /\ pool' = RestOfPool
  /\ outstandingObjects' = outstandingObjects + 1
  /\ liveObjects' = liveObjects \cup {backing}

(* ... and goes back to it when T's constructor throws.                      *)
constructThrows(backing) ==
  /\ TakeBacking(backing)
  /\ pool' = Append(RestOfPool, backing)
  /\ UNCHANGED <<outstandingObjects, liveObjects>>

destroy(object) ==
  /\ poolExists /\ object \in liveObjects
  /\ pool' = Append(pool, object)
  /\ outstandingObjects' = outstandingObjects - 1
  /\ liveObjects' = liveObjects \ {object}
  /\ UNCHANGED <<poolExists, heapBlocks>>

(* ~ObjectPool: the pool's memory is freed, not that of live objects.        *)
destroyPool ==
  /\ poolExists
  /\ poolExists' = FALSE
  /\ pool' = <<>>
  /\ heapBlocks' = heapBlocks \ ToSet(pool)
  /\ UNCHANGED <<outstandingObjects, liveObjects>>

PoolNext ==
  \/ \E b \in Block : construct(b) \/ constructThrows(b) \/ destroy(b)
  \/ destroyPool

-----------------------------------------------------------------------------
(* Every block is in one object or in the pool, once: no two objects ever     *)
(* share memory, also after a constructor threw, nothing is leaked, and the   *)
(* count on which destroy's assertion and the destructor's error rest is      *)
(* exact.                                                                     *)
PoolExact ==
  /\ heapBlocks = liveObjects \cup ToSet(pool)
  /\ liveObjects \cap ToSet(pool) = {}
  /\ IsInjective(pool)
  /\ outstandingObjects = Cardinality(liveObjects)
=============================================================================
