------------------------------ MODULE ThreadId ------------------------------
(***************************************************************************)
(* ThreadId (src/src/ThreadId.cc): identifiers and names of threads that     *)
(* come and go.  The identifier is thread-local and dies with its thread;    *)
(* the table of names is global, and nothing removes an entry of a thread    *)
(* that has exited.                                                          *)
(***************************************************************************)
EXTENDS Integers, FiniteSets

CONSTANTS
  IdThread,         \* threads that may run at a time
  ThreadName,
  DefaultName,      \* "thread <id>"
  MaxThreadId       \* bound: identifiers that are given out

NONE == 0

VARIABLES
  threadLocalId,    \* Internal::id of the thread that runs in a slot
  nextId,
  threadNames,      \* a function on the identifiers that have a name
  nameSet,          \* the name the running thread gave itself, or DefaultName
  idsOfExited       \* identifiers of threads that are gone

threadIdVars == <<threadLocalId, nextId, threadNames, nameSet, idsOfExited>>

ThreadIdInit ==
  /\ threadLocalId = [t \in IdThread |-> NONE]
  /\ nextId = 1
  /\ threadNames = <<>>
  /\ nameSet = [t \in IdThread |-> DefaultName]
  /\ idsOfExited = {}

NextAfter(id) == id + 1

(* The first getId of a thread, Internal::assign.                            *)
getId(t) ==
  /\ threadLocalId[t] = NONE /\ nextId <= MaxThreadId
  /\ threadLocalId' = [threadLocalId EXCEPT ![t] = nextId]
  /\ nextId' = NextAfter(nextId)
  /\ UNCHANGED <<threadNames, nameSet, idsOfExited>>

(* setName after its getId; the empty string erases the entry.               *)
setName(t, name) ==
  LET id == threadLocalId[t]
      named == DOMAIN threadNames
  IN
  /\ id # NONE
  /\ threadNames' = IF name = DefaultName
                    THEN [i \in named \ {id} |-> threadNames[i]]
                    ELSE [i \in named \cup {id} |->
                            IF i = id THEN name ELSE threadNames[i]]
  /\ nameSet' = [nameSet EXCEPT ![t] = name]
  /\ UNCHANGED <<threadLocalId, nextId, idsOfExited>>

(* getName after its getId.                                                  *)
getName(t) ==
  IF threadLocalId[t] \in DOMAIN threadNames
  THEN threadNames[threadLocalId[t]] ELSE DefaultName

(* The thread exits; another one may run in its place.                       *)
exitThread(t) ==
  /\ threadLocalId[t] # NONE
  /\ idsOfExited' = idsOfExited \cup {threadLocalId[t]}
  /\ threadLocalId' = [threadLocalId EXCEPT ![t] = NONE]
  /\ nameSet' = [nameSet EXCEPT ![t] = DefaultName]
  /\ UNCHANGED <<nextId, threadNames>>

ThreadIdNext ==
  \E t \in IdThread :
    \/ getId(t) \/ exitThread(t)
    \/ \E name \in ThreadName \cup {DefaultName} : setName(t, name)

-----------------------------------------------------------------------------
(* A thread is known by the name it gave itself and by no other: not by that  *)
(* of a thread that runs beside it, and not by the one that a thread before   *)
(* it left in the table.  That needs "no other thread has ever been returned  *)
(* this value or ever will be".                                               *)
NamesOwn ==
  \A t \in IdThread : threadLocalId[t] # NONE =>
    /\ getName(t) = nameSet[t]
    /\ threadLocalId[t] \notin idsOfExited
    /\ \A u \in IdThread \ {t} : threadLocalId[u] # threadLocalId[t]
=============================================================================
