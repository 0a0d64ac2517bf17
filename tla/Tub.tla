-------------------------------- MODULE Tub ---------------------------------
(***************************************************************************)
(* Tub (src/src/Tub.h): storage that may or may not hold an object.  The     *)
(* model has a few Tubs, which are themselves constructed and destroyed, and *)
(* counts what is done to the objects in them.                               *)
(***************************************************************************)
EXTENDS Integers, FiniteSets

CONSTANTS
  Tubs,
  TubValue,
  Empty,            \* what an unoccupied Tub holds
  MaxConstructed    \* bound: objects constructed in a Tub

ASSUME TubAssumption == Empty \notin TubValue

VARIABLES
  tubExists,
  tubObject,        \* the object in each Tub, or Empty
  elementsBorn,     \* constructor calls in each Tub
  elementsDead      \* destructor calls in each Tub

tubVars == <<tubExists, tubObject, elementsBorn, elementsDead>>

TubInit ==
  /\ tubExists = {}
  /\ tubObject = [b \in Tubs |-> Empty]
  /\ elementsBorn = [b \in Tubs |-> 0]
  /\ elementsDead = [b \in Tubs |-> 0]

(* Tub::destroy *)
DestroyElement(b) ==
  /\ elementsDead' = [elementsDead EXCEPT ![b] = @ + (IF tubObject[b] = Empty THEN 0 ELSE 1)]
  /\ tubObject' = [tubObject EXCEPT ![b] = Empty]
  /\ UNCHANGED elementsBorn

(* Tub::construct: destroy(), then a new object.                             *)
ConstructElement(b, value) ==
  /\ elementsBorn[b] < MaxConstructed
  /\ elementsDead' = [elementsDead EXCEPT ![b] = @ + (IF tubObject[b] = Empty THEN 0 ELSE 1)]
  /\ tubObject' = [tubObject EXCEPT ![b] = value]
  /\ elementsBorn' = [elementsBorn EXCEPT ![b] = @ + 1]

tubConstruct(b, value) ==
  b \in tubExists /\ ConstructElement(b, value) /\ UNCHANGED tubExists

tubDestroy(b) == b \in tubExists /\ DestroyElement(b) /\ UNCHANGED tubExists

(* Tub(), and Tub(const Tub&) from another Tub                               *)
newTub(b) ==
  /\ b \notin tubExists /\ tubExists' = tubExists \cup {b}
  /\ UNCHANGED <<tubObject, elementsBorn, elementsDead>>

copyTub(b, other) ==
  /\ b \notin tubExists /\ other \in tubExists
  /\ tubExists' = tubExists \cup {b}
  /\ IF tubObject[other] # Empty THEN ConstructElement(b, tubObject[other])
     ELSE UNCHANGED <<tubObject, elementsBorn, elementsDead>>

(* operator=: assign, construct or destroy.                                  *)
assignTub(b, other) ==
  /\ b \in tubExists /\ other \in tubExists /\ b # other
  /\ CASE tubObject[other] = Empty -> DestroyElement(b)
       [] tubObject[other] # Empty /\ tubObject[b] = Empty
            -> ConstructElement(b, tubObject[other])
       [] OTHER -> /\ tubObject' = [tubObject EXCEPT ![b] = tubObject[other]]
                   /\ UNCHANGED <<elementsBorn, elementsDead>>
  /\ UNCHANGED tubExists

(* ~Tub *)
deleteTub(b) ==
  /\ b \in tubExists /\ tubExists' = tubExists \ {b}
  /\ DestroyElement(b)

TubNext ==
  \E b \in Tubs :
    \/ newTub(b) \/ deleteTub(b) \/ tubDestroy(b)
    \/ \E v \in TubValue : tubConstruct(b, v)
    \/ \E other \in Tubs \ {b} : copyTub(b, other) \/ assignTub(b, other)

-----------------------------------------------------------------------------
(* Whatever is done with Tubs, every object constructed in one is destroyed   *)
(* exactly once: while it is occupied one object more was constructed than    *)
(* destroyed, and none is left behind when the Tub is gone.                   *)
TubBalanced ==
  \A b \in Tubs :
    /\ elementsBorn[b] - elementsDead[b] = (IF tubObject[b] = Empty THEN 0 ELSE 1)
    /\ b \notin tubExists => tubObject[b] = Empty
=============================================================================
