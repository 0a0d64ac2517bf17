---------------------------- MODULE IntrusiveList ----------------------------
(***************************************************************************)
(* Intrusive::List (src/src/Intrusive.h) as a sequence without duplicates,  *)
(* and the two helpers that keep such a list in priority order.  The        *)
(* comparators the code passes (QueuedMessageInfo::ComparePriority,         *)
(* ScheduledMessageInfo::ComparePriority, Peer::ComparePriority) all order  *)
(* by one integer, so an ordering is a function key and "x goes before y"   *)
(* is key[x] < key[y].                                                      *)
(***************************************************************************)
EXTENDS Integers, Sequences

(* The elements linked in list q. *)
Elements(q) == {q[i] : i \in 1..Len(q)}

(* An element is linked at most once: a Node has one next and one prev. *)
Linked(q) == \A i, j \in 1..Len(q) : q[i] = q[j] => i = j

(* The position of element x, which is linked in q. *)
Position(q, x) == CHOOSE i \in 1..Len(q) : q[i] = x

(* List::push_front *)
PushFront(q, x) == <<x>> \o q

(* List::remove: unlinking a node that is in no list changes nothing. *)
Unlink(q, x) ==
  IF x \in Elements(q)
  THEN [i \in 1..(Len(q) - 1) |-> IF i < Position(q, x) THEN q[i] ELSE q[i + 1]]
  ELSE q

(* Remove the node at k and insert it again before position p <= k. *)
MoveUp(q, k, p) ==
  [i \in 1..Len(q) |-> IF i < p \/ i > k THEN q[i]
                       ELSE IF i = p THEN q[k] ELSE q[i - 1]]

(* Remove the node at k and insert it again before position p > k. *)
MoveDown(q, k, p) ==
  [i \in 1..Len(q) |-> IF i < k \/ i >= p THEN q[i]
                       ELSE IF i = p - 1 THEN q[k] ELSE q[i + 1]]

(* Mutant of IsPriorPosition: the comparison is the wrong way round.         *)
IsReversedPosition(q, k, key, p) ==
  /\ \A i \in p..(k - 1) : key[q[i]] < key[q[k]]
  /\ p > 1 => ~(key[q[p - 1]] < key[q[k]])

(* The position prioritize stops at: everything from there up to the node is *)
(* ordered after the node, and the element before it (if any) is not.        *)
IsPriorPosition(q, k, key, p) ==
  /\ \A i \in p..(k - 1) : key[q[k]] < key[q[i]]
  /\ p > 1 => ~(key[q[k]] < key[q[p - 1]])

(* The position deprioritize stops at: nothing between the node and it is    *)
(* ordered after the node, and the element there (if any) is.                *)
IsPosteriorPosition(q, k, key, p) ==
  /\ \A i \in (k + 1)..(p - 1) : ~(key[q[k]] < key[q[i]])
  /\ p <= Len(q) => key[q[k]] < key[q[p]]

(* Intrusive::prioritize: move x towards the front past what it precedes.    *)
Prioritize(q, x, key) ==
  LET k == Position(q, x)
  IN  MoveUp(q, k, CHOOSE p \in 1..k : IsPriorPosition(q, k, key, p))

(* Intrusive::deprioritize: move x towards the back past what it does not    *)
(* precede.                                                                  *)
Deprioritize(q, x, key) ==
  LET k == Position(q, x)
  IN  MoveDown(q, k, CHOOSE p \in (k + 1)..(Len(q) + 1) :
                       IsPosteriorPosition(q, k, key, p))

(* What an Iterator at x refers to after ++; Nil stands for end().           *)
NextOf(q, x, Nil) ==
  IF Position(q, x) < Len(q) THEN q[Position(q, x) + 1] ELSE Nil

(* begin() *)
FirstOf(q, Nil) == IF q = <<>> THEN Nil ELSE q[1]

(* The list is in the priority order given by key.                           *)
Ordered(q, key) == \A i, j \in 1..Len(q) : i < j => key[q[i]] <= key[q[j]]
=============================================================================
