------------------------------ MODULE ListSpec ------------------------------
(***************************************************************************)
(* What Intrusive::List (src/src/Intrusive.h) promises: a few lists, each a  *)
(* sequence of elements, and an element in at most one of them.  Sender,     *)
(* Receiver and TimeoutManager use these operators for their lists; ListNodes *)
(* shows that the linked nodes implement them.                               *)
(***************************************************************************)
EXTENDS IntrusiveList

CONSTANTS ListName, NodeName,
          nodeKey            \* what the comparator compares

VARIABLE lists

Unlinked(x) == \A l \in ListName : x \notin Elements(lists[l])

ListSpecInit == lists = [l \in ListName |-> <<>>]

InsertAt(q, p, x) == SubSeq(q, 1, p - 1) \o <<x>> \o SubSeq(q, p, Len(q))

(* push_front, push_back, and insert before any position                     *)
Insert(l, x) ==
  /\ Unlinked(x)
  /\ \E p \in 1..(Len(lists[l]) + 1) : lists' = [lists EXCEPT ![l] = InsertAt(@, p, x)]

(* remove, pop_front, pop_back                                               *)
Erase(l, x) ==
  /\ x \in Elements(lists[l])
  /\ lists' = [lists EXCEPT ![l] = Unlink(@, x)]

Clear(l) == lists' = [lists EXCEPT ![l] = <<>>]

Reorder(l, x) ==
  /\ x \in Elements(lists[l])
  /\ \/ lists' = [lists EXCEPT ![l] = Prioritize(@, x, nodeKey)]
     \/ lists' = [lists EXCEPT ![l] = Deprioritize(@, x, nodeKey)]

ListSpecNext ==
  \E l \in ListName :
    Clear(l) \/ \E x \in NodeName : Insert(l, x) \/ Erase(l, x) \/ Reorder(l, x)

Lists == ListSpecInit /\ [][ListSpecNext]_lists
=============================================================================
