----------------------------- MODULE ListNodes ------------------------------
(***************************************************************************)
(* Intrusive::List (src/src/Intrusive.h) as it is built: nodes in the        *)
(* elements, linked in a ring through the list's root node.  A root is known *)
(* by the name of its list.                                                  *)
(***************************************************************************)
EXTENDS Integers, Sequences, FiniteSets

CONSTANTS ListName, NodeName, nodeKey,
          NoList           \* nullptr, Node::list of a node that is not linked

ASSUME NodesAssumption ==
  /\ IsFiniteSet(NodeName) /\ ListName \cap NodeName = {} /\ NoList \notin ListName
  /\ nodeKey \in [NodeName -> Int]

Pointer == ListName \cup NodeName

VARIABLES
  nextNode, prevNode,      \* Node::next, Node::prev
  nodeList,                \* Node::list
  listCount                \* List::count

nodeVars == <<nextNode, prevNode, nodeList, listCount>>

(* Node::Node and List::List *)
NodesInit ==
  /\ nextNode = [p \in Pointer |-> p]
  /\ prevNode = [p \in Pointer |-> p]
  /\ nodeList = [p \in Pointer |-> IF p \in ListName THEN p ELSE NoList]
  /\ listCount = [l \in ListName |-> 0]

links == [next |-> nextNode, prev |-> prevNode, list |-> nodeList]

-----------------------------------------------------------------------------
(* Assignments to the links, one after the other. *)

(* Node::unlink *)
UnlinkNode(k, x) ==
  LET a == [k EXCEPT !.prev[k.next[x]] = k.prev[x]]
      b == [a EXCEPT !.next[a.prev[x]] = a.next[x]]
  IN  [b EXCEPT !.next[x] = x, !.prev[x] = x, !.list[x] = NoList]

(* List::__insert *)
InsertNode(k, pos, x) ==
  LET a == [k EXCEPT !.next[x] = pos, !.prev[x] = k.prev[pos], !.list[x] = k.list[pos]]
      b == [a EXCEPT !.next[a.prev[pos]] = x]
  IN  [b EXCEPT !.prev[pos] = x]

Assign(k) == nextNode' = k.next /\ prevNode' = k.prev /\ nodeList' = k.list

contains(l, x) == nodeList[x] = l

-----------------------------------------------------------------------------
(* Operations. *)

(* "Ensure the node is not already linked."                                  *)
Insertable(x) == nextNode[x] = x /\ prevNode[x] = x

(* insert, push_back (pos is the root) and push_front (pos is root.next)     *)
insertBefore(l, pos, x) ==
  /\ Insertable(x) /\ nodeList[pos] = l
  /\ listCount' = [listCount EXCEPT ![l] = @ + 1]
  /\ Assign(InsertNode(links, pos, x))

(* remove, which may be called for a node that is in no list                 *)
removeNode(l, x) ==
  /\ nodeList[x] \in {l, NoList}
  /\ listCount' = [listCount EXCEPT ![l] = @ - (IF contains(l, x) THEN 1 ELSE 0)]
  /\ Assign(UnlinkNode(links, x))

(* pop_front and pop_back of a list that is not empty                        *)
popNode(l, x) ==
  /\ x \in {nextNode[l], prevNode[l]} /\ x # l
  /\ listCount' = [listCount EXCEPT ![l] = @ - 1]
  /\ Assign(UnlinkNode(links, x))

(* clear, and ~List: unlink root.prev until only the root is left            *)
clearList(l) ==
  LET loop[i \in 0..Cardinality(NodeName)] ==
        IF i = 0 THEN links
        ELSE LET k == loop[i - 1]
             IN  IF k.prev[l] = l THEN k ELSE UnlinkNode(k, k.prev[l])
  IN
  /\ Assign(loop[Cardinality(NodeName)])
  /\ listCount' = [listCount EXCEPT ![l] = 0]

comp(x, y) == nodeKey[x] < nodeKey[y]

(* The loop of prioritize: back from the node until it stops.                *)
PriorStop(l, x) ==
  LET pos[i \in 0..Cardinality(NodeName)] ==
        IF i = 0 THEN x
        ELSE LET it == pos[i - 1]
             IN  IF it = nextNode[l] \/ ~comp(x, prevNode[it]) THEN it ELSE prevNode[it]
  IN  pos[Cardinality(NodeName)]

(* Mutant of PosteriorStop: it stops at an element of equal priority.        *)
PosteriorStopEqual(l, x) ==
  LET pos[i \in 0..Cardinality(NodeName)] ==
        IF i = 0 THEN nextNode[x]
        ELSE LET it == pos[i - 1]
             IN  IF it = l \/ ~comp(it, x) THEN it ELSE nextNode[it]
  IN  pos[Cardinality(NodeName)]

(* The loop of deprioritize: on from the node until it stops.                *)
PosteriorStop(l, x) ==
  LET pos[i \in 0..Cardinality(NodeName)] ==
        IF i = 0 THEN nextNode[x]
        ELSE LET it == pos[i - 1]
             IN  IF it = l \/ comp(x, it) THEN it ELSE nextNode[it]
  IN  pos[Cardinality(NodeName)]

(* The end of both: remove the node and insert it again, if it moved.        *)
MoveNode(l, x, unmoved, pos) ==
  /\ contains(l, x)
  /\ IF pos = unmoved THEN Assign(links)
     ELSE Assign(InsertNode(UnlinkNode(links, x), pos, x))
  /\ UNCHANGED listCount

prioritize(l, x) == MoveNode(l, x, x, PriorStop(l, x))

deprioritize(l, x) == MoveNode(l, x, nextNode[x], PosteriorStop(l, x))

NodesNext ==
  \E l \in ListName :
    \/ clearList(l)
    \/ \E x \in NodeName :
         \/ removeNode(l, x) \/ popNode(l, x)
         \/ prioritize(l, x) \/ deprioritize(l, x)
         \/ \E pos \in Pointer : insertBefore(l, pos, x)

-----------------------------------------------------------------------------
(* Correctness. *)

(* The elements met on the way from the root l back to it, along next.        *)
Walk(next, l) ==
  LET nth[i \in 0..(Cardinality(NodeName) + 1)] ==
        IF i = 0 THEN next[l]
        ELSE IF nth[i - 1] = l THEN l ELSE next[nth[i - 1]]
      met == {i \in 0..Cardinality(NodeName) : nth[i] # l}
  IN  [i \in 1..Cardinality(met) |-> nth[i - 1]]

AsSequence(l) == Walk(nextNode, l)

(* After any calls the nodes form one closed ring per list, in both           *)
(* directions, Node::list names exactly the list whose ring a node is in, and *)
(* size() is the length of the ring: so contains() and get() never answer for *)
(* the wrong list, and ~Node finds a node that was removed cleanly.           *)
WellLinked ==
  /\ \A p \in Pointer : prevNode[nextNode[p]] = p /\ nextNode[prevNode[p]] = p
  /\ \A l \in ListName :
       LET q == AsSequence(l) IN
       /\ {q[i] : i \in 1..Len(q)} = {x \in NodeName : nodeList[x] = l}
       /\ listCount[l] = Len(q)
  /\ \A x \in NodeName : nodeList[x] = NoList => nextNode[x] = x /\ prevNode[x] = x

Promise == INSTANCE ListSpec WITH lists <- [l \in ListName |-> AsSequence(l)]

(* The linked nodes implement the lists of ListSpec: each call changes the    *)
(* sequences as the operators say on which the models of Sender, Receiver and *)
(* TimeoutManager rest, prioritize and deprioritize stop where they should,   *)
(* and the rings stay whole.                                                  *)
ImplementsLists == Promise!Lists /\ []WellLinked
=============================================================================
