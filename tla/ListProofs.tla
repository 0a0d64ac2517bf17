----------------------------- MODULE ListProofs -----------------------------
(***************************************************************************)
(* The linked nodes of Intrusive::List implement the lists of ListSpec, for  *)
(* any number of lists and nodes and any priorities.                         *)
(*                                                                          *)
(* Rings says that the links are those of given sequences.  Each assignment  *)
(* to the links that the code makes is shown to lead from the rings of some  *)
(* sequences to the rings of others; what the loops compute is then read off *)
(* the sequences.                                                            *)
(***************************************************************************)
EXTENDS ListNodes, IntrusiveListTheorems, FiniteSetTheorems

(* The links have their types.                                               *)
IsLinks(k) ==
  /\ k = [next |-> k.next, prev |-> k.prev, list |-> k.list]
  /\ k.next \in [Pointer -> Pointer] /\ k.prev \in [Pointer -> Pointer]
  /\ k.list \in [Pointer -> ListName \cup {NoList}]

(* The node at position i of the ring of q, whose root l is at 0 and again   *)
(* after the last element.                                                   *)
At(q, l, i) == IF i \in 1..Len(q) THEN q[i] ELSE l

(* The links of the list l are those of the sequence q.                      *)
RingOf(k, q, l) ==
  \A i \in 0..Len(q) : /\ k.next[At(q, l, i)] = At(q, l, i + 1)
                       /\ k.prev[At(q, l, i + 1)] = At(q, l, i)
                       /\ k.list[At(q, l, i)] = l

(* A node that is in no list.                                                *)
Alone(k, x) == k.next[x] = x /\ k.prev[x] = x /\ k.list[x] = NoList

(* Sequences without a node that is in two places.                           *)
Family(qs) ==
  /\ qs \in [ListName -> Seq(NodeName)]
  /\ \A l, m \in ListName : \A i \in 1..Len(qs[l]), j \in 1..Len(qs[m]) :
       qs[l][i] = qs[m][j] => l = m /\ i = j

Free(qs, x) == \A l \in ListName : x \notin Elements(qs[l])

(* The links are those of the sequences qs.                                  *)
Rings(k, qs) ==
  /\ IsLinks(k) /\ Family(qs)
  /\ \A l \in ListName : RingOf(k, qs[l], l)
  /\ \A x \in NodeName : Free(qs, x) => Alone(k, x)

-----------------------------------------------------------------------------
(* Assignments to the links. *)

(* What Node::unlink leaves.                                                 *)
LEMMA UnlinkFields ==
  ASSUME NEW k, IsLinks(k), NEW x \in NodeName
  PROVE  /\ IsLinks(UnlinkNode(k, x))
         /\ \A p \in Pointer :
              /\ UnlinkNode(k, x).next[p] =
                   IF p = x THEN x ELSE IF p = k.prev[x] THEN k.next[x] ELSE k.next[p]
              /\ UnlinkNode(k, x).prev[p] =
                   IF p = x THEN x ELSE IF p = k.next[x] THEN k.prev[x] ELSE k.prev[p]
              /\ UnlinkNode(k, x).list[p] = IF p = x THEN NoList ELSE k.list[p]
  <1> DEFINE next == k.next
             prev == k.prev
             list == k.list
  <1>1. k = [next |-> next, prev |-> prev, list |-> list]
    BY DEF IsLinks
  <1>2. /\ next \in [Pointer -> Pointer] /\ prev \in [Pointer -> Pointer]
        /\ list \in [Pointer -> ListName \cup {NoList}]
    BY DEF IsLinks
  <1>3. x \in Pointer /\ next[x] \in Pointer /\ prev[x] \in Pointer
    BY <1>2 DEF Pointer
  <1> DEFINE a == [k EXCEPT !.prev[k.next[x]] = k.prev[x]]
             b == [a EXCEPT !.next[a.prev[x]] = a.next[x]]
             c == [b EXCEPT !.next[x] = x, !.prev[x] = x, !.list[x] = NoList]
             prev1 == [prev EXCEPT ![next[x]] = prev[x]]
             next1 == [next EXCEPT ![prev[x]] = next[x]]
  <1>4. c = UnlinkNode(k, x)
    BY DEF UnlinkNode
  <1>5. a = [next |-> next, prev |-> prev1, list |-> list]
    BY <1>1
  <1>6. a.prev[x] = prev[x] /\ a.next[x] = next[x]
    BY <1>2, <1>3, <1>5
  <1>7. b = [next |-> next1, prev |-> prev1, list |-> list]
    <2> HIDE DEF a, prev1
    <2> QED  BY <1>5, <1>6
  <1>8. c = [next |-> [next1 EXCEPT ![x] = x], prev |-> [prev1 EXCEPT ![x] = x],
             list |-> [list EXCEPT ![x] = NoList]]
    <2> DEFINE c1 == [b EXCEPT !.next[x] = x]
               c2 == [c1 EXCEPT !.prev[x] = x]
               c3 == [c2 EXCEPT !.list[x] = NoList]
    <2>1. c = c3
      <3> HIDE DEF b
      <3> QED  BY Zenon
    <2> HIDE DEF b, next1, prev1, list, c
    <2>2. c1 = [next |-> [next1 EXCEPT ![x] = x], prev |-> prev1, list |-> list]
      BY <1>7
    <2> HIDE DEF c1
    <2>3. c2 = [next |-> [next1 EXCEPT ![x] = x], prev |-> [prev1 EXCEPT ![x] = x], list |-> list]
      BY <2>2
    <2> HIDE DEF c2
    <2>4. c3 = [next |-> [next1 EXCEPT ![x] = x], prev |-> [prev1 EXCEPT ![x] = x],
                list |-> [list EXCEPT ![x] = NoList]]
      BY <2>3
    <2> QED  BY <2>1, <2>4
  <1> HIDE DEF c
  <1>9. /\ c.next = [next1 EXCEPT ![x] = x] /\ c.prev = [prev1 EXCEPT ![x] = x]
        /\ c.list = [list EXCEPT ![x] = NoList]
        /\ c = [next |-> c.next, prev |-> c.prev, list |-> c.list]
    <2> HIDE DEF next1, prev1, list
    <2> QED  BY <1>8
  <1>10. next1 \in [Pointer -> Pointer] /\ prev1 \in [Pointer -> Pointer]
    BY <1>2, <1>3
  <1>11. IsLinks(c)
    <2>1. /\ [next1 EXCEPT ![x] = x] \in [Pointer -> Pointer]
          /\ [prev1 EXCEPT ![x] = x] \in [Pointer -> Pointer]
          /\ [list EXCEPT ![x] = NoList] \in [Pointer -> ListName \cup {NoList}]
      BY <1>2, <1>3, <1>10
    <2> QED  BY <1>9, <2>1 DEF IsLinks
  <1>12. ASSUME NEW p \in Pointer
         PROVE  /\ c.next[p] = IF p = x THEN x ELSE IF p = prev[x] THEN next[x] ELSE next[p]
                /\ c.prev[p] = IF p = x THEN x ELSE IF p = next[x] THEN prev[x] ELSE prev[p]
                /\ c.list[p] = IF p = x THEN NoList ELSE list[p]
    BY <1>2, <1>3, <1>9, <1>10
  <1> QED  BY <1>4, <1>11, <1>12

(* What List::__insert leaves.                                               *)
LEMMA InsertFields ==
  ASSUME NEW k, IsLinks(k), NEW x \in NodeName, NEW pos \in Pointer, x # pos
  PROVE  /\ IsLinks(InsertNode(k, pos, x))
         /\ \A p \in Pointer :
              /\ InsertNode(k, pos, x).next[p] =
                   IF p = k.prev[pos] THEN x ELSE IF p = x THEN pos ELSE k.next[p]
              /\ InsertNode(k, pos, x).prev[p] =
                   IF p = pos THEN x ELSE IF p = x THEN k.prev[pos] ELSE k.prev[p]
              /\ InsertNode(k, pos, x).list[p] = IF p = x THEN k.list[pos] ELSE k.list[p]
  <1> DEFINE next == k.next
             prev == k.prev
             list == k.list
  <1>1. k = [next |-> next, prev |-> prev, list |-> list]
    BY DEF IsLinks
  <1>2. /\ next \in [Pointer -> Pointer] /\ prev \in [Pointer -> Pointer]
        /\ list \in [Pointer -> ListName \cup {NoList}]
    BY DEF IsLinks
  <1>3. x \in Pointer /\ prev[pos] \in Pointer
    BY <1>2 DEF Pointer
  <1> DEFINE a == [k EXCEPT !.next[x] = pos, !.prev[x] = k.prev[pos], !.list[x] = k.list[pos]]
             b == [a EXCEPT !.next[a.prev[pos]] = x]
             c == [b EXCEPT !.prev[pos] = x]
             next1 == [next EXCEPT ![x] = pos]
             prev1 == [prev EXCEPT ![x] = prev[pos]]
             list1 == [list EXCEPT ![x] = list[pos]]
  <1>4. c = InsertNode(k, pos, x)
    BY DEF InsertNode
  <1>5. a = [next |-> next1, prev |-> prev1, list |-> list1]
    <2> DEFINE a1 == [k EXCEPT !.next[x] = pos]
               a2 == [a1 EXCEPT !.prev[x] = prev[pos]]
               a3 == [a2 EXCEPT !.list[x] = list[pos]]
    <2>1. a = a3
      BY Zenon
    <2> DEFINE u == prev[pos]
               v == list[pos]
    <2>2. a1 = [next |-> next1, prev |-> prev, list |-> list]
      BY <1>1
    <2> HIDE DEF a, a1, next1, prev, list
    <2>3. a2 = [next |-> next1, prev |-> prev1, list |-> list]
      BY <2>2
    <2> HIDE DEF a2, prev1
    <2>4. a3 = [next |-> next1, prev |-> prev1, list |-> list1]
      BY <2>3
    <2> QED  BY <2>1, <2>4
  <1>6. a.prev[pos] = prev[pos]
    BY <1>2, <1>3, <1>5
  <1>7. b = [next |-> [next1 EXCEPT ![prev[pos]] = x], prev |-> prev1, list |-> list1]
    <2> HIDE DEF a, next1, prev1, list1
    <2> QED  BY <1>5, <1>6
  <1>8. c = [next |-> [next1 EXCEPT ![prev[pos]] = x], prev |-> [prev1 EXCEPT ![pos] = x],
             list |-> list1]
    <2> HIDE DEF b, next1, prev1, list1
    <2> QED  BY <1>7
  <1> HIDE DEF c
  <1>9. /\ c.next = [next1 EXCEPT ![prev[pos]] = x] /\ c.prev = [prev1 EXCEPT ![pos] = x]
        /\ c.list = list1
        /\ c = [next |-> c.next, prev |-> c.prev, list |-> c.list]
    <2> HIDE DEF next1, prev1, list1
    <2> QED  BY <1>8
  <1>10. /\ next1 \in [Pointer -> Pointer] /\ prev1 \in [Pointer -> Pointer]
         /\ list1 \in [Pointer -> ListName \cup {NoList}]
    BY <1>2, <1>3
  <1>11. IsLinks(c)
    <2>1. /\ [next1 EXCEPT ![prev[pos]] = x] \in [Pointer -> Pointer]
          /\ [prev1 EXCEPT ![pos] = x] \in [Pointer -> Pointer]
      BY <1>2, <1>3, <1>10
    <2> QED  BY <1>9, <1>10, <2>1 DEF IsLinks
  <1>12. ASSUME NEW p \in Pointer
         PROVE  /\ c.next[p] = IF p = prev[pos] THEN x ELSE IF p = x THEN pos ELSE next[p]
                /\ c.prev[p] = IF p = pos THEN x ELSE IF p = x THEN prev[pos] ELSE prev[p]
                /\ c.list[p] = IF p = x THEN list[pos] ELSE list[p]
    BY <1>2, <1>3, <1>9, <1>10
  <1> QED  BY <1>4, <1>11, <1>12

-----------------------------------------------------------------------------
(* Rings. *)

(* Names of lists are no nodes.                                              *)
LEMMA NamesApart ==
  /\ \A l \in ListName : l \notin NodeName /\ l \in Pointer /\ l # NoList
  /\ \A x \in NodeName : x \in Pointer /\ x \notin ListName
  BY NodesAssumption DEF Pointer

(* The positions of a ring.                                                  *)
LEMMA AtPositions ==
  ASSUME NEW q \in Seq(NodeName), NEW l \in ListName
  PROVE  /\ Len(q) \in Nat /\ At(q, l, 0) = l /\ At(q, l, Len(q) + 1) = l
         /\ \A i \in 1..Len(q) : At(q, l, i) = q[i] /\ q[i] \in NodeName
         /\ \A i : At(q, l, i) \in Pointer
         /\ \A i \in Nat : i > Len(q) => At(q, l, i) = l
  <1>1. Len(q) \in Nat /\ \A i \in 1..Len(q) : q[i] \in NodeName
    OBVIOUS
  <1> QED  BY <1>1, NamesApart DEF At

(* No pointer is in two places.                                              *)
LEMMA OnePlace ==
  ASSUME NEW qs, Family(qs), NEW l \in ListName, NEW m \in ListName,
         NEW i \in 0..Len(qs[l]), NEW j \in 0..Len(qs[m]),
         At(qs[l], l, i) = At(qs[m], m, j)
  PROVE  l = m /\ i = j
  <1>1. qs[l] \in Seq(NodeName) /\ qs[m] \in Seq(NodeName)
    BY DEF Family
  <1>2. /\ i = 0 \/ i \in 1..Len(qs[l])
        /\ j = 0 \/ j \in 1..Len(qs[m])
    BY <1>1
  <1>3. /\ Len(qs[l]) \in Nat /\ At(qs[l], l, 0) = l
        /\ \A n \in 1..Len(qs[l]) : At(qs[l], l, n) = qs[l][n] /\ qs[l][n] \in NodeName
    BY <1>1, AtPositions
  <1>4. /\ Len(qs[m]) \in Nat /\ At(qs[m], m, 0) = m
        /\ \A n \in 1..Len(qs[m]) : At(qs[m], m, n) = qs[m][n] /\ qs[m][n] \in NodeName
    BY <1>1, AtPositions
  <1>5. CASE i = 0 /\ j = 0
    BY <1>3, <1>4, <1>5
  <1>6. CASE i = 0 /\ j \in 1..Len(qs[m])
    BY <1>3, <1>4, <1>6, NamesApart
  <1>7. CASE i \in 1..Len(qs[l]) /\ j = 0
    BY <1>3, <1>4, <1>7, NamesApart
  <1>8. CASE i \in 1..Len(qs[l]) /\ j \in 1..Len(qs[m])
    <2>1. qs[l][i] = qs[m][j]
      BY <1>3, <1>4, <1>8
    <2> QED  BY <1>8, <2>1 DEF Family
  <1> QED  BY <1>2, <1>5, <1>6, <1>7, <1>8

(* Every pointer is in a ring or a free node.                                *)
LEMMA SomePlace ==
  ASSUME NEW qs, Family(qs), NEW p \in Pointer
  PROVE  \/ \E l \in ListName : \E i \in 0..Len(qs[l]) : p = At(qs[l], l, i)
         \/ p \in NodeName /\ Free(qs, p)
  <1>1. \A l \in ListName : qs[l] \in Seq(NodeName)
    BY DEF Family
  <1>2. CASE p \in ListName
    <2>1. At(qs[p], p, 0) = p /\ Len(qs[p]) \in Nat
      BY <1>1, <1>2, AtPositions
    <2>2. 0 \in 0..Len(qs[p])
      BY <2>1
    <2> QED  BY <1>2, <2>1, <2>2
  <1>3. CASE p \in NodeName /\ ~Free(qs, p)
    <2>1. PICK l \in ListName : p \in Elements(qs[l])
      BY <1>3 DEF Free
    <2>2. PICK i \in 1..Len(qs[l]) : p = qs[l][i]
      BY <2>1 DEF Elements
    <2>3. At(qs[l], l, i) = qs[l][i] /\ Len(qs[l]) \in Nat
      BY <1>1, <2>2, AtPositions
    <2>4. i \in 0..Len(qs[l])
      BY <2>3
    <2> QED  BY <2>2, <2>3, <2>4
  <1> QED  BY <1>2, <1>3 DEF Pointer

(* The parts of Rings.                                                       *)
LEMMA RingsParts ==
  ASSUME NEW k, NEW qs, Rings(k, qs)
  PROVE  /\ IsLinks(k) /\ Family(qs)
         /\ \A y \in NodeName : Free(qs, y) => Alone(k, y)
         /\ \A m \in ListName : qs[m] \in Seq(NodeName)
  <1>1. Family(qs) /\ IsLinks(k) /\ \A y \in NodeName : Free(qs, y) => Alone(k, y)
    BY Zenon DEF Rings
  <1>2. qs \in [ListName -> Seq(NodeName)]
    BY <1>1 DEF Family
  <1> QED  BY <1>1, <1>2

(* The links of a pointer in a ring.                                         *)
LEMMA InRing ==
  ASSUME NEW k, NEW qs, Rings(k, qs), NEW l \in ListName, NEW i \in 0..Len(qs[l])
  PROVE  /\ k.next[At(qs[l], l, i)] = At(qs[l], l, i + 1)
         /\ k.prev[At(qs[l], l, i + 1)] = At(qs[l], l, i)
         /\ k.list[At(qs[l], l, i)] = l
  BY DEF Rings, RingOf

(* The root of a ring, seen as the position after the last element.          *)
LEMMA RootAgain ==
  ASSUME NEW k, NEW qs, Rings(k, qs), NEW l \in ListName, NEW i \in 1..(Len(qs[l]) + 1)
  PROVE  /\ k.prev[At(qs[l], l, i)] = At(qs[l], l, i - 1)
         /\ k.list[At(qs[l], l, i)] = l
  <1>1. qs[l] \in Seq(NodeName)
    BY DEF Rings, Family
  <1>2. Len(qs[l]) \in Nat
    BY <1>1
  <1>3. i - 1 \in 0..Len(qs[l]) /\ (i - 1) + 1 = i
    BY <1>2
  <1>4. k.prev[At(qs[l], l, (i - 1) + 1)] = At(qs[l], l, i - 1)
    BY <1>3, InRing
  <1>5. k.list[At(qs[l], l, i)] = l
    <2>1. CASE i \in 0..Len(qs[l])
      BY <2>1, InRing
    <2>2. CASE i = Len(qs[l]) + 1
      <3>1. At(qs[l], l, i) = At(qs[l], l, 0)
        BY <1>1, <2>2, AtPositions
      <3>2. 0 \in 0..Len(qs[l])
        BY <1>2
      <3> QED  BY <3>1, <3>2, InRing
    <2> QED  BY <1>2, <2>1, <2>2
  <1> QED  BY <1>3, <1>4, <1>5

(* The sequences determine the links.                                        *)
LEMMA RingsUnique ==
  ASSUME NEW k, NEW j, NEW qs, Rings(k, qs), Rings(j, qs)
  PROVE  k = j
  <1>1. IsLinks(k) /\ IsLinks(j) /\ Family(qs)
    BY DEF Rings
  <1>2. ASSUME NEW p \in Pointer
        PROVE  k.next[p] = j.next[p] /\ k.prev[p] = j.prev[p] /\ k.list[p] = j.list[p]
    <2>1. CASE p \in NodeName /\ Free(qs, p)
      BY <2>1 DEF Rings, Alone
    <2>2. ASSUME NEW l \in ListName, NEW i \in 0..Len(qs[l]), p = At(qs[l], l, i)
          PROVE  k.next[p] = j.next[p] /\ k.prev[p] = j.prev[p] /\ k.list[p] = j.list[p]
      <3>1. k.next[p] = j.next[p] /\ k.list[p] = j.list[p]
        BY <2>2, InRing
      <3>2. k.prev[p] = j.prev[p]
        <4>1. qs[l] \in Seq(NodeName)
          BY <1>1 DEF Family
        <4>2. PICK n \in 1..(Len(qs[l]) + 1) : p = At(qs[l], l, n)
          <5>1. CASE i = 0
            <6>1. p = At(qs[l], l, Len(qs[l]) + 1) /\ Len(qs[l]) \in Nat
              BY <2>2, <4>1, <5>1, AtPositions
            <6>2. Len(qs[l]) + 1 \in 1..(Len(qs[l]) + 1)
              BY <6>1
            <6> QED  BY <6>1, <6>2
          <5>2. CASE i # 0
            <6>1. i \in 1..(Len(qs[l]) + 1)
              BY <4>1, <5>2
            <6> QED  BY <2>2, <6>1
          <5> QED  BY <5>1, <5>2
        <4>3. k.prev[p] = At(qs[l], l, n - 1) /\ j.prev[p] = At(qs[l], l, n - 1)
          BY <4>2, RootAgain
        <4> QED  BY <4>3
      <3> QED  BY <3>1, <3>2
    <2> QED  BY <1>1, <2>1, <2>2, SomePlace
  <1>3. k.next = j.next /\ k.prev = j.prev /\ k.list = j.list
    BY <1>1, <1>2 DEF IsLinks
  <1> QED  BY <1>1, <1>3 DEF IsLinks

(* A ring from its first element to its root.                                *)
LEMMA OnePlaceAfter ==
  ASSUME NEW qs, Family(qs), NEW l \in ListName,
         NEW i \in 1..(Len(qs[l]) + 1), NEW j \in 1..(Len(qs[l]) + 1),
         At(qs[l], l, i) = At(qs[l], l, j)
  PROVE  i = j
  <1> DEFINE n == Len(qs[l])
             Back(h) == IF h = n + 1 THEN 0 ELSE h
  <1>1. qs[l] \in Seq(NodeName)
    BY DEF Family
  <1>2. n \in Nat /\ At(qs[l], l, n + 1) = At(qs[l], l, 0)
    BY <1>1, AtPositions
  <1>3. \A h \in 1..(n + 1) : Back(h) \in 0..n /\ At(qs[l], l, Back(h)) = At(qs[l], l, h)
    BY <1>2
  <1>4. Back(i) = Back(j)
    <2> HIDE DEF Back
    <2> QED  BY <1>3, OnePlace
  <1> QED  BY <1>2, <1>4

(* Two rings have nothing in common.                                         *)
LEMMA OtherRing ==
  ASSUME NEW qs, Family(qs), NEW l \in ListName, NEW m \in ListName, l # m,
         NEW i \in 0..(Len(qs[l]) + 1), NEW j \in 0..(Len(qs[m]) + 1)
  PROVE  At(qs[l], l, i) # At(qs[m], m, j)
  <1> DEFINE Back(h, q) == IF h = Len(q) + 1 THEN 0 ELSE h
  <1>1. qs[l] \in Seq(NodeName) /\ qs[m] \in Seq(NodeName)
    BY DEF Family
  <1>2. ASSUME NEW o \in ListName, qs[o] \in Seq(NodeName), NEW h \in 0..(Len(qs[o]) + 1)
        PROVE  Back(h, qs[o]) \in 0..Len(qs[o]) /\ At(qs[o], o, Back(h, qs[o])) = At(qs[o], o, h)
    <2>1. /\ Len(qs[o]) \in Nat /\ At(qs[o], o, Len(qs[o]) + 1) = o
          /\ At(qs[o], o, 0) = o
      BY <1>2, AtPositions
    <2> QED  BY <2>1
  <1> HIDE DEF Back
  <1> QED  BY <1>1, <1>2, OnePlace

(* A free node is in no ring.                                                *)
LEMMA FreeOutside ==
  ASSUME NEW qs, Family(qs), NEW x \in NodeName, Free(qs, x), NEW l \in ListName, NEW i
  PROVE  At(qs[l], l, i) # x
  <1>1. \A j \in 1..Len(qs[l]) : qs[l][j] # x
    BY DEF Free, Elements
  <1> QED  BY <1>1, NamesApart DEF At

(* r is q without the element at position n.                                 *)
Without(q, n, r) ==
  /\ n \in 1..Len(q) /\ r \in Seq(NodeName) /\ Len(r) = Len(q) - 1
  /\ \A i \in 1..Len(r) : r[i] = IF i < n THEN q[i] ELSE q[i + 1]

(* r is q with x in front of position n.                                     *)
WithIn(q, n, x, r) ==
  /\ n \in 1..(Len(q) + 1) /\ r \in Seq(NodeName) /\ Len(r) = Len(q) + 1
  /\ \A i \in 1..Len(r) : r[i] = IF i < n THEN q[i] ELSE IF i = n THEN x ELSE q[i - 1]

(* One of the sequences is replaced.                                         *)
Replaced(qs, l, r) == [qs EXCEPT ![l] = r]

(* The node x is free as well, or no longer.                                 *)
NowFree(qs, qs2, x) == \A y : Free(qs2, y) <=> Free(qs, y) \/ y = x

NowTaken(qs, qs2, x) == \A y : Free(qs2, y) <=> Free(qs, y) /\ y # x

(* The other sequences stay.                                                 *)
LEMMA ReplacedAt ==
  ASSUME NEW qs, Family(qs), NEW l \in ListName, NEW r, NEW m \in ListName
  PROVE  Replaced(qs, l, r)[m] = IF m = l THEN r ELSE qs[m]
  <1>1. qs \in [ListName -> Seq(NodeName)]
    BY DEF Family
  <1> QED  BY <1>1 DEF Replaced

(* Taking an element out leaves each of the others in one place.             *)
LEMMA WithoutFamily ==
  ASSUME NEW qs, Family(qs), NEW l \in ListName, NEW n, NEW r, Without(qs[l], n, r)
  PROVE  /\ Family(Replaced(qs, l, r))
         /\ NowFree(qs, Replaced(qs, l, r), qs[l][n])
  <1> DEFINE q == qs[l]
             qs2 == Replaced(qs, l, r)
             Old(m, i) == IF m = l /\ i >= n THEN i + 1 ELSE i
  <1>1. /\ qs \in [ListName -> Seq(NodeName)] /\ q \in Seq(NodeName) /\ r \in Seq(NodeName)
        /\ Len(q) \in Nat /\ n \in 1..Len(q) /\ Len(r) = Len(q) - 1
        /\ \A i \in 1..Len(r) : r[i] = IF i < n THEN q[i] ELSE q[i + 1]
    <2>1. qs \in [ListName -> Seq(NodeName)]
      BY DEF Family
    <2>2. q \in Seq(NodeName)
      BY <2>1
    <2> HIDE DEF q
    <2>3. Without(q, n, r)
      BY DEF q
    <2>4. Len(q) \in Nat
      BY <2>2
    <2> QED  BY <2>1, <2>2, <2>3, <2>4 DEF Without
  <1>2. /\ qs2 \in [ListName -> Seq(NodeName)]
        /\ \A m \in ListName : qs2[m] = IF m = l THEN r ELSE qs[m]
    BY <1>1 DEF Replaced
  <1> HIDE DEF qs2
  <1>3. ASSUME NEW m \in ListName, NEW i \in 1..Len(qs2[m])
        PROVE  Old(m, i) \in 1..Len(qs[m]) /\ qs2[m][i] = qs[m][Old(m, i)]
    <2>1. CASE m # l
      BY <1>2, <2>1
    <2>2. CASE m = l
      <3>1. qs2[m] = r /\ qs[m] = q
        BY <1>2, <2>2
      <3>2. i \in 1..Len(r) /\ i \in Nat
        BY <1>1, <3>1
      <3>3. Old(m, i) = IF i < n THEN i ELSE i + 1
        BY <1>1, <2>2, <3>2
      <3>4. Old(m, i) \in 1..Len(q)
        BY <1>1, <3>2, <3>3
      <3>5. r[i] = q[Old(m, i)]
        BY <1>1, <3>2, <3>3
      <3> QED  BY <3>1, <3>4, <3>5
    <2> QED  BY <2>1, <2>2
  <1>4. ASSUME NEW m \in ListName, NEW o \in ListName, NEW i \in 1..Len(qs2[m]),
               NEW j \in 1..Len(qs2[o]), qs2[m][i] = qs2[o][j]
        PROVE  m = o /\ i = j
    <2>1. m = o /\ Old(m, i) = Old(o, j)
      <3> HIDE DEF Old
      <3> QED  BY <1>3, <1>4 DEF Family
    <2>2. Len(qs2[m]) \in Nat /\ Len(qs2[o]) \in Nat
      BY <1>2
    <2> QED  BY <1>1, <2>1, <2>2
  <1>5. Family(qs2)
    BY <1>2, <1>4 DEF Family
  <1>6. ASSUME NEW y, Free(qs, y) PROVE Free(qs2, y)
    <2> HIDE DEF Old
    <2> QED  BY <1>3, <1>6 DEF Free, Elements
  <1>7. Free(qs2, q[n])
    <2> SUFFICES ASSUME NEW m \in ListName, NEW i \in 1..Len(qs2[m]), qs2[m][i] = q[n]
                 PROVE  FALSE
      BY DEF Free, Elements
    <2>1. qs[m][Old(m, i)] = qs[l][n] /\ Old(m, i) \in 1..Len(qs[m])
      <3> HIDE DEF Old
      <3> QED  BY <1>3
    <2>2. m = l /\ Old(m, i) = n
      <3> HIDE DEF Old
      <3> QED  BY <1>1, <2>1 DEF Family
    <2>3. i \in Nat
      BY <1>2
    <2> QED  BY <1>1, <2>2, <2>3
  <1>8. ASSUME NEW y, Free(qs2, y), y # q[n] PROVE Free(qs, y)
    <2> SUFFICES ASSUME NEW m \in ListName, NEW i \in 1..Len(qs[m]), qs[m][i] = y
                 PROVE  FALSE
      BY DEF Free, Elements
    <2>1. CASE m # l
      <3>1. qs2[m] = qs[m]
        BY <1>2, <2>1
      <3> QED  BY <1>8, <3>1 DEF Free, Elements
    <2>2. CASE m = l /\ i < n
      <3>1. i \in 1..Len(r) /\ r[i] = y
        BY <1>1, <2>2
      <3> QED  BY <1>2, <1>8, <2>2, <3>1 DEF Free, Elements
    <2>3. CASE m = l /\ i > n
      <3>1. i - 1 \in 1..Len(r) /\ ~(i - 1 < n) /\ (i - 1) + 1 = i
        BY <1>1, <2>3
      <3>2. r[i - 1] = y
        BY <1>1, <2>3, <3>1
      <3> QED  BY <1>2, <1>8, <2>3, <3>1, <3>2 DEF Free, Elements
    <2>4. CASE m = l /\ i = n
      BY <1>8, <2>4
    <2> QED  BY <1>1, <2>1, <2>2, <2>3, <2>4
  <1>9. \A y : Free(qs2, y) <=> Free(qs, y) \/ y = q[n]
    <2> HIDE DEF q
    <2> QED  BY <1>6, <1>7, <1>8, Zenon
  <1>10. NowFree(qs, qs2, q[n])
    BY <1>9, Zenon DEF NowFree
  <1> QED  BY <1>5, <1>10 DEF qs2

(* Positions after an element was taken out.                                 *)
LEMMA WithoutPositions ==
  ASSUME NEW q \in Seq(NodeName), NEW l \in ListName, NEW n, NEW r, Without(q, n, r)
  PROVE  \A i \in 0..Len(q) : At(r, l, i) = IF i < n THEN At(q, l, i) ELSE At(q, l, i + 1)
  <1>1. /\ n \in 1..Len(q) /\ r \in Seq(NodeName) /\ Len(r) = Len(q) - 1 /\ Len(q) \in Nat
        /\ \A i \in 1..Len(r) : r[i] = IF i < n THEN q[i] ELSE q[i + 1]
    BY DEF Without
  <1> SUFFICES ASSUME NEW i \in 0..Len(q)
               PROVE  At(r, l, i) = IF i < n THEN At(q, l, i) ELSE At(q, l, i + 1)
    OBVIOUS
  <1>2. CASE i = 0
    BY <1>1, <1>2 DEF At
  <1>3. CASE i \in 1..Len(r) /\ i < n
    BY <1>1, <1>3 DEF At
  <1>4. CASE i \in 1..Len(r) /\ ~(i < n)
    <2>1. i + 1 \in 1..Len(q) /\ r[i] = q[i + 1]
      BY <1>1, <1>4
    <2> QED  BY <1>4, <2>1 DEF At
  <1>5. CASE i = Len(q)
    <2>1. ~(i < n) /\ i + 1 \notin 1..Len(q) /\ i \notin 1..Len(r)
      BY <1>1, <1>5
    <2> QED  BY <2>1 DEF At
  <1> QED  BY <1>1, <1>2, <1>3, <1>4, <1>5

(* Node::unlink of an element takes it out of its ring.                      *)
LEMMA UnlinkRings ==
  ASSUME NEW k, NEW qs, Rings(k, qs), NEW l \in ListName, NEW n, NEW r, Without(qs[l], n, r)
  PROVE  Rings(UnlinkNode(k, qs[l][n]), Replaced(qs, l, r))
  <1> DEFINE q == qs[l]
             x == qs[l][n]
             k2 == UnlinkNode(k, x)
             qs2 == Replaced(qs, l, r)
             A(i) == At(qs[l], l, i)
             B(i) == At(r, l, i)
  <1>1. /\ IsLinks(k) /\ Family(qs) /\ \A y \in NodeName : Free(qs, y) => Alone(k, y)
        /\ \A m \in ListName : qs[m] \in Seq(NodeName)
    BY RingsParts
  <1>2. /\ n \in 1..Len(q) /\ r \in Seq(NodeName) /\ Len(r) = Len(q) - 1
    BY DEF Without
  <1>3. Len(q) \in Nat /\ q \in Seq(NodeName)
    BY <1>1
  <1>4. x \in NodeName /\ x = A(n)
    BY <1>1, <1>2, AtPositions
  <1>5. /\ Family(qs2) /\ \A m \in ListName : qs2[m] = IF m = l THEN r ELSE qs[m]
        /\ \A y : Free(qs2, y) <=> Free(qs, y) \/ y = x
    <2>1. Family(qs)
      BY <1>1
    <2>2. Family(qs2)
      BY <2>1, WithoutFamily, Zenon
    <2>3. ASSUME NEW m \in ListName PROVE qs2[m] = IF m = l THEN r ELSE qs[m]
      BY <2>1, ReplacedAt
    <2>4. NowFree(qs, qs2, x)
      BY <2>1, WithoutFamily, Zenon
    <2> QED  BY <2>2, <2>3, <2>4 DEF NowFree
  <1>6. /\ IsLinks(k2)
        /\ \A p \in Pointer :
              /\ k2.next[p] = IF p = x THEN x ELSE IF p = k.prev[x] THEN k.next[x] ELSE k.next[p]
              /\ k2.prev[p] = IF p = x THEN x ELSE IF p = k.next[x] THEN k.prev[x] ELSE k.prev[p]
              /\ k2.list[p] = IF p = x THEN NoList ELSE k.list[p]
    BY <1>1, <1>4, UnlinkFields
  <1>7. \A i \in 0..Len(q) : k.next[A(i)] = A(i + 1) /\ k.list[A(i)] = l
    BY InRing
  <1>8. \A i \in 1..(Len(q) + 1) : k.prev[A(i)] = A(i - 1) /\ k.list[A(i)] = l
    BY RootAgain
  <1>9. \A i : A(i) \in Pointer
    BY <1>1, AtPositions
  <1>10. \A i, j \in 0..Len(q) : A(i) = A(j) => i = j
    BY <1>1, OnePlace
  <1>11. \A i, j \in 1..(Len(q) + 1) : A(i) = A(j) => i = j
    BY <1>1, OnePlaceAfter
  <1>12. \A i \in 0..Len(q) : B(i) = IF i < n THEN A(i) ELSE A(i + 1)
    BY <1>3, WithoutPositions
  <1>13. \A m \in ListName \ {l} : \A i \in 0..(Len(q) + 1), j \in 0..(Len(qs[m]) + 1) :
           A(i) # At(qs[m], m, j)
    BY <1>1, OtherRing
  <1>14. \A y \in NodeName : Free(qs, y) => \A i : A(i) # y
    BY <1>1, FreeOutside
  <1>15. k.prev[x] = A(n - 1) /\ k.next[x] = A(n + 1)
    <2>1. n \in 0..Len(q) /\ n \in 1..(Len(q) + 1)
      BY <1>2, <1>3
    <2> HIDE DEF A
    <2> QED  BY <1>4, <1>7, <1>8, <2>1
  <1> HIDE DEF k2, qs2, A, B, x, q
  <1>16. /\ \A i \in 0..Len(q) : /\ i # n => A(i) # x
                                 /\ i # n - 1 => A(i) # A(n - 1)
         /\ \A i \in 1..(Len(q) + 1) : /\ i # n => A(i) # x
                                       /\ i # n + 1 => A(i) # A(n + 1)
    <2>1. n - 1 \in 0..Len(q) /\ n \in 0..Len(q) /\ n \in 1..(Len(q) + 1) /\ n + 1 \in 1..(Len(q) + 1)
      BY <1>2, <1>3
    <2> QED  BY <1>4, <1>10, <1>11, <2>1
  <1>17. RingOf(k2, r, l)
    <2> SUFFICES ASSUME NEW i \in 0..(Len(q) - 1)
                 PROVE  k2.next[B(i)] = B(i + 1) /\ k2.prev[B(i + 1)] = B(i) /\ k2.list[B(i)] = l
      BY <1>2 DEF RingOf, B
    <2>1. i \in Nat /\ i \in 0..Len(q) /\ i + 1 \in 0..Len(q) /\ i + 1 \in 1..(Len(q) + 1)
          /\ n \in Nat /\ n >= 1 /\ n <= Len(q)
      BY <1>2, <1>3
    <2>2. CASE i + 1 < n
      <3>1. B(i) = A(i) /\ B(i + 1) = A(i + 1)
        BY <1>12, <2>1, <2>2
      <3>2. A(i) # x /\ A(i) # A(n - 1) /\ A(i + 1) # x /\ A(i + 1) # A(n + 1)
        BY <1>16, <2>1, <2>2
      <3>3. k2.next[A(i)] = k.next[A(i)] /\ k2.prev[A(i + 1)] = k.prev[A(i + 1)]
            /\ k2.list[A(i)] = k.list[A(i)]
        BY <1>6, <1>9, <1>15, <3>2
      <3>4. (i + 1) - 1 = i
        BY <2>1
      <3> QED  BY <1>7, <1>8, <2>1, <3>1, <3>3, <3>4
    <2>3. CASE i + 1 = n
      <3>1. B(i) = A(n - 1) /\ B(i + 1) = A(n + 1) /\ n - 1 = i /\ n + 1 \in 1..(Len(q) + 1)
        BY <1>12, <2>1, <2>3
      <3>2. A(n - 1) # x /\ A(n + 1) # x
        BY <1>16, <2>1, <2>3, <3>1
      <3>3. k2.next[A(n - 1)] = A(n + 1) /\ k2.prev[A(n + 1)] = A(n - 1)
            /\ k2.list[A(n - 1)] = k.list[A(n - 1)]
        BY <1>6, <1>9, <1>15, <3>2
      <3> QED  BY <1>7, <2>1, <3>1, <3>3
    <2>4. CASE i + 1 > n
      <3>1. /\ B(i) = A(i + 1) /\ B(i + 1) = A(i + 2) /\ i + 2 \in 1..(Len(q) + 1)
            /\ (i + 2) - 1 = i + 1 /\ (i + 1) + 1 = i + 2
        <4>1. ~(i < n) /\ ~(i + 1 < n) /\ (i + 1) + 1 = i + 2 /\ i + 2 \in 1..(Len(q) + 1)
              /\ (i + 2) - 1 = i + 1
          BY <1>3, <2>1, <2>4
        <4> QED  BY <1>12, <2>1, <4>1
      <3>2. A(i + 1) # x /\ A(i + 1) # A(n - 1) /\ A(i + 2) # x /\ A(i + 2) # A(n + 1)
        <4>1. i + 1 # n /\ i + 1 # n - 1 /\ i + 2 # n /\ i + 2 # n + 1
          BY <2>1, <2>4
        <4> QED  BY <1>16, <2>1, <3>1, <4>1
      <3>3. k2.next[A(i + 1)] = k.next[A(i + 1)] /\ k2.prev[A(i + 2)] = k.prev[A(i + 2)]
            /\ k2.list[A(i + 1)] = k.list[A(i + 1)]
        BY <1>6, <1>9, <1>15, <3>2
      <3>4. k.next[A(i + 1)] = A(i + 2) /\ k.prev[A(i + 2)] = A(i + 1) /\ k.list[A(i + 1)] = l
        <4>1. k.next[A(i + 1)] = A((i + 1) + 1) /\ k.list[A(i + 1)] = l
          BY <1>7, <2>1
        <4>2. k.prev[A(i + 2)] = A((i + 2) - 1)
          BY <1>8, <3>1
        <4> QED  BY <3>1, <4>1, <4>2
      <3> QED  BY <3>1, <3>3, <3>4
    <2> QED  BY <2>1, <2>2, <2>3, <2>4
  <1>18. ASSUME NEW m \in ListName, m # l PROVE RingOf(k2, qs[m], m)
    <2> SUFFICES ASSUME NEW i \in 0..Len(qs[m])
                 PROVE  /\ k2.next[At(qs[m], m, i)] = At(qs[m], m, i + 1)
                        /\ k2.prev[At(qs[m], m, i + 1)] = At(qs[m], m, i)
                        /\ k2.list[At(qs[m], m, i)] = m
      BY DEF RingOf
    <2>1. /\ k.next[At(qs[m], m, i)] = At(qs[m], m, i + 1)
          /\ k.prev[At(qs[m], m, i + 1)] = At(qs[m], m, i)
          /\ k.list[At(qs[m], m, i)] = m
      BY InRing
    <2>2. /\ i \in 0..(Len(qs[m]) + 1) /\ i + 1 \in 0..(Len(qs[m]) + 1)
          /\ n \in 0..(Len(q) + 1) /\ n - 1 \in 0..(Len(q) + 1) /\ n + 1 \in 0..(Len(q) + 1)
      <3>1. Len(qs[m]) \in Nat
        BY <1>1
      <3> QED  BY <1>2, <1>3, <3>1
    <2>3. /\ At(qs[m], m, i) \notin {x, A(n - 1), A(n + 1)}
          /\ At(qs[m], m, i + 1) \notin {x, A(n - 1), A(n + 1)}
      BY <1>4, <1>13, <1>18, <2>2
    <2>4. At(qs[m], m, i) \in Pointer /\ At(qs[m], m, i + 1) \in Pointer
      BY <1>1, AtPositions
    <2> QED  BY <1>6, <1>15, <2>1, <2>3, <2>4
  <1>19. ASSUME NEW y \in NodeName, Free(qs2, y) PROVE Alone(k2, y)
    <2>0. y \in Pointer
      BY NamesApart
    <2>1. CASE y = x
      BY <1>6, <2>0, <2>1 DEF Alone
    <2>2. CASE y # x
      <3>1. Free(qs, y)
        BY <1>5, <1>19, <2>2
      <3>2. y # A(n - 1) /\ y # A(n + 1) /\ Alone(k, y)
        BY <1>1, <1>14, <3>1
      <3> QED  BY <1>6, <1>15, <2>0, <2>2, <3>2 DEF Alone
    <2> QED  BY <2>1, <2>2
  <1>20. \A m \in ListName : RingOf(k2, qs2[m], m)
    BY <1>5, <1>17, <1>18
  <1>21. Rings(k2, qs2)
    BY <1>5, <1>6, <1>19, <1>20 DEF Rings
  <1> QED  BY <1>21 DEF k2, qs2, x

(* Putting a free node in leaves each node in one place.                     *)
LEMMA WithInFamily ==
  ASSUME NEW qs, Family(qs), NEW l \in ListName, NEW n, NEW x \in NodeName, Free(qs, x),
         NEW r, WithIn(qs[l], n, x, r)
  PROVE  Family(Replaced(qs, l, r)) /\ NowTaken(qs, Replaced(qs, l, r), x)
  <1> DEFINE q == qs[l]
             qs2 == Replaced(qs, l, r)
             New(m, i) == m = l /\ i = n
             Old(m, i) == IF m = l /\ i > n THEN i - 1 ELSE i
  <1>1. /\ qs \in [ListName -> Seq(NodeName)] /\ q \in Seq(NodeName) /\ r \in Seq(NodeName)
        /\ Len(q) \in Nat /\ n \in 1..(Len(q) + 1) /\ Len(r) = Len(q) + 1
        /\ \A i \in 1..Len(r) : r[i] = IF i < n THEN q[i] ELSE IF i = n THEN x ELSE q[i - 1]
    <2>1. qs \in [ListName -> Seq(NodeName)]
      BY DEF Family
    <2>2. q \in Seq(NodeName)
      BY <2>1
    <2> HIDE DEF q
    <2>3. WithIn(q, n, x, r)
      BY DEF q
    <2>4. Len(q) \in Nat
      BY <2>2
    <2> QED  BY <2>1, <2>2, <2>3, <2>4 DEF WithIn
  <1>2. /\ qs2 \in [ListName -> Seq(NodeName)]
        /\ \A m \in ListName : qs2[m] = IF m = l THEN r ELSE qs[m]
    BY <1>1 DEF Replaced
  <1> HIDE DEF qs2
  <1>3. ASSUME NEW m \in ListName, NEW i \in 1..Len(qs2[m])
        PROVE  \/ New(m, i) /\ qs2[m][i] = x
               \/ ~New(m, i) /\ Old(m, i) \in 1..Len(qs[m]) /\ qs2[m][i] = qs[m][Old(m, i)]
    <2>1. CASE m # l
      BY <1>2, <2>1
    <2>2. CASE m = l
      <3>1. qs2[m] = r /\ qs[m] = q
        BY <1>2, <2>2
      <3>2. i \in 1..Len(r) /\ i \in Nat
        BY <1>1, <3>1
      <3>3. CASE i = n
        BY <1>1, <2>2, <3>1, <3>2, <3>3
      <3>4. CASE i # n
        <4>1. Old(m, i) = IF i < n THEN i ELSE i - 1
          BY <1>1, <2>2, <3>2, <3>4
        <4>2. Old(m, i) \in 1..Len(q)
          BY <1>1, <3>2, <3>4, <4>1
        <4>3. r[i] = q[Old(m, i)]
          BY <1>1, <3>2, <3>4, <4>1
        <4> QED  BY <3>1, <3>4, <4>2, <4>3
      <3> QED  BY <3>3, <3>4
    <2> QED  BY <2>1, <2>2
  <1>4. \A m \in ListName : \A i \in 1..Len(qs[m]) : qs[m][i] # x
    BY DEF Free, Elements
  <1>5. ASSUME NEW m \in ListName, NEW o \in ListName, NEW i \in 1..Len(qs2[m]),
               NEW j \in 1..Len(qs2[o]), qs2[m][i] = qs2[o][j]
        PROVE  m = o /\ i = j
    <2>1. i \in Nat /\ j \in Nat
      BY <1>2
    <2>2. CASE New(m, i) /\ New(o, j)
      BY <2>2
    <2>3. CASE New(m, i) # New(o, j)
      <3>1. CASE New(m, i) /\ ~New(o, j)
        <4> HIDE DEF New, Old
        <4>1. qs2[m][i] = x
          BY <1>3, <3>1
        <4>2. Old(o, j) \in 1..Len(qs[o]) /\ qs2[o][j] = qs[o][Old(o, j)]
          BY <1>3, <3>1
        <4> QED  BY <1>4, <1>5, <4>1, <4>2
      <3>2. CASE ~New(m, i) /\ New(o, j)
        <4> HIDE DEF New, Old
        <4>1. qs2[o][j] = x
          BY <1>3, <3>2
        <4>2. Old(m, i) \in 1..Len(qs[m]) /\ qs2[m][i] = qs[m][Old(m, i)]
          BY <1>3, <3>2
        <4> QED  BY <1>4, <1>5, <4>1, <4>2
      <3>3. (New(m, i) /\ ~New(o, j)) \/ (~New(m, i) /\ New(o, j))
        BY <2>3
      <3> QED  BY <3>1, <3>2, <3>3
    <2>4. CASE ~New(m, i) /\ ~New(o, j)
      <3>1. m = o /\ Old(m, i) = Old(o, j)
        <4> HIDE DEF Old, New
        <4>1. /\ Old(m, i) \in 1..Len(qs[m]) /\ qs2[m][i] = qs[m][Old(m, i)]
              /\ Old(o, j) \in 1..Len(qs[o]) /\ qs2[o][j] = qs[o][Old(o, j)]
          BY <1>3, <2>4
        <4> DEFINE u == Old(m, i)
                   v == Old(o, j)
        <4> HIDE DEF u, v
        <4>2. u \in 1..Len(qs[m]) /\ v \in 1..Len(qs[o]) /\ qs[m][u] = qs[o][v]
          BY <1>5, <4>1 DEF u, v
        <4>3. m = o /\ u = v
          BY <4>2 DEF Family
        <4> QED  BY <4>3 DEF u, v
      <3>2. CASE m = l
        <4>1. n \in Nat /\ i # n /\ j # n /\ o = l
          BY <1>1, <2>4, <3>1, <3>2
        <4> QED  BY <2>1, <3>1, <3>2, <4>1
      <3>3. CASE m # l
        BY <3>1, <3>3
      <3> QED  BY <3>2, <3>3
    <2> QED  BY <2>2, <2>3, <2>4
  <1>6. Family(qs2)
    BY <1>2, <1>5 DEF Family
  <1>7. ASSUME NEW y, Free(qs, y), y # x PROVE Free(qs2, y)
    <2> SUFFICES ASSUME NEW m \in ListName, NEW i \in 1..Len(qs2[m]), qs2[m][i] = y
                 PROVE  FALSE
      BY DEF Free, Elements
    <2> HIDE DEF Old, New
    <2>1. Old(m, i) \in 1..Len(qs[m]) /\ qs[m][Old(m, i)] = y
      BY <1>3, <1>7
    <2> QED  BY <1>7, <2>1 DEF Free, Elements
  <1>8. ~Free(qs2, x)
    <2>1. n \in 1..Len(r) /\ r[n] = x /\ qs2[l] = r
      BY <1>1, <1>2
    <2> QED  BY <2>1 DEF Free, Elements
  <1>9. ASSUME NEW y, Free(qs2, y) PROVE Free(qs, y)
    <2> SUFFICES ASSUME NEW m \in ListName, NEW i \in 1..Len(qs[m]), qs[m][i] = y
                 PROVE  FALSE
      BY DEF Free, Elements
    <2>1. CASE m # l
      <3>1. qs2[m] = qs[m]
        BY <1>2, <2>1
      <3> QED  BY <1>9, <3>1 DEF Free, Elements
    <2>2. CASE m = l /\ i < n
      <3>1. i \in 1..Len(r) /\ r[i] = y
        BY <1>1, <2>2
      <3> QED  BY <1>2, <1>9, <2>2, <3>1 DEF Free, Elements
    <2>3. CASE m = l /\ i >= n
      <3>1. i + 1 \in 1..Len(r) /\ ~(i + 1 < n) /\ i + 1 # n /\ (i + 1) - 1 = i
        BY <1>1, <2>3
      <3>2. r[i + 1] = y
        BY <1>1, <2>3, <3>1
      <3> QED  BY <1>2, <1>9, <2>3, <3>1, <3>2 DEF Free, Elements
    <2> QED  BY <1>1, <2>1, <2>2, <2>3
  <1>10. NowTaken(qs, qs2, x)
    <2> SUFFICES ASSUME NEW y PROVE Free(qs2, y) <=> Free(qs, y) /\ y # x
      BY Zenon DEF NowTaken
    <2> QED  BY <1>7, <1>8, <1>9, Zenon
  <1> QED  BY <1>6, <1>10 DEF qs2

(* Positions after a node was put in.                                        *)
LEMMA WithInPositions ==
  ASSUME NEW q \in Seq(NodeName), NEW l \in ListName, NEW n, NEW x, NEW r, WithIn(q, n, x, r)
  PROVE  \A i \in 0..(Len(q) + 2) :
           At(r, l, i) = IF i < n THEN At(q, l, i) ELSE IF i = n THEN x ELSE At(q, l, i - 1)
  <1>1. /\ n \in 1..(Len(q) + 1) /\ r \in Seq(NodeName) /\ Len(r) = Len(q) + 1 /\ Len(q) \in Nat
        /\ \A i \in 1..Len(r) : r[i] = IF i < n THEN q[i] ELSE IF i = n THEN x ELSE q[i - 1]
    BY DEF WithIn
  <1> SUFFICES ASSUME NEW i \in 0..(Len(q) + 2)
               PROVE  At(r, l, i) = IF i < n THEN At(q, l, i) ELSE IF i = n THEN x ELSE At(q, l, i - 1)
    OBVIOUS
  <1>2. CASE i = 0
    BY <1>1, <1>2 DEF At
  <1>3. CASE i \in 1..Len(r) /\ i < n
    <2>1. i \in 1..Len(q) /\ r[i] = q[i]
      BY <1>1, <1>3
    <2> QED  BY <1>3, <2>1 DEF At
  <1>4. CASE i \in 1..Len(r) /\ i = n
    BY <1>1, <1>4 DEF At
  <1>5. CASE i \in 1..Len(r) /\ i > n
    <2>1. i - 1 \in 1..Len(q) /\ r[i] = q[i - 1] /\ ~(i < n) /\ i # n
      BY <1>1, <1>5
    <2> QED  BY <1>5, <2>1 DEF At
  <1>6. CASE i = Len(q) + 2
    <2>1. ~(i < n) /\ i # n /\ i - 1 \notin 1..Len(q) /\ i \notin 1..Len(r)
      BY <1>1, <1>6
    <2> QED  BY <2>1 DEF At
  <1> QED  BY <1>1, <1>2, <1>3, <1>4, <1>5, <1>6

(* List::__insert puts a free node into the ring.                            *)
LEMMA InsertRings ==
  ASSUME NEW k, NEW qs, Rings(k, qs), NEW l \in ListName, NEW n, NEW x \in NodeName, Free(qs, x),
         NEW r, WithIn(qs[l], n, x, r)
  PROVE  Rings(InsertNode(k, At(qs[l], l, n), x), Replaced(qs, l, r))
  <1> DEFINE q == qs[l]
             k2 == InsertNode(k, At(qs[l], l, n), x)
             qs2 == Replaced(qs, l, r)
             A(i) == At(qs[l], l, i)
             B(i) == At(r, l, i)
  <1>1. /\ IsLinks(k) /\ Family(qs) /\ \A y \in NodeName : Free(qs, y) => Alone(k, y)
        /\ \A m \in ListName : qs[m] \in Seq(NodeName)
    BY RingsParts, Zenon
  <1>2. /\ n \in 1..(Len(q) + 1) /\ r \in Seq(NodeName) /\ Len(r) = Len(q) + 1
    BY DEF WithIn
  <1>3. Len(q) \in Nat /\ q \in Seq(NodeName)
    BY <1>1
  <1>4. /\ Family(qs2) /\ NowTaken(qs, qs2, x)
    BY <1>1, WithInFamily, Zenon
  <1>5. \A m \in ListName : qs2[m] = IF m = l THEN r ELSE qs[m]
    BY <1>1, ReplacedAt
  <1>6. \A i : A(i) \in Pointer /\ A(i) # x
    BY <1>1, AtPositions, FreeOutside
  <1>7. /\ IsLinks(k2)
        /\ \A p \in Pointer :
              /\ k2.next[p] = IF p = k.prev[A(n)] THEN x ELSE IF p = x THEN A(n) ELSE k.next[p]
              /\ k2.prev[p] = IF p = A(n) THEN x ELSE IF p = x THEN k.prev[A(n)] ELSE k.prev[p]
              /\ k2.list[p] = IF p = x THEN k.list[A(n)] ELSE k.list[p]
    <2>1. IsLinks(k) /\ A(n) \in Pointer /\ x # A(n)
      BY <1>1, <1>6
    <2> QED  BY <2>1, InsertFields
  <1>8. \A i \in 0..Len(q) : k.next[A(i)] = A(i + 1) /\ k.list[A(i)] = l
    BY InRing
  <1>9. \A i \in 1..(Len(q) + 1) : k.prev[A(i)] = A(i - 1) /\ k.list[A(i)] = l
    BY RootAgain
  <1>10. \A i, j \in 0..Len(q) : A(i) = A(j) => i = j
    BY <1>1, OnePlace
  <1>11. \A i, j \in 1..(Len(q) + 1) : A(i) = A(j) => i = j
    BY <1>1, OnePlaceAfter
  <1>12. \A i \in 0..(Len(q) + 2) : B(i) = IF i < n THEN A(i) ELSE IF i = n THEN x ELSE A(i - 1)
    BY <1>3, WithInPositions
  <1>13. \A m \in ListName \ {l} : \A i \in 0..(Len(q) + 1), j \in 0..(Len(qs[m]) + 1) :
           A(i) # At(qs[m], m, j)
    BY <1>1, OtherRing
  <1>14. \A m \in ListName : \A i : At(qs[m], m, i) # x /\ At(qs[m], m, i) \in Pointer
    BY <1>1, AtPositions, FreeOutside
  <1>15. \A y \in NodeName : Free(qs, y) => \A i : A(i) # y
    BY <1>1, FreeOutside
  <1> HIDE DEF k2, qs2, A, B, q
  <1>16. k.prev[A(n)] = A(n - 1) /\ k.list[A(n)] = l
    BY <1>2, <1>9
  <1>17. x \in Pointer
    BY NamesApart
  <1>18. /\ \A i \in 0..Len(q) : i # n - 1 => A(i) # A(n - 1)
         /\ \A i \in 1..(Len(q) + 1) : i # n => A(i) # A(n)
    <2>1. n - 1 \in 0..Len(q)
      BY <1>2, <1>3
    <2> QED  BY <1>2, <1>10, <1>11, <2>1
  <1>19. RingOf(k2, r, l)
    <2> SUFFICES ASSUME NEW i \in 0..(Len(q) + 1)
                 PROVE  k2.next[B(i)] = B(i + 1) /\ k2.prev[B(i + 1)] = B(i) /\ k2.list[B(i)] = l
      BY <1>2 DEF RingOf, B
    <2>1. i \in Nat /\ i \in 0..(Len(q) + 2) /\ i + 1 \in 0..(Len(q) + 2)
          /\ n \in Nat /\ n >= 1 /\ n <= Len(q) + 1
      BY <1>2, <1>3
    <2>2. CASE i + 1 < n
      <3>1. B(i) = A(i) /\ B(i + 1) = A(i + 1) /\ i \in 0..Len(q) /\ i + 1 \in 1..(Len(q) + 1)
            /\ (i + 1) - 1 = i
        BY <1>3, <1>12, <2>1, <2>2
      <3>2. A(i) # A(n - 1) /\ A(i + 1) # A(n)
        BY <1>18, <2>1, <2>2, <3>1
      <3>3. k2.next[A(i)] = k.next[A(i)] /\ k2.prev[A(i + 1)] = k.prev[A(i + 1)]
            /\ k2.list[A(i)] = k.list[A(i)]
        BY <1>6, <1>7, <1>16, <3>2
      <3> QED  BY <1>8, <1>9, <3>1, <3>3
    <2>3. CASE i + 1 = n
      <3>1. B(i) = A(n - 1) /\ B(i + 1) = x /\ n - 1 \in 0..Len(q)
        BY <1>3, <1>12, <2>1, <2>3
      <3>2. k2.next[A(n - 1)] = x /\ k2.prev[x] = A(n - 1) /\ k2.list[A(n - 1)] = k.list[A(n - 1)]
        BY <1>6, <1>7, <1>16, <1>17
      <3> QED  BY <1>8, <3>1, <3>2
    <2>4. CASE i = n
      <3>1. B(i) = x /\ B(i + 1) = A(n)
        <4>1. ~(i + 1 < n) /\ i + 1 # n /\ (i + 1) - 1 = n /\ ~(i < n)
          BY <2>1, <2>4
        <4> QED  BY <1>12, <2>1, <2>4, <4>1
      <3>2. k2.next[x] = A(n) /\ k2.prev[A(n)] = x /\ k2.list[x] = l
        BY <1>6, <1>7, <1>16, <1>17
      <3> QED  BY <3>1, <3>2
    <2>5. CASE i > n
      <3>1. ~(i + 1 < n) /\ i + 1 # n /\ (i + 1) - 1 = i /\ ~(i < n) /\ i # n /\ (i - 1) + 1 = i
            /\ i - 1 \in 0..Len(q) /\ i \in 1..(Len(q) + 1) /\ i - 1 # n - 1
        BY <1>3, <2>1, <2>5
      <3>2. B(i) = A(i - 1) /\ B(i + 1) = A(i)
        BY <1>12, <2>1, <3>1
      <3>3. A(i - 1) # A(n - 1) /\ A(i) # A(n)
        BY <1>18, <3>1
      <3>4. k2.next[A(i - 1)] = k.next[A(i - 1)] /\ k2.prev[A(i)] = k.prev[A(i)]
            /\ k2.list[A(i - 1)] = k.list[A(i - 1)]
        BY <1>6, <1>7, <1>16, <3>3
      <3>5. k.next[A(i - 1)] = A((i - 1) + 1) /\ k.list[A(i - 1)] = l /\ k.prev[A(i)] = A(i - 1)
        BY <1>8, <1>9, <3>1
      <3> QED  BY <3>1, <3>2, <3>4, <3>5
    <2> QED  BY <2>1, <2>2, <2>3, <2>4, <2>5
  <1>20. ASSUME NEW m \in ListName, m # l PROVE RingOf(k2, qs[m], m)
    <2> SUFFICES ASSUME NEW i \in 0..Len(qs[m])
                 PROVE  /\ k2.next[At(qs[m], m, i)] = At(qs[m], m, i + 1)
                        /\ k2.prev[At(qs[m], m, i + 1)] = At(qs[m], m, i)
                        /\ k2.list[At(qs[m], m, i)] = m
      BY DEF RingOf
    <2>1. /\ k.next[At(qs[m], m, i)] = At(qs[m], m, i + 1)
          /\ k.prev[At(qs[m], m, i + 1)] = At(qs[m], m, i)
          /\ k.list[At(qs[m], m, i)] = m
      BY InRing
    <2>2. /\ i \in 0..(Len(qs[m]) + 1) /\ i + 1 \in 0..(Len(qs[m]) + 1)
          /\ n \in 0..(Len(q) + 1) /\ n - 1 \in 0..(Len(q) + 1)
      <3>1. Len(qs[m]) \in Nat
        BY <1>1
      <3> QED  BY <1>2, <1>3, <3>1
    <2>3. /\ At(qs[m], m, i) \notin {x, A(n - 1), A(n)}
          /\ At(qs[m], m, i + 1) \notin {x, A(n - 1), A(n)}
      BY <1>13, <1>14, <1>20, <2>2
    <2> QED  BY <1>7, <1>14, <1>16, <2>1, <2>3
  <1>21. ASSUME NEW y \in NodeName, Free(qs2, y) PROVE Alone(k2, y)
    <2>1. Free(qs, y) /\ y # x
      BY <1>4, <1>21 DEF NowTaken
    <2>2. y # A(n - 1) /\ y # A(n) /\ Alone(k, y) /\ y \in Pointer
      BY <1>1, <1>15, <2>1, NamesApart
    <2> QED  BY <1>7, <1>16, <2>1, <2>2 DEF Alone
  <1>22. \A m \in ListName : RingOf(k2, qs2[m], m)
    BY <1>5, <1>19, <1>20
  <1>23. Rings(k2, qs2)
    BY <1>4, <1>7, <1>21, <1>22 DEF Rings
  <1> QED  BY <1>23 DEF k2, qs2

-----------------------------------------------------------------------------
(* What the loops compute. *)

(* The number of nodes bounds the passes of the loops.                       *)
Passes == Cardinality(NodeName)

(* The bound on the turns of a loop is a number.                             *)
LEMMA PassesNat == Passes \in Nat
  BY NodesAssumption, FS_CardinalityType DEF Passes

(* The loops f and w start alike and go on alike.                            *)
GoOnAlike(f, w, N) ==
  /\ f[0] = w[0]
  /\ \A i \in 1..N : f[i - 1] = w[i - 1] => f[i] = w[i]

SameValues(f, w, N) == \A i \in 0..N : f[i] = w[i]

(* Two such loops are the same.                                              *)
LEMMA AlikeSame ==
  ASSUME NEW N \in Nat, NEW f, NEW w, GoOnAlike(f, w, N)
  PROVE  SameValues(f, w, N)
  <1> DEFINE T == {i \in 0..N : f[i] # w[i]}
  <1> SUFFICES ASSUME T # {} PROVE FALSE
    BY DEF SameValues
  <1>1. T \in SUBSET Nat
    OBVIOUS
  <1>2. PICK x \in T : \A y \in T : x <= y
    <2> HIDE DEF T
    <2> QED  BY <1>1, LeastNat
  <1>3. x # 0
    BY <1>2 DEF GoOnAlike
  <1>4. x - 1 \in 0..N /\ x \in 1..N /\ x - 1 \notin T
    BY <1>2, <1>3
  <1> QED  BY <1>2, <1>4 DEF GoOnAlike

(* A list has no more elements than there are nodes.                         *)
LEMMA ShortList ==
  ASSUME NEW qs, Family(qs), NEW l \in ListName
  PROVE  qs[l] \in Seq(NodeName) /\ Len(qs[l]) \in Nat /\ Len(qs[l]) <= Passes
  <1> DEFINE q == qs[l]
  <1>1. q \in Seq(NodeName)
    BY DEF Family
  <1>2. \A i, j \in 1..Len(q) : q[i] = q[j] => i = j
    BY DEF Family
  <1> HIDE DEF q
  <1>3. Len(q) \in Nat /\ q \in [1..Len(q) -> NodeName]
    BY <1>1
  <1>4. ASSUME Passes < Len(q) PROVE FALSE
    <2>1. IsFiniteSet(1..Len(q)) /\ Cardinality(1..Len(q)) = Len(q)
      BY <1>3, FS_Interval
    <2>2. \E i, j \in 1..Len(q) : i # j /\ q[i] = q[j]
      BY <1>3, <1>4, <2>1, NodesAssumption, FS_PigeonHole DEF Passes
    <2> QED  BY <1>2, <2>2
  <1>5. Len(q) <= Passes
    BY <1>3, <1>4, PassesNat
  <1> QED  BY <1>1, <1>3, <1>5 DEF q

(* The elements met along next are those of the sequence.                    *)
LEMMA WalkRing ==
  ASSUME NEW k, NEW qs, Rings(k, qs), NEW l \in ListName
  PROVE  Walk(k.next, l) = qs[l]
  <1> DEFINE q == qs[l]
             next == k.next
             A(i) == At(qs[l], l, i)
             Nth(f) == f = [i \in 0..(Passes + 1) |->
                              IF i = 0 THEN next[l]
                              ELSE IF f[i - 1] = l THEN l ELSE next[f[i - 1]]]
             nth == CHOOSE f : Nth(f)
             met == {i \in 0..Passes : nth[i] # l}
             w == [i \in 0..(Passes + 1) |-> A(i + 1)]
  <1>1. Family(qs)
    BY DEF Rings
  <1>2. q \in Seq(NodeName) /\ Len(q) \in Nat /\ Len(q) <= Passes /\ Passes \in Nat
    BY <1>1, ShortList, PassesNat
  <1>3. Walk(next, l) = [i \in 1..Cardinality(met) |-> nth[i - 1]]
    BY DEF Walk, Passes
  <1>4. /\ A(0) = l /\ \A i \in Nat : i > Len(q) => A(i) = l
        /\ \A i \in 1..Len(q) : A(i) = q[i] /\ A(i) # l
    BY <1>2, AtPositions, NamesApart
  <1>5. \A i \in 0..Len(q) : next[A(i)] = A(i + 1)
    BY InRing
  <1> HIDE DEF q, A, next
  <1>6. ASSUME NEW i \in 0..(Passes + 1)
        PROVE  A(i + 1) = IF i = 0 THEN next[l] ELSE IF w[i - 1] = l THEN l ELSE next[w[i - 1]]
    <2>1. CASE i = 0
      <3>1. 0 \in 0..Len(q) /\ 0 + 1 = i + 1
        BY <1>2, <2>1
      <3> QED  BY <1>4, <1>5, <2>1, <3>1
    <2>2. CASE i # 0
      <3>1. i \in Nat /\ i - 1 \in 0..(Passes + 1) /\ (i - 1) + 1 = i /\ i >= 1
        BY <1>2, <2>2
      <3>2. w[i - 1] = A(i)
        BY <3>1
      <3>3. CASE i <= Len(q)
        <4>1. i \in 1..Len(q) /\ i \in 0..Len(q)
          BY <1>2, <3>1, <3>3
        <4> QED  BY <1>4, <1>5, <2>2, <3>2, <4>1
      <3>4. CASE i > Len(q)
        <4>1. i + 1 \in Nat /\ i + 1 > Len(q)
          BY <1>2, <3>1, <3>4
        <4> QED  BY <1>4, <2>2, <3>1, <3>2, <3>4, <4>1
      <3> QED  BY <1>2, <3>1, <3>3, <3>4
    <2> QED  BY <2>1, <2>2
  <1>7. Nth(w)
    BY <1>6
  <1>8. Nth(nth)
    <2> HIDE DEF Nth, w
    <2> QED  BY <1>7
  <1> HIDE DEF nth
  <1>9. \A i \in 0..(Passes + 1) : nth[i] = w[i]
    <2>1. nth[0] = w[0]
      <3>1. 0 \in 0..(Passes + 1)
        BY <1>2
      <3> QED  BY <1>7, <1>8, <3>1
    <2>2. ASSUME NEW i \in 1..(Passes + 1), nth[i - 1] = w[i - 1] PROVE nth[i] = w[i]
      <3>1. i \in 0..(Passes + 1) /\ i # 0
        BY <1>2
      <3>2. nth[i] = IF nth[i - 1] = l THEN l ELSE next[nth[i - 1]]
        BY <1>8, <3>1
      <3>3. w[i] = IF w[i - 1] = l THEN l ELSE next[w[i - 1]]
        <4> HIDE DEF w
        <4> QED  BY <1>7, <3>1
      <3> QED  BY <2>2, <3>2, <3>3
    <2>3. Passes + 1 \in Nat
      BY <1>2
    <2> HIDE DEF w
    <2>4. GoOnAlike(nth, w, Passes + 1)
      BY <2>1, <2>2 DEF GoOnAlike
    <2>5. SameValues(nth, w, Passes + 1)
      BY <2>3, <2>4, AlikeSame
    <2> QED  BY <2>5 DEF SameValues
  <1>10. \A i \in 0..(Passes + 1) : nth[i] = A(i + 1)
    BY <1>9
  <1> HIDE DEF Nth, w
  <1>11. met = 0..(Len(q) - 1)
    <2>1. ASSUME NEW i \in 0..Passes PROVE nth[i] # l <=> i \in 0..(Len(q) - 1)
      <3>1. nth[i] = A(i + 1)
        BY <1>2, <1>10
      <3>2. CASE i < Len(q)
        <4>1. i + 1 \in 1..Len(q) /\ i \in 0..(Len(q) - 1)
          BY <1>2, <3>2
        <4> QED  BY <1>4, <3>1, <4>1
      <3>3. CASE i >= Len(q)
        <4>1. i + 1 \in Nat /\ i + 1 > Len(q) /\ i \notin 0..(Len(q) - 1)
          BY <1>2, <3>3
        <4> QED  BY <1>4, <3>1, <4>1
      <3> QED  BY <1>2, <3>2, <3>3
    <2>2. 0..(Len(q) - 1) \subseteq 0..Passes
      BY <1>2
    <2> QED  BY <2>1, <2>2
  <1>12. Cardinality(met) = Len(q)
    <2>1. Len(q) - 1 \in Int /\ 0 \in Int
      BY <1>2
    <2>2. Cardinality(0..(Len(q) - 1)) = IF 0 > Len(q) - 1 THEN 0 ELSE (Len(q) - 1) - 0 + 1
      BY <2>1, FS_Interval
    <2> HIDE DEF met
    <2> QED  BY <1>2, <1>11, <2>2
  <1>13. ASSUME NEW i \in 1..Len(q) PROVE nth[i - 1] = q[i]
    <2>1. i - 1 \in 0..(Passes + 1) /\ (i - 1) + 1 = i
      BY <1>2
    <2> QED  BY <1>4, <1>10, <2>1
  <1>14. Walk(next, l) = [i \in 1..Len(q) |-> q[i]]
    BY <1>3, <1>12, <1>13
  <1>15. q = [i \in 1..Len(q) |-> q[i]]
    BY <1>2
  <1> QED  BY <1>14, <1>15 DEF q, next

(* The loop of prioritize stops at the position that IsPriorPosition names.  *)
LEMMA PriorStopAt ==
  ASSUME NEW qs, Rings(links, qs), NEW l \in ListName, NEW n \in 1..Len(qs[l]), NEW p \in 1..n,
         IsPriorPosition(qs[l], n, nodeKey, p)
  PROVE  PriorStop(l, qs[l][n]) = qs[l][p]
  <1> DEFINE q == qs[l]
             x == q[n]
             A(i) == At(qs[l], l, i)
             M(i) == IF n - i >= p THEN n - i ELSE p
             Pos(f) == f = [i \in 0..Passes |->
                              IF i = 0 THEN x
                              ELSE IF f[i - 1] = nextNode[l] \/ ~comp(x, prevNode[f[i - 1]])
                                   THEN f[i - 1] ELSE prevNode[f[i - 1]]]
             pos == CHOOSE f : Pos(f)
             w == [i \in 0..Passes |-> q[M(i)]]
  <1>1. Family(qs)
    BY DEF Rings
  <1>2. q \in Seq(NodeName) /\ Len(q) \in Nat /\ Len(q) <= Passes /\ Passes \in Nat
    BY <1>1, ShortList, PassesNat
  <1>3. PriorStop(l, x) = pos[Passes]
    BY DEF PriorStop, Passes
  <1>4. A(0) = l /\ \A i \in 1..Len(q) : A(i) = q[i]
    BY <1>2, AtPositions
  <1>5. nextNode[A(0)] = A(0 + 1)
    <2>1. 0 \in 0..Len(q)
      BY <1>2
    <2>2. links.next[A(0)] = A(0 + 1)
      BY <2>1, InRing
    <2> QED  BY <2>2 DEF links
  <1>6. ASSUME NEW i \in 1..(Len(q) + 1) PROVE prevNode[A(i)] = A(i - 1)
    <2>1. links.prev[A(i)] = A(i - 1)
      BY RootAgain
    <2> QED  BY <2>1 DEF links
  <1>7. \A i, j \in 1..Len(q) : q[i] = q[j] => i = j
    BY <1>1 DEF Family
  <1>8. /\ \A i \in p..(n - 1) : comp(x, q[i])
        /\ p > 1 => ~comp(x, q[p - 1])
    BY DEF IsPriorPosition, comp
  <1>9. n \in Nat /\ p \in Nat /\ 1 <= p /\ p <= n /\ n <= Len(q)
    BY <1>2
  <1> HIDE DEF q, A
  <1>10. nextNode[l] = q[1]
    <2>1. 1 \in 1..Len(q) /\ 0 + 1 = 1
      BY <1>2, <1>9
    <2> QED  BY <1>4, <1>5, <2>1
  <1>11. ASSUME NEW i \in 1..Passes
         PROVE  q[M(i)] = IF q[M(i - 1)] = nextNode[l] \/ ~comp(x, prevNode[q[M(i - 1)]])
                          THEN q[M(i - 1)] ELSE prevNode[q[M(i - 1)]]
    <2> DEFINE m == M(i - 1)
    <2>1. m \in p..n /\ m \in Nat /\ m >= 1 /\ m <= Len(q)
      BY <1>2, <1>9
    <2>2. CASE m = p
      <3>1. M(i) = p
        BY <1>2, <1>9, <2>2
      <3>2. CASE p = 1
        BY <1>10, <2>2, <3>1, <3>2
      <3>3. CASE p > 1
        <4>1. prevNode[q[p]] = q[p - 1]
          <5>1. p \in 1..Len(q) /\ p \in 1..(Len(q) + 1) /\ p - 1 \in 1..Len(q)
            BY <1>2, <1>9, <3>3
          <5> QED  BY <1>4, <1>6, <5>1
        <4> HIDE DEF M
        <4> QED  BY <1>8, <2>2, <3>1, <3>3, <4>1
      <3> QED  BY <1>9, <3>2, <3>3
    <2>3. CASE m > p
      <3>1. M(i) = m - 1 /\ m - 1 \in p..(n - 1)
        BY <1>2, <1>9, <2>3
      <3> HIDE DEF M
      <3>2. prevNode[q[m]] = q[m - 1]
        <4> HIDE DEF m
        <4>1. m \in 1..Len(q) /\ m \in 1..(Len(q) + 1) /\ m - 1 \in 1..Len(q)
          BY <1>2, <1>9, <2>1, <2>3
        <4> QED  BY <1>4, <1>6, <4>1
      <3>3. q[m] # q[1]
        <4> HIDE DEF m
        <4>1. m \in 1..Len(q) /\ 1 \in 1..Len(q) /\ m # 1
          BY <1>2, <1>9, <2>1, <2>3
        <4> QED  BY <1>7, <4>1
      <3>4. comp(x, q[m - 1])
        <4> HIDE DEF x, m
        <4> QED  BY <1>8, <3>1
      <3> QED  BY <1>10, <3>1, <3>2, <3>3, <3>4
    <2> HIDE DEF m
    <2>4. m = p \/ m > p
      BY <1>9, <2>1
    <2> QED  BY <2>2, <2>3, <2>4 DEF m
  <1>12. Pos(w)
    <2>1. ASSUME NEW i \in 0..Passes
          PROVE  q[M(i)] = IF i = 0 THEN x
                           ELSE IF w[i - 1] = nextNode[l] \/ ~comp(x, prevNode[w[i - 1]])
                                THEN w[i - 1] ELSE prevNode[w[i - 1]]
      <3>1. CASE i = 0
        <4>1. M(i) = n
          BY <1>9, <3>1
        <4> HIDE DEF M
        <4> QED  BY <3>1, <4>1
      <3>2. CASE i # 0
        <4>1. i - 1 \in 0..Passes /\ i \in 1..Passes
          BY <1>2, <3>2
        <4> HIDE DEF M
        <4>2. w[i - 1] = q[M(i - 1)]
          BY <4>1
        <4> HIDE DEF w
        <4> QED  BY <1>11, <3>2, <4>1, <4>2
      <3> QED  BY <3>1, <3>2
    <2> HIDE DEF M, x
    <2> QED  BY <2>1
  <1>13. Pos(pos)
    <2> HIDE DEF Pos, w
    <2> QED  BY <1>12
  <1> HIDE DEF pos
  <1>14. \A i \in 0..Passes : pos[i] = w[i]
    <2> HIDE DEF w, x
    <2>1. pos[0] = w[0]
      <3>1. 0 \in 0..Passes
        BY <1>2
      <3> QED  BY <1>12, <1>13, <3>1
    <2>2. ASSUME NEW i \in 1..Passes, pos[i - 1] = w[i - 1] PROVE pos[i] = w[i]
      <3>1. i \in 0..Passes /\ i # 0
        BY <1>2
      <3>2. pos[i] = IF pos[i - 1] = nextNode[l] \/ ~comp(x, prevNode[pos[i - 1]])
                     THEN pos[i - 1] ELSE prevNode[pos[i - 1]]
        BY <1>13, <3>1
      <3>3. w[i] = IF w[i - 1] = nextNode[l] \/ ~comp(x, prevNode[w[i - 1]])
                   THEN w[i - 1] ELSE prevNode[w[i - 1]]
        BY <1>12, <3>1
      <3> QED  BY <2>2, <3>2, <3>3
    <2> HIDE DEF Pos
    <2>3. \A i \in 1..Passes : pos[i - 1] = w[i - 1] => pos[i] = w[i]
      BY <2>2
    <2>4. GoOnAlike(pos, w, Passes)
      BY <2>1, <2>3 DEF GoOnAlike
    <2>5. SameValues(pos, w, Passes)
      BY <2>4, PassesNat, AlikeSame
    <2> QED  BY <2>5 DEF SameValues
  <1>15. pos[Passes] = q[p]
    <2>1. Passes \in 0..Passes /\ M(Passes) = p
      BY <1>2, <1>9
    <2> HIDE DEF M, Pos
    <2>2. w[Passes] = q[M(Passes)]
      BY <2>1
    <2> HIDE DEF w
    <2>3. pos[Passes] = w[Passes]
      BY <1>14, <2>1
    <2> QED  BY <2>1, <2>2, <2>3
  <1> QED  BY <1>3, <1>15 DEF q

(* The loop of deprioritize stops at the position that IsPosteriorPosition    *)
(* names.                                                                    *)
LEMMA PosteriorStopAt ==
  ASSUME NEW qs, Rings(links, qs), NEW l \in ListName, NEW n \in 1..Len(qs[l]),
         NEW p \in (n + 1)..(Len(qs[l]) + 1), IsPosteriorPosition(qs[l], n, nodeKey, p)
  PROVE  PosteriorStop(l, qs[l][n]) = At(qs[l], l, p)
  <1> DEFINE q == qs[l]
             x == q[n]
             A(i) == At(qs[l], l, i)
             M(i) == IF n + 1 + i <= p THEN n + 1 + i ELSE p
             Pos(f) == f = [i \in 0..Passes |->
                              IF i = 0 THEN nextNode[x]
                              ELSE IF f[i - 1] = l \/ comp(x, f[i - 1])
                                   THEN f[i - 1] ELSE nextNode[f[i - 1]]]
             pos == CHOOSE f : Pos(f)
             w == [i \in 0..Passes |-> A(M(i))]
  <1>1. Family(qs)
    BY DEF Rings
  <1>2. q \in Seq(NodeName) /\ Len(q) \in Nat /\ Len(q) <= Passes /\ Passes \in Nat
    BY <1>1, ShortList, PassesNat
  <1>3. PosteriorStop(l, x) = pos[Passes]
    BY DEF PosteriorStop, Passes
  <1>4. /\ A(Len(q) + 1) = l
        /\ \A i \in 1..Len(q) : A(i) = q[i] /\ A(i) # l
    BY <1>2, AtPositions, NamesApart
  <1>5. ASSUME NEW i \in 0..Len(q) PROVE nextNode[A(i)] = A(i + 1)
    <2>1. links.next[A(i)] = A(i + 1)
      BY InRing
    <2> QED  BY <2>1 DEF links
  <1>6. /\ \A i \in (n + 1)..(p - 1) : ~comp(x, q[i])
        /\ p <= Len(q) => comp(x, q[p])
    BY DEF IsPosteriorPosition, comp
  <1>7. n \in Nat /\ p \in Nat /\ 1 <= n /\ n + 1 <= p /\ p <= Len(q) + 1 /\ n <= Len(q)
    BY <1>2
  <1> HIDE DEF q, A
  <1>8. nextNode[x] = A(n + 1)
    <2>1. n \in 1..Len(q) /\ n \in 0..Len(q)
      BY <1>2, <1>7
    <2> QED  BY <1>4, <1>5, <2>1
  <1> HIDE DEF x
  <1>9. ASSUME NEW i \in 1..Passes
         PROVE  A(M(i)) = IF A(M(i - 1)) = l \/ comp(x, A(M(i - 1)))
                          THEN A(M(i - 1)) ELSE nextNode[A(M(i - 1))]
    <2> DEFINE m == M(i - 1)
    <2>1. m \in (n + 1)..p /\ m \in Nat /\ m >= 1 /\ m <= Len(q) + 1
      BY <1>2, <1>7
    <2>2. CASE m = p
      <3>1. M(i) = p
        BY <1>2, <1>7, <2>2
      <3>2. CASE p = Len(q) + 1
        <4> HIDE DEF M
        <4> QED  BY <1>4, <2>2, <3>1, <3>2
      <3>3. CASE p <= Len(q)
        <4>1. p \in 1..Len(q)
          BY <1>2, <1>7, <3>3
        <4>2. comp(x, A(p))
          BY <1>4, <1>6, <3>3, <4>1
        <4> HIDE DEF M
        <4> QED  BY <2>2, <3>1, <4>2
      <3> QED  BY <1>2, <1>7, <3>2, <3>3
    <2>3. CASE m < p
      <3>1. M(i) = m + 1 /\ m \in (n + 1)..(p - 1) /\ m \in 1..Len(q) /\ m \in 0..Len(q)
        BY <1>2, <1>7, <2>3
      <3> HIDE DEF M
      <3>2. nextNode[A(m)] = A(m + 1) /\ A(m) = q[m] /\ A(m) # l
        <4> HIDE DEF m
        <4> QED  BY <1>4, <1>5, <3>1
      <3>3. ~comp(x, A(m))
        <4> HIDE DEF m
        <4> QED  BY <1>6, <3>1, <3>2
      <3> QED  BY <3>1, <3>2, <3>3
    <2> HIDE DEF m
    <2>4. m = p \/ m < p
      BY <1>7, <2>1
    <2> QED  BY <2>2, <2>3, <2>4 DEF m
  <1>10. Pos(w)
    <2>1. ASSUME NEW i \in 0..Passes
          PROVE  A(M(i)) = IF i = 0 THEN nextNode[x]
                           ELSE IF w[i - 1] = l \/ comp(x, w[i - 1])
                                THEN w[i - 1] ELSE nextNode[w[i - 1]]
      <3>1. CASE i = 0
        <4>1. M(i) = n + 1
          BY <1>7, <3>1
        <4> HIDE DEF M
        <4> QED  BY <1>8, <3>1, <4>1
      <3>2. CASE i # 0
        <4>1. i - 1 \in 0..Passes /\ i \in 1..Passes
          BY <1>2, <3>2
        <4> HIDE DEF M
        <4>2. w[i - 1] = A(M(i - 1))
          BY <4>1
        <4> HIDE DEF w
        <4> QED  BY <1>9, <3>2, <4>1, <4>2
      <3> QED  BY <3>1, <3>2
    <2> HIDE DEF M
    <2> QED  BY <2>1
  <1>11. Pos(pos)
    <2> HIDE DEF Pos, w
    <2> QED  BY <1>10
  <1> HIDE DEF pos
  <1>12. \A i \in 0..Passes : pos[i] = w[i]
    <2> HIDE DEF w
    <2>1. pos[0] = w[0]
      <3>1. 0 \in 0..Passes
        BY <1>2
      <3> QED  BY <1>10, <1>11, <3>1
    <2>2. ASSUME NEW i \in 1..Passes, pos[i - 1] = w[i - 1] PROVE pos[i] = w[i]
      <3>1. i \in 0..Passes /\ i # 0
        BY <1>2
      <3>2. pos[i] = IF pos[i - 1] = l \/ comp(x, pos[i - 1]) THEN pos[i - 1] ELSE nextNode[pos[i - 1]]
        BY <1>11, <3>1
      <3>3. w[i] = IF w[i - 1] = l \/ comp(x, w[i - 1]) THEN w[i - 1] ELSE nextNode[w[i - 1]]
        BY <1>10, <3>1
      <3> QED  BY <2>2, <3>2, <3>3
    <2> HIDE DEF Pos
    <2>3. \A i \in 1..Passes : pos[i - 1] = w[i - 1] => pos[i] = w[i]
      BY <2>2
    <2>4. GoOnAlike(pos, w, Passes)
      BY <2>1, <2>3 DEF GoOnAlike
    <2>5. SameValues(pos, w, Passes)
      BY <2>4, PassesNat, AlikeSame
    <2> QED  BY <2>5 DEF SameValues
  <1>13. pos[Passes] = A(p)
    <2>1. Passes \in 0..Passes /\ M(Passes) = p
      BY <1>2, <1>7
    <2> HIDE DEF M, Pos
    <2>2. w[Passes] = A(M(Passes))
      BY <2>1
    <2> HIDE DEF w
    <2>3. pos[Passes] = w[Passes]
      BY <1>12, <2>1
    <2> QED  BY <2>1, <2>2, <2>3
  <1> QED  BY <1>3, <1>13 DEF q, A, x

-----------------------------------------------------------------------------
(* The sequences that the operations leave. *)

(* q without its element at n.                                               *)
Taken(q, n) == [i \in 1..(Len(q) - 1) |-> IF i < n THEN q[i] ELSE q[i + 1]]

(* Taken takes one element out.                                              *)
LEMMA TakenWithout ==
  ASSUME NEW q \in Seq(NodeName), NEW n \in 1..Len(q)
  PROVE  Without(q, n, Taken(q, n)) /\ Len(Taken(q, n)) = Len(q) - 1
  <1> DEFINE m == Len(q) - 1
             r == Taken(q, n)
  <1>1. m \in Nat /\ Len(q) = m + 1 /\ n \in Nat /\ \A i \in 1..Len(q) : q[i] \in NodeName
    OBVIOUS
  <1>2. r = [i \in 1..m |-> IF i < n THEN q[i] ELSE q[i + 1]]
    BY DEF Taken
  <1> HIDE DEF m, r
  <1>3. ASSUME NEW i \in 1..m PROVE (IF i < n THEN q[i] ELSE q[i + 1]) \in NodeName
    <2>1. i \in 1..Len(q) /\ i + 1 \in 1..Len(q)
      BY <1>1
    <2> QED  BY <1>1, <2>1
  <1>4. r \in [1..m -> NodeName]
    BY <1>2, <1>3
  <1>5. r \in Seq(NodeName) /\ Len(r) = m
    BY <1>1, <1>4
  <1>6. Len(q) - 1 = m
    BY DEF m
  <1> QED  BY <1>2, <1>5, <1>6 DEF Without, r

(* remove of an element takes it out.                                        *)
LEMMA UnlinkTaken ==
  ASSUME NEW q \in Seq(NodeName), Linked(q), NEW n \in 1..Len(q)
  PROVE  Unlink(q, q[n]) = Taken(q, n) /\ q[n] \in Elements(q) /\ Position(q, q[n]) = n
  <1>1. q[n] \in Elements(q)
    BY DEF Elements
  <1>2. Position(q, q[n]) \in 1..Len(q) /\ q[Position(q, q[n])] = q[n]
    BY <1>1, PositionLemma
  <1>3. Position(q, q[n]) = n
    BY <1>2 DEF Linked
  <1>4. Unlink(q, q[n]) = Taken(q, n)
    BY <1>1, <1>3 DEF Unlink, Taken
  <1> QED  BY <1>1, <1>3, <1>4

(* Moving an element up is to take it out and to put it in before p.         *)
LEMMA MoveUpWithIn ==
  ASSUME NEW q \in Seq(NodeName), Linked(q), NEW n \in 1..Len(q), NEW p \in 1..n
  PROVE  /\ WithIn(Taken(q, n), p, q[n], MoveUp(q, n, p))
         /\ p = n => MoveUp(q, n, p) = q
  <1> DEFINE r == MoveUp(q, n, p)
             t == Taken(q, n)
  <1>1. r \in Seq(NodeName) /\ Len(r) = Len(q)
    BY MoveUpLemma
  <1>2. Without(q, n, t) /\ Len(t) = Len(q) - 1 /\ Len(q) \in Nat
    BY TakenWithout
  <1>3. \A i \in 1..(Len(q) - 1) : t[i] = IF i < n THEN q[i] ELSE q[i + 1]
    BY DEF Taken
  <1>4. \A i \in 1..Len(q) : r[i] = IF i < p \/ i > n THEN q[i] ELSE IF i = p THEN q[n] ELSE q[i - 1]
    BY DEF MoveUp
  <1>5. q = [i \in 1..Len(q) |-> q[i]] /\ r = [i \in 1..Len(r) |-> r[i]]
    BY <1>1
  <1> HIDE DEF r, t
  <1>6. ASSUME NEW i \in 1..Len(q)
        PROVE  r[i] = IF i < p THEN t[i] ELSE IF i = p THEN q[n] ELSE t[i - 1]
    <2>1. CASE i < p
      <3>1. i \in 1..(Len(q) - 1) /\ i < n
        BY <1>2, <2>1
      <3> QED  BY <1>3, <1>4, <2>1, <3>1
    <2>2. CASE i = p
      BY <1>4, <2>2
    <2>3. CASE i > p /\ i <= n
      <3>1. i - 1 \in 1..(Len(q) - 1) /\ i - 1 < n /\ ~(i < p) /\ i # p /\ ~(i > n)
        BY <1>2, <2>3
      <3> QED  BY <1>3, <1>4, <3>1
    <2>4. CASE i > p /\ i > n
      <3>1. i - 1 \in 1..(Len(q) - 1) /\ ~(i - 1 < n) /\ ~(i < p) /\ i # p /\ (i - 1) + 1 = i
        BY <1>2, <2>4
      <3> QED  BY <1>3, <1>4, <2>4, <3>1
    <2> QED  BY <1>2, <2>1, <2>2, <2>3, <2>4
  <1>7. WithIn(t, p, q[n], r)
    <2>1. p \in 1..(Len(t) + 1) /\ Len(r) = Len(t) + 1
      BY <1>1, <1>2
    <2> QED  BY <1>1, <1>6, <2>1 DEF WithIn
  <1>8. ASSUME p = n PROVE r = q
    <2>1. \A i \in 1..Len(q) : r[i] = q[i]
      BY <1>4, <1>8
    <2> QED  BY <1>1, <1>5, <2>1
  <1> QED  BY <1>7, <1>8 DEF r, t

(* Moving an element down is to take it out and to put it in before p.       *)
LEMMA MoveDownWithIn ==
  ASSUME NEW q \in Seq(NodeName), Linked(q), NEW n \in 1..Len(q), NEW p \in (n + 1)..(Len(q) + 1)
  PROVE  /\ WithIn(Taken(q, n), p - 1, q[n], MoveDown(q, n, p))
         /\ p = n + 1 => MoveDown(q, n, p) = q
  <1> DEFINE r == MoveDown(q, n, p)
             t == Taken(q, n)
  <1>1. r \in Seq(NodeName) /\ Len(r) = Len(q)
    BY MoveDownLemma
  <1>2. Without(q, n, t) /\ Len(t) = Len(q) - 1 /\ Len(q) \in Nat
    BY TakenWithout
  <1>3. \A i \in 1..(Len(q) - 1) : t[i] = IF i < n THEN q[i] ELSE q[i + 1]
    BY DEF Taken
  <1>4. \A i \in 1..Len(q) : r[i] = IF i < n \/ i >= p THEN q[i] ELSE IF i = p - 1 THEN q[n] ELSE q[i + 1]
    BY DEF MoveDown
  <1>5. q = [i \in 1..Len(q) |-> q[i]] /\ r = [i \in 1..Len(r) |-> r[i]]
    BY <1>1
  <1> HIDE DEF r, t
  <1>6. ASSUME NEW i \in 1..Len(q)
        PROVE  r[i] = IF i < p - 1 THEN t[i] ELSE IF i = p - 1 THEN q[n] ELSE t[i - 1]
    <2>1. CASE i < n
      <3>1. i \in 1..(Len(q) - 1) /\ i < p - 1
        BY <1>2, <2>1
      <3> QED  BY <1>3, <1>4, <2>1, <3>1
    <2>2. CASE i >= n /\ i < p - 1
      <3>1. i \in 1..(Len(q) - 1) /\ ~(i < n) /\ ~(i >= p) /\ i # p - 1
        BY <1>2, <2>2
      <3> QED  BY <1>3, <1>4, <2>2, <3>1
    <2>3. CASE i = p - 1
      <3>1. ~(i < n) /\ ~(i >= p) /\ ~(i < p - 1)
        BY <1>2, <2>3
      <3> QED  BY <1>4, <2>3, <3>1
    <2>4. CASE i >= p
      <3>1. i - 1 \in 1..(Len(q) - 1) /\ ~(i - 1 < n) /\ ~(i < p - 1) /\ i # p - 1 /\ (i - 1) + 1 = i
        BY <1>2, <2>4
      <3> QED  BY <1>3, <1>4, <2>4, <3>1
    <2> QED  BY <1>2, <2>1, <2>2, <2>3, <2>4
  <1>7. WithIn(t, p - 1, q[n], r)
    <2>1. p - 1 \in 1..(Len(t) + 1) /\ Len(r) = Len(t) + 1
      BY <1>1, <1>2
    <2> QED  BY <1>1, <1>6, <2>1 DEF WithIn
  <1>8. ASSUME p = n + 1 PROVE r = q
    <2>1. ASSUME NEW i \in 1..Len(q) PROVE r[i] = q[i]
      <3>0. i \in Nat /\ n \in Nat
        BY <1>2
      <3>1. i < n \/ i >= p \/ (i = p - 1 /\ i = n)
        BY <1>8, <3>0
      <3> QED  BY <1>4, <3>1
    <2> QED  BY <1>1, <1>5, <2>1
  <1> QED  BY <1>7, <1>8 DEF r, t

(* insert puts the node in front of p.                                       *)
LEMMA InsertAtWithIn ==
  ASSUME NEW q \in Seq(NodeName), NEW x \in NodeName, NEW p \in 1..(Len(q) + 1)
  PROVE  WithIn(q, p, x, Promise!InsertAt(q, p, x))
  <1> DEFINE a == SubSeq(q, 1, p - 1)
             b == SubSeq(q, p, Len(q))
             r == Promise!InsertAt(q, p, x)
  <1>0. Len(q) \in Nat /\ p \in Nat /\ 1 <= p /\ p <= Len(q) + 1
    OBVIOUS
  <1>1. a \in Seq(NodeName) /\ Len(a) = p - 1 /\ \A i \in 1..(p - 1) : a[i] = q[i]
    BY <1>0
  <1>2. b \in Seq(NodeName) /\ Len(b) = Len(q) + 1 - p /\ \A i \in 1..(Len(q) + 1 - p) : b[i] = q[p + i - 1]
    BY <1>0
  <1>3. r = (a \o <<x>>) \o b
    BY DEF Promise!InsertAt
  <1> HIDE DEF a, b, r
  <1> DEFINE c == a \o <<x>>
  <1>4. /\ c \in Seq(NodeName) /\ Len(c) = p /\ c[p] = x /\ \A i \in 1..(p - 1) : c[i] = q[i]
    BY <1>0, <1>1
  <1> HIDE DEF c
  <1>5. r = c \o b
    BY <1>3 DEF c
  <1>6. r \in Seq(NodeName) /\ Len(r) = Len(q) + 1
    BY <1>0, <1>2, <1>4, <1>5
  <1>7. ASSUME NEW i \in 1..Len(r)
        PROVE  r[i] = IF i < p THEN q[i] ELSE IF i = p THEN x ELSE q[i - 1]
    <2>1. CASE i <= p
      <3>1. r[i] = c[i]
        BY <1>2, <1>4, <1>5, <1>6, <2>1
      <3>2. i = p \/ i \in 1..(p - 1)
        BY <1>0, <1>6, <2>1
      <3> QED  BY <1>0, <1>4, <3>1, <3>2
    <2>2. CASE i > p
      <3>1. r[i] = b[i - p]
        BY <1>2, <1>4, <1>5, <1>6, <2>2
      <3>2. i - p \in 1..(Len(q) + 1 - p) /\ p + (i - p) - 1 = i - 1
        BY <1>0, <1>6, <2>2
      <3> QED  BY <1>0, <1>2, <2>2, <3>1, <3>2
    <2> QED  BY <1>0, <1>6, <2>1, <2>2
  <1>8. WithIn(q, p, x, r)
    BY <1>6, <1>7 DEF WithIn
  <1> QED  BY <1>8 DEF r

-----------------------------------------------------------------------------
(* The operations on the rings. *)

(* A family has each of its sequences without a duplicate.                   *)
LEMMA FamilyLinked ==
  ASSUME NEW qs, Family(qs), NEW l \in ListName
  PROVE  Linked(qs[l])
  BY DEF Family, Linked

(* Replacing a sequence twice is replacing it once.                          *)
LEMMA ReplacedTwice ==
  ASSUME NEW qs, Family(qs), NEW l \in ListName, NEW r, NEW s
  PROVE  Replaced(Replaced(qs, l, r), l, s) = Replaced(qs, l, s) /\ Replaced(qs, l, qs[l]) = qs
  <1>1. qs \in [ListName -> Seq(NodeName)]
    BY DEF Family
  <1>2. \A f : f = [m \in ListName |-> f[m]] =>
          [[f EXCEPT ![l] = r] EXCEPT ![l] = s] = [f EXCEPT ![l] = s] /\ [f EXCEPT ![l] = f[l]] = f
    OBVIOUS
  <1>3. qs = [m \in ListName |-> qs[m]]
    BY <1>1
  <1> QED  BY <1>2, <1>3 DEF Replaced

(* To unlink a node that is in no list changes nothing.                      *)
LEMMA UnlinkAlone ==
  ASSUME NEW k, IsLinks(k), NEW x \in NodeName, Alone(k, x)
  PROVE  UnlinkNode(k, x) = k
  <1> DEFINE j == UnlinkNode(k, x)
  <1>1. /\ IsLinks(j)
        /\ \A p \in Pointer :
              /\ j.next[p] = IF p = x THEN x ELSE IF p = k.prev[x] THEN k.next[x] ELSE k.next[p]
              /\ j.prev[p] = IF p = x THEN x ELSE IF p = k.next[x] THEN k.prev[x] ELSE k.prev[p]
              /\ j.list[p] = IF p = x THEN NoList ELSE k.list[p]
    BY UnlinkFields
  <1> HIDE DEF j
  <1>2. \A p \in Pointer : j.next[p] = k.next[p] /\ j.prev[p] = k.prev[p] /\ j.list[p] = k.list[p]
    BY <1>1 DEF Alone
  <1>3. j.next = k.next /\ j.prev = k.prev /\ j.list = k.list
    <2> DEFINE a == j.next
               b == j.prev
               c == j.list
               d == k.next
               e == k.prev
               f == k.list
    <2>1. /\ a \in [Pointer -> Pointer] /\ b \in [Pointer -> Pointer]
          /\ c \in [Pointer -> ListName \cup {NoList}]
      BY <1>1 DEF IsLinks
    <2>2. /\ d \in [Pointer -> Pointer] /\ e \in [Pointer -> Pointer]
          /\ f \in [Pointer -> ListName \cup {NoList}]
      BY DEF IsLinks
    <2>3. \A p \in Pointer : a[p] = d[p] /\ b[p] = e[p] /\ c[p] = f[p]
      BY <1>2
    <2> HIDE DEF a, b, c, d, e, f
    <2>4. a = d /\ b = e /\ c = f
      BY <2>1, <2>2, <2>3
    <2> QED  BY <2>4 DEF a, b, c, d, e, f
  <1>4. j = k
    BY <1>1, <1>3 DEF IsLinks
  <1> QED  BY <1>4 DEF j

(* Removing a node and inserting it again, as prioritize and deprioritize do. *)
LEMMA MoveRings ==
  ASSUME NEW k, NEW qs, Rings(k, qs), NEW l \in ListName, NEW n \in 1..Len(qs[l]),
         NEW p, NEW r, WithIn(Taken(qs[l], n), p, qs[l][n], r)
  PROVE  Rings(InsertNode(UnlinkNode(k, qs[l][n]), At(Taken(qs[l], n), l, p), qs[l][n]),
               Replaced(qs, l, r))
  <1> DEFINE q == qs[l]
             x == qs[l][n]
             t == Taken(qs[l], n)
             qs1 == Replaced(qs, l, t)
             k1 == UnlinkNode(k, x)
  <1>1. Family(qs)
    BY DEF Rings
  <1>2. q \in Seq(NodeName) /\ Len(q) \in Nat
    BY <1>1, ShortList
  <1>3. x \in NodeName
    <2> HIDE DEF q
    <2>1. q[n] \in NodeName
      BY <1>2 DEF q
    <2> QED  BY <2>1 DEF q
  <1>4. Without(q, n, t)
    BY <1>2, TakenWithout
  <1>5. Rings(k1, qs1)
    BY <1>4, UnlinkRings
  <1>6. Free(qs1, x)
    <2>1. NowFree(qs, qs1, x)
      BY <1>1, <1>4, WithoutFamily
    <2> HIDE DEF qs1
    <2> QED  BY <2>1 DEF NowFree
  <1>7. qs1[l] = t
    BY <1>1, ReplacedAt
  <1>8. Replaced(qs1, l, r) = Replaced(qs, l, r)
    BY <1>1, ReplacedTwice
  <1> HIDE DEF qs1, k1, x, t
  <1>9. WithIn(qs1[l], p, x, r)
    BY <1>7 DEF x, t
  <1>10. Rings(InsertNode(k1, At(qs1[l], l, p), x), Replaced(qs1, l, r))
    BY <1>3, <1>5, <1>6, <1>9, InsertRings
  <1>11. Rings(InsertNode(k1, At(t, l, p), x), Replaced(qs, l, r))
    BY <1>7, <1>8, <1>10
  <1> QED  BY <1>11 DEF k1, x, t

(* The first m elements.                                                     *)
Cut(q, m) == [i \in 1..m |-> q[i]]

CutIn(qs, l, m) == Replaced(qs, l, Cut(qs[l], m))

(* One pass of the loop of clear unlinks the last element.                   *)
LEMMA CutRings ==
  ASSUME NEW qs, Family(qs), NEW l \in ListName, NEW m \in 0..Len(qs[l]),
         NEW k, Rings(k, CutIn(qs, l, m))
  PROVE  /\ m = 0 => k.prev[l] = l
         /\ m # 0 => k.prev[l] # l /\ Rings(UnlinkNode(k, k.prev[l]), CutIn(qs, l, m - 1))
  <1> DEFINE q == qs[l]
             c == Cut(qs[l], m)
             d == Cut(qs[l], m - 1)
             qs1 == CutIn(qs, l, m)
  <1>1. q \in Seq(NodeName) /\ Len(q) \in Nat
    BY ShortList
  <1>2. m \in Nat /\ m <= Len(q) /\ \A i \in 1..Len(q) : q[i] \in NodeName
    BY <1>1
  <1>3. c = [i \in 1..m |-> q[i]] /\ d = [i \in 1..(m - 1) |-> q[i]]
    BY DEF Cut
  <1> HIDE DEF q
  <1>4. c \in Seq(NodeName) /\ Len(c) = m
    <2>1. \A i \in 1..m : q[i] \in NodeName
      BY <1>1, <1>2
    <2>2. c \in [1..m -> NodeName]
      BY <1>3, <2>1
    <2> QED  BY <1>2, <2>2
  <1>5. qs1[l] = c
    BY ReplacedAt DEF CutIn
  <1> HIDE DEF c, d, qs1
  <1>6. k.prev[At(c, l, m + 1)] = At(c, l, (m + 1) - 1)
    <2>1. m + 1 \in 1..(Len(qs1[l]) + 1)
      BY <1>2, <1>4, <1>5
    <2>2. Rings(k, qs1)
      BY DEF qs1
    <2>3. k.prev[At(qs1[l], l, m + 1)] = At(qs1[l], l, (m + 1) - 1)
      BY <2>1, <2>2, RootAgain
    <2> QED  BY <1>5, <2>3
  <1>7. At(c, l, m + 1) = l /\ At(c, l, 0) = l /\ (m + 1) - 1 = m
    BY <1>2, <1>4, AtPositions
  <1>8. k.prev[l] = At(c, l, m)
    BY <1>6, <1>7
  <1>9. ASSUME m # 0 PROVE k.prev[l] # l /\ Rings(UnlinkNode(k, k.prev[l]), CutIn(qs, l, m - 1))
    <2>1. m \in 1..m /\ m - 1 \in Nat
      BY <1>2, <1>9
    <2>2. At(c, l, m) = c[m] /\ c[m] \in NodeName
      BY <1>4, <2>1, AtPositions
    <2>3. k.prev[l] # l
      BY <1>8, <2>2, NamesApart
    <2>4. d \in Seq(NodeName) /\ Len(d) = m - 1
      <3>1. \A i \in 1..(m - 1) : q[i] \in NodeName
        BY <1>1, <1>2
      <3>2. d \in [1..(m - 1) -> NodeName]
        BY <1>3, <3>1
      <3> QED  BY <2>1, <3>2
    <2>5. Without(c, m, d)
      <3>1. ASSUME NEW i \in 1..(m - 1) PROVE d[i] = c[i] /\ i < m
        <4>1. i \in 1..m
          BY <1>2
        <4> QED  BY <1>2, <1>3, <4>1
      <3> QED  BY <1>4, <2>1, <2>4, <3>1 DEF Without
    <2>6. Rings(UnlinkNode(k, qs1[l][m]), Replaced(qs1, l, d))
      <3>1. Without(qs1[l], m, d) /\ Rings(k, qs1)
        BY <1>5, <2>5 DEF qs1
      <3> QED  BY <3>1, UnlinkRings
    <2>7. Replaced(qs1, l, d) = CutIn(qs, l, m - 1)
      BY ReplacedTwice DEF qs1, d, CutIn
    <2>8. qs1[l][m] = k.prev[l]
      BY <1>5, <1>8, <2>2
    <2> QED  BY <2>3, <2>6, <2>7, <2>8
  <1> QED  BY <1>7, <1>8, <1>9

(* The links after an assignment.                                            *)
LEMMA AssignRings ==
  ASSUME NEW k, NEW qs, Rings(k, qs), Assign(k)
  PROVE  Rings(links', qs)
  <1>1. k = [next |-> k.next, prev |-> k.prev, list |-> k.list]
    BY DEF Rings, IsLinks
  <1>2. links' = k
    BY <1>1 DEF links, Assign
  <1> QED  BY <1>2

(* There are links with the first m elements, whatever m.                    *)
LEMMA CutExists ==
  ASSUME NEW j, NEW qs, Rings(j, qs), NEW l \in ListName, NEW m \in 0..Len(qs[l])
  PROVE  \E k : Rings(k, CutIn(qs, l, m))
  <1> DEFINE n == Len(qs[l])
             T == {i \in 0..n : ~\E k : Rings(k, CutIn(qs, l, n - i))}
  <1>1. Family(qs)
    BY DEF Rings
  <1>2. qs[l] \in Seq(NodeName) /\ n \in Nat
    BY <1>1, ShortList
  <1>3. CutIn(qs, l, n) = qs
    <2>1. qs[l] = Cut(qs[l], n)
      BY <1>2 DEF Cut
    <2> QED  BY <1>1, <2>1, ReplacedTwice DEF CutIn
  <1> HIDE DEF n
  <1>4. T = {}
    <2> SUFFICES ASSUME T # {} PROVE FALSE
      OBVIOUS
    <2>1. T \in SUBSET Nat
      BY <1>2
    <2>2. PICK x \in T : \A y \in T : x <= y
      <3> HIDE DEF T
      <3> QED  BY <2>1, LeastNat
    <2>3. x # 0
      <3>1. n - 0 = n
        BY <1>2
      <3> QED  BY <1>3, <2>2, <3>1
    <2>4. x - 1 \in 0..n /\ ~(x <= x - 1) /\ n - (x - 1) \in 0..n /\ n - (x - 1) # 0
          /\ (n - (x - 1)) - 1 = n - x
      BY <1>2, <2>2, <2>3
    <2>5. PICK k : Rings(k, CutIn(qs, l, n - (x - 1)))
      BY <2>2, <2>4
    <2>6. Rings(UnlinkNode(k, k.prev[l]), CutIn(qs, l, (n - (x - 1)) - 1))
      BY <1>1, <2>4, <2>5, CutRings DEF n
    <2> QED  BY <2>2, <2>4, <2>6
  <1>5. n - m \in 0..n /\ n - (n - m) = m
    BY <1>2 DEF n
  <1> QED  BY <1>4, <1>5

(* clear unlinks all the elements of the list.                               *)
LEMMA ClearRings ==
  ASSUME NEW qs, Rings(links, qs), NEW l \in ListName, clearList(l)
  PROVE  Rings(links', Replaced(qs, l, <<>>))
  <1> DEFINE n == Len(qs[l])
             M(i) == IF i <= n THEN n - i ELSE 0
             Step(k) == IF k.prev[l] = l THEN k ELSE UnlinkNode(k, k.prev[l])
             Loop(f) == f = [i \in 0..Passes |-> IF i = 0 THEN links ELSE Step(f[i - 1])]
             loop == CHOOSE f : Loop(f)
             Is(k, i) == Rings(k, CutIn(qs, l, M(i)))
             w == [i \in 0..Passes |-> CHOOSE k : Is(k, i)]
  <1>1. Family(qs)
    BY DEF Rings
  <1>2. qs[l] \in Seq(NodeName) /\ n \in Nat /\ n <= Passes /\ Passes \in Nat
    BY <1>1, ShortList, PassesNat
  <1>3. Assign(loop[Passes])
    BY DEF clearList, Passes
  <1>4. ASSUME NEW i \in Nat PROVE \E k : Is(k, i)
    <2>1. M(i) \in 0..n
      BY <1>2
    <2> HIDE DEF M
    <2> QED  BY <2>1, CutExists
  <1>5. ASSUME NEW i \in 1..Passes, NEW k, Is(k, i - 1) PROVE Is(Step(k), i)
    <2>1. i - 1 \in Nat /\ M(i - 1) \in 0..n /\ M(i) = IF M(i - 1) = 0 THEN 0 ELSE M(i - 1) - 1
      BY <1>2
    <2> HIDE DEF M
    <2>2. /\ M(i - 1) = 0 => k.prev[l] = l
          /\ M(i - 1) # 0 => k.prev[l] # l /\ Rings(UnlinkNode(k, k.prev[l]), CutIn(qs, l, M(i - 1) - 1))
      BY <1>1, <1>5, <2>1, CutRings
    <2>3. CASE M(i - 1) = 0
      BY <1>5, <2>1, <2>2, <2>3
    <2>4. CASE M(i - 1) # 0
      BY <2>1, <2>2, <2>4
    <2> QED  BY <2>3, <2>4
  <1>6. Is(links, 0)
    <2>1. M(0) = n
      BY <1>2
    <2>2. qs[l] = Cut(qs[l], n)
      BY <1>2 DEF Cut
    <2>3. CutIn(qs, l, n) = qs
      BY <1>1, <2>2, ReplacedTwice DEF CutIn
    <2> QED  BY <2>1, <2>3
  <1>7. ASSUME NEW i \in 0..Passes PROVE Is(w[i], i)
    <2>1. \E k : Is(k, i)
      BY <1>2, <1>4
    <2>2. w[i] = CHOOSE k : Is(k, i)
      <3> HIDE DEF Is
      <3> QED  OBVIOUS
    <2> HIDE DEF w, Is
    <2> QED  BY <2>1, <2>2
  <1>8. \A k, j, i : Is(k, i) /\ Is(j, i) => k = j
    <2> HIDE DEF M
    <2> QED  BY RingsUnique
  <1> HIDE DEF Is, Step, n
  <1>9. Loop(w)
    <2>1. ASSUME NEW i \in 0..Passes PROVE w[i] = IF i = 0 THEN links ELSE Step(w[i - 1])
      <3> HIDE DEF w
      <3>1. Is(w[i], i)
        BY <1>7
      <3>2. CASE i = 0
        BY <1>6, <1>8, <3>1, <3>2
      <3>3. CASE i # 0
        <4>1. i - 1 \in 0..Passes /\ i \in 1..Passes
          BY <1>2, <3>3
        <4>2. Is(Step(w[i - 1]), i)
          BY <1>5, <1>7, <4>1
        <4> QED  BY <1>8, <3>1, <3>3, <4>2
      <3> QED  BY <3>2, <3>3
    <2> DEFINE v == [i \in 0..Passes |-> IF i = 0 THEN links ELSE Step(w[i - 1])]
    <2>2. w = [i \in 0..Passes |-> w[i]]
      OBVIOUS
    <2> HIDE DEF w
    <2> QED  BY <2>1, <2>2
  <1>10. Loop(loop)
    <2> HIDE DEF Loop, w
    <2> QED  BY <1>9
  <1> HIDE DEF loop, w
  <1>11. \A i \in 0..Passes : loop[i] = w[i]
    <2>1. 0 \in 0..Passes /\ \A i \in 1..Passes : i \in 0..Passes /\ i # 0
      BY <1>2
    <2>2. loop[0] = w[0]
      BY <1>9, <1>10, <2>1
    <2>3. ASSUME NEW i \in 1..Passes, loop[i - 1] = w[i - 1] PROVE loop[i] = w[i]
      <3>1. loop[i] = Step(loop[i - 1])
        BY <1>10, <2>1
      <3>2. w[i] = Step(w[i - 1])
        BY <1>9, <2>1
      <3> QED  BY <2>3, <3>1, <3>2
    <2>4. \A i \in 1..Passes : loop[i - 1] = w[i - 1] => loop[i] = w[i]
      BY <2>3
    <2> HIDE DEF Loop
    <2>5. GoOnAlike(loop, w, Passes)
      BY <2>2, <2>4 DEF GoOnAlike
    <2>6. SameValues(loop, w, Passes)
      BY <2>5, PassesNat, AlikeSame
    <2> QED  BY <2>6 DEF SameValues
  <1>12. Is(loop[Passes], Passes)
    <2>1. Passes \in 0..Passes
      BY <1>2
    <2> QED  BY <1>7, <1>11, <2>1
  <1>13. M(Passes) = 0
    BY <1>2
  <1>14. Cut(qs[l], 0) = <<>>
    BY DEF Cut
  <1> HIDE DEF M
  <1>15. Rings(loop[Passes], Replaced(qs, l, <<>>))
    BY <1>12, <1>13, <1>14 DEF Is, CutIn
  <1> QED  BY <1>3, <1>15, AssignRings

-----------------------------------------------------------------------------
(* Where a node is. *)

(* Node::list tells where a node is linked.                                  *)
LEMMA WhereLinked ==
  ASSUME NEW k, NEW qs, Rings(k, qs), NEW p \in Pointer, NEW l \in ListName, k.list[p] = l
  PROVE  \E i \in 0..Len(qs[l]) : p = At(qs[l], l, i)
  <1>1. Family(qs)
    BY DEF Rings
  <1>2. CASE p \in NodeName /\ Free(qs, p)
    <2>1. Alone(k, p)
      BY <1>2, RingsParts
    <2> QED  BY <2>1, NamesApart DEF Alone
  <1>3. ASSUME NEW m \in ListName, NEW i \in 0..Len(qs[m]), p = At(qs[m], m, i)
        PROVE  m = l
    BY <1>3, InRing
  <1> QED  BY <1>1, <1>2, <1>3, SomePlace

(* A node of the list is one of the elements.                                *)
LEMMA WhereElement ==
  ASSUME NEW k, NEW qs, Rings(k, qs), NEW x \in NodeName, NEW l \in ListName, k.list[x] = l
  PROVE  \E n \in 1..Len(qs[l]) : x = qs[l][n]
  <1>1. qs[l] \in Seq(NodeName) /\ Len(qs[l]) \in Nat
    BY ShortList DEF Rings
  <1>2. x \in Pointer
    BY NamesApart
  <1>3. PICK i \in 0..Len(qs[l]) : x = At(qs[l], l, i)
    BY <1>2, WhereLinked
  <1>4. i # 0
    BY <1>1, <1>3, AtPositions, NamesApart
  <1>5. i \in 1..Len(qs[l])
    BY <1>1, <1>4
  <1>6. At(qs[l], l, i) = qs[l][i]
    BY <1>5 DEF At
  <1> QED  BY <1>3, <1>5, <1>6

(* A node of no list is free.                                                *)
LEMMA WhereFree ==
  ASSUME NEW k, NEW qs, Rings(k, qs), NEW x \in NodeName,
         k.list[x] = NoList \/ k.next[x] = x
  PROVE  Free(qs, x)
  <1>1. Family(qs)
    BY DEF Rings
  <1>2. ASSUME NEW l \in ListName, NEW i \in 0..Len(qs[l]), x = At(qs[l], l, i)
        PROVE  FALSE
    <2>1. qs[l] \in Seq(NodeName) /\ Len(qs[l]) \in Nat
      BY <1>1, ShortList
    <2>2. k.list[x] = l /\ k.next[x] = At(qs[l], l, i + 1)
      BY <1>2, InRing
    <2>3. i # 0
      BY <1>2, <2>1, AtPositions, NamesApart
    <2>4. i \in 1..(Len(qs[l]) + 1) /\ i + 1 \in 1..(Len(qs[l]) + 1) /\ i # i + 1
      BY <2>1, <2>3
    <2>5. k.next[x] # x
      BY <1>1, <1>2, <2>2, <2>4, OnePlaceAfter
    <2> QED  BY <2>2, <2>5, NamesApart
  <1>3. x \in Pointer
    BY NamesApart
  <1> QED  BY <1>1, <1>2, <1>3, SomePlace

-----------------------------------------------------------------------------
(* The operations. *)

(* size() counts the elements.                                               *)
Counts(c, qs) == c = [l \in ListName |-> Len(qs[l])]

(* A list that changes is counted again.                                     *)
LEMMA CountsReplaced ==
  ASSUME NEW qs, Family(qs), NEW c, Counts(c, qs), NEW l \in ListName, NEW r, NEW d,
         Len(r) = d
  PROVE  Counts([c EXCEPT ![l] = d], Replaced(qs, l, r))
  <1>1. \A m \in ListName : Replaced(qs, l, r)[m] = IF m = l THEN r ELSE qs[m]
    BY ReplacedAt
  <1> QED  BY <1>1 DEF Counts

(* insert, push_back and push_front.                                         *)
LEMMA InsertStep ==
  ASSUME NEW qs, Rings(links, qs), Counts(listCount, qs), NEW l \in ListName, NEW x \in NodeName,
         NEW pos \in Pointer, insertBefore(l, pos, x)
  PROVE  /\ Free(qs, x)
         /\ \E p \in 1..(Len(qs[l]) + 1) :
              LET qs2 == Replaced(qs, l, Promise!InsertAt(qs[l], p, x))
              IN  Rings(links', qs2) /\ Counts(listCount', qs2)
  <1> DEFINE q == qs[l]
  <1>1. Family(qs)
    BY DEF Rings
  <1>2. q \in Seq(NodeName) /\ Len(q) \in Nat
    BY <1>1, ShortList
  <1>3. /\ links.next[x] = x /\ links.list[pos] = l
        /\ listCount' = [listCount EXCEPT ![l] = listCount[l] + 1]
        /\ Assign(InsertNode(links, pos, x))
    BY DEF insertBefore, Insertable, links
  <1>4. Free(qs, x)
    BY <1>3, WhereFree
  <1>5. PICK i \in 0..Len(q) : pos = At(q, l, i)
    BY <1>3, WhereLinked
  <1>6. PICK p \in 1..(Len(q) + 1) : pos = At(q, l, p)
    <2>1. CASE i = 0
      <3>1. At(q, l, 0) = At(q, l, Len(q) + 1) /\ Len(q) + 1 \in 1..(Len(q) + 1)
        BY <1>2, AtPositions
      <3> QED  BY <1>5, <2>1, <3>1
    <2>2. CASE i # 0
      <3>1. i \in 1..(Len(q) + 1)
        BY <1>2, <2>2
      <3> QED  BY <1>5, <3>1
    <2> QED  BY <2>1, <2>2
  <1> DEFINE r == Promise!InsertAt(qs[l], p, x)
             qs2 == Replaced(qs, l, r)
  <1>7. WithIn(q, p, x, r)
    BY <1>2, InsertAtWithIn
  <1>8. Len(r) = Len(q) + 1
    BY <1>7 DEF WithIn
  <1>9. listCount[l] = Len(q)
    BY DEF Counts
  <1> HIDE DEF r
  <1>10. Rings(InsertNode(links, pos, x), qs2)
    BY <1>4, <1>6, <1>7, InsertRings
  <1>11. Rings(links', qs2)
    BY <1>3, <1>10, AssignRings
  <1>12. Counts(listCount', qs2)
    BY <1>1, <1>3, <1>8, <1>9, CountsReplaced
  <1> QED  BY <1>4, <1>11, <1>12 DEF r

(* Taking the element at n out, as remove and pop do.                        *)
LEMMA EraseStep ==
  ASSUME NEW qs, Rings(links, qs), Counts(listCount, qs), NEW l \in ListName,
         NEW n \in 1..Len(qs[l]), Assign(UnlinkNode(links, qs[l][n])),
         listCount' = [listCount EXCEPT ![l] = listCount[l] - 1]
  PROVE  /\ qs[l][n] \in Elements(qs[l])
         /\ Rings(links', Replaced(qs, l, Unlink(qs[l], qs[l][n])))
         /\ Counts(listCount', Replaced(qs, l, Unlink(qs[l], qs[l][n])))
  <1> DEFINE q == qs[l]
             t == Taken(qs[l], n)
  <1>1. Family(qs) /\ Linked(q)
    BY FamilyLinked DEF Rings
  <1>2. q \in Seq(NodeName) /\ Len(q) \in Nat
    BY <1>1, ShortList
  <1>3. Unlink(q, q[n]) = t /\ q[n] \in Elements(q)
    BY <1>1, <1>2, UnlinkTaken
  <1>4. Without(q, n, t) /\ Len(t) = Len(q) - 1
    BY <1>2, TakenWithout
  <1> HIDE DEF t
  <1>5. Rings(UnlinkNode(links, q[n]), Replaced(qs, l, t))
    BY <1>4, UnlinkRings
  <1>6. Rings(links', Replaced(qs, l, t))
    BY <1>5, AssignRings
  <1>7. listCount[l] = Len(q)
    BY DEF Counts
  <1>8. Counts(listCount', Replaced(qs, l, t))
    BY <1>1, <1>4, <1>7, CountsReplaced
  <1> QED  BY <1>3, <1>6, <1>8

(* remove: of a node of the list, or of one that is in no list.              *)
LEMMA RemoveStep ==
  ASSUME NEW qs, Rings(links, qs), Counts(listCount, qs), NEW l \in ListName, NEW x \in NodeName,
         removeNode(l, x)
  PROVE  \/ /\ x \in Elements(qs[l])
            /\ Rings(links', Replaced(qs, l, Unlink(qs[l], x)))
            /\ Counts(listCount', Replaced(qs, l, Unlink(qs[l], x)))
         \/ Rings(links', qs) /\ Counts(listCount', qs)
  <1>1. CASE nodeList[x] = l
    <2>1. Assign(UnlinkNode(links, x)) /\ listCount' = [listCount EXCEPT ![l] = listCount[l] - 1]
      BY <1>1 DEF removeNode, contains
    <2>2. links.list[x] = l
      BY <1>1 DEF links
    <2>3. PICK n \in 1..Len(qs[l]) : x = qs[l][n]
      BY <2>2, WhereElement
    <2> QED  BY <2>1, <2>3, EraseStep
  <1>2. CASE nodeList[x] = NoList
    <2>1. Assign(UnlinkNode(links, x)) /\ listCount' = [listCount EXCEPT ![l] = listCount[l] - 0]
      BY <1>2, NamesApart DEF removeNode, contains
    <2>2. links.list[x] = NoList
      BY <1>2 DEF links
    <2>3. IsLinks(links) /\ Alone(links, x)
      BY <2>2, WhereFree, RingsParts
    <2>4. UnlinkNode(links, x) = links
      BY <2>3, UnlinkAlone
    <2>5. Rings(links', qs)
      BY <2>1, <2>4, AssignRings
    <2>6. listCount' = listCount
      <3>1. Len(qs[l]) \in Nat
        BY ShortList DEF Rings
      <3>2. listCount[l] - 0 = listCount[l] /\ listCount = [m \in ListName |-> listCount[m]]
        BY <3>1 DEF Counts
      <3> QED  BY <2>1, <3>2
    <2> QED  BY <2>5, <2>6
  <1> QED  BY <1>1, <1>2 DEF removeNode

(* pop_front and pop_back.                                                   *)
LEMMA PopStep ==
  ASSUME NEW qs, Rings(links, qs), Counts(listCount, qs), NEW l \in ListName, NEW x \in NodeName,
         popNode(l, x)
  PROVE  /\ x \in Elements(qs[l])
         /\ Rings(links', Replaced(qs, l, Unlink(qs[l], x)))
         /\ Counts(listCount', Replaced(qs, l, Unlink(qs[l], x)))
  <1> DEFINE q == qs[l]
  <1>1. Len(q) \in Nat /\ q \in Seq(NodeName)
    BY ShortList DEF Rings
  <1>2. Assign(UnlinkNode(links, x)) /\ listCount' = [listCount EXCEPT ![l] = listCount[l] - 1]
    BY DEF popNode
  <1>3. x \in {links.next[l], links.prev[l]} /\ x # l
    BY DEF popNode, links
  <1>4. links.next[l] = At(q, l, 1) /\ links.prev[l] = At(q, l, Len(q))
    <2>1. At(q, l, 0) = l /\ At(q, l, Len(q) + 1) = l
      BY <1>1, AtPositions
    <2>2. 0 \in 0..Len(q) /\ Len(q) + 1 \in 1..(Len(q) + 1) /\ 0 + 1 = 1 /\ (Len(q) + 1) - 1 = Len(q)
      BY <1>1
    <2>3. links.next[At(q, l, 0)] = At(q, l, 0 + 1)
      BY <2>2, InRing
    <2>4. links.prev[At(q, l, Len(q) + 1)] = At(q, l, (Len(q) + 1) - 1)
      BY <2>2, RootAgain
    <2> QED  BY <2>1, <2>2, <2>3, <2>4
  <1>5. PICK n \in 1..Len(q) : x = q[n]
    BY <1>3, <1>4 DEF At
  <1> QED  BY <1>2, <1>5, EraseStep

(* What a reordering leaves.                                                 *)
LEMMA ReorderCounts ==
  ASSUME NEW qs, Family(qs), Counts(listCount, qs), NEW l \in ListName, NEW r,
         Len(r) = Len(qs[l]), UNCHANGED listCount
  PROVE  Counts(listCount', Replaced(qs, l, r))
  <1>1. \A m \in ListName : Replaced(qs, l, r)[m] = IF m = l THEN r ELSE qs[m]
    BY ReplacedAt
  <1> QED  BY <1>1 DEF Counts

(* prioritize.                                                               *)
LEMMA PrioritizeStep ==
  ASSUME NEW qs, Rings(links, qs), Counts(listCount, qs), NEW l \in ListName, NEW x \in NodeName,
         prioritize(l, x)
  PROVE  /\ x \in Elements(qs[l])
         /\ Rings(links', Replaced(qs, l, Prioritize(qs[l], x, nodeKey)))
         /\ Counts(listCount', Replaced(qs, l, Prioritize(qs[l], x, nodeKey)))
  <1> DEFINE q == qs[l]
  <1>1. Family(qs) /\ Linked(q)
    BY FamilyLinked DEF Rings
  <1>2. q \in Seq(NodeName) /\ Len(q) \in Nat
    BY <1>1, ShortList
  <1>3. links.list[x] = l /\ UNCHANGED listCount
    BY DEF prioritize, MoveNode, contains, links
  <1>4. PICK n \in 1..Len(q) : x = q[n]
    BY <1>3, WhereElement
  <1> DEFINE p == CHOOSE i \in 1..n : IsPriorPosition(q, n, nodeKey, i)
             r == MoveUp(qs[l], n, p)
             t == Taken(qs[l], n)
  <1>5. p \in 1..n /\ IsPriorPosition(q, n, nodeKey, p)
    <2>1. n \in Nat /\ n >= 1
      BY <1>2
    <2>2. \E i \in 1..n : IsPriorPosition(q, n, nodeKey, i)
      BY <2>1, PriorPositionExists
    <2> QED  BY <2>2
  <1>6. Position(q, x) = n /\ x \in Elements(q)
    BY <1>1, <1>2, <1>4, UnlinkTaken
  <1>7. Prioritize(q, x, nodeKey) = r
    BY <1>6 DEF Prioritize
  <1> HIDE DEF p
  <1>8. PriorStop(l, x) = q[p]
    BY <1>4, <1>5, PriorStopAt
  <1>9. WithIn(t, p, x, r) /\ (p = n => r = q)
    BY <1>1, <1>2, <1>4, <1>5, MoveUpWithIn
  <1>10. Len(r) = Len(q)
    BY <1>1, <1>2, <1>5, MoveUpLemma
  <1> HIDE DEF r
  <1>11. IF q[p] = x THEN Assign(links) ELSE Assign(InsertNode(UnlinkNode(links, x), q[p], x))
    BY <1>8 DEF prioritize, MoveNode
  <1>12. Rings(links', Replaced(qs, l, r))
    <2>1. CASE q[p] = x
      <3>1. p \in 1..Len(q)
        BY <1>2, <1>5
      <3>2. p = n
        BY <1>1, <1>4, <2>1, <3>1 DEF Linked
      <3>3. Replaced(qs, l, r) = qs
        BY <1>1, <1>9, <3>2, ReplacedTwice
      <3> QED  BY <1>11, <2>1, <3>3, AssignRings
    <2>2. CASE q[p] # x
      <3>1. p < n /\ p \in 0..Len(q) /\ p \in 1..Len(q)
        BY <1>2, <1>4, <1>5, <2>2
      <3>2. Without(q, n, t)
        BY <1>2, TakenWithout
      <3> HIDE DEF t
      <3>3. At(t, l, p) = At(q, l, p)
        BY <1>2, <3>1, <3>2, WithoutPositions
      <3>4. At(q, l, p) = q[p]
        BY <3>1 DEF At
      <3>5. Rings(InsertNode(UnlinkNode(links, x), At(t, l, p), x), Replaced(qs, l, r))
        BY <1>4, <1>9, MoveRings DEF t
      <3> QED  BY <1>11, <2>2, <3>3, <3>4, <3>5, AssignRings
    <2> QED  BY <2>1, <2>2
  <1>13. Counts(listCount', Replaced(qs, l, r))
    BY <1>1, <1>3, <1>10, ReorderCounts
  <1> QED  BY <1>6, <1>7, <1>12, <1>13

(* deprioritize.                                                             *)
LEMMA DeprioritizeStep ==
  ASSUME NEW qs, Rings(links, qs), Counts(listCount, qs), NEW l \in ListName, NEW x \in NodeName,
         deprioritize(l, x)
  PROVE  /\ x \in Elements(qs[l])
         /\ Rings(links', Replaced(qs, l, Deprioritize(qs[l], x, nodeKey)))
         /\ Counts(listCount', Replaced(qs, l, Deprioritize(qs[l], x, nodeKey)))
  <1> DEFINE q == qs[l]
  <1>1. Family(qs) /\ Linked(q)
    BY FamilyLinked DEF Rings
  <1>2. q \in Seq(NodeName) /\ Len(q) \in Nat
    BY <1>1, ShortList
  <1>3. links.list[x] = l /\ UNCHANGED listCount
    BY DEF deprioritize, MoveNode, contains, links
  <1>4. PICK n \in 1..Len(q) : x = q[n]
    BY <1>3, WhereElement
  <1> DEFINE p == CHOOSE i \in (n + 1)..(Len(q) + 1) : IsPosteriorPosition(q, n, nodeKey, i)
             r == MoveDown(qs[l], n, p)
             t == Taken(qs[l], n)
  <1>5. p \in (n + 1)..(Len(q) + 1) /\ IsPosteriorPosition(q, n, nodeKey, p)
    <2>1. \E i \in (n + 1)..(Len(q) + 1) : IsPosteriorPosition(q, n, nodeKey, i)
      BY <1>2, PosteriorPositionExists
    <2> QED  BY <2>1
  <1>6. Position(q, x) = n /\ x \in Elements(q)
    BY <1>1, <1>2, <1>4, UnlinkTaken
  <1>7. Deprioritize(q, x, nodeKey) = r
    BY <1>6 DEF Deprioritize
  <1> HIDE DEF p
  <1>8. PosteriorStop(l, x) = At(q, l, p)
    BY <1>4, <1>5, PosteriorStopAt
  <1>9. WithIn(t, p - 1, x, r) /\ (p = n + 1 => r = q)
    BY <1>1, <1>2, <1>4, <1>5, MoveDownWithIn
  <1>10. Len(r) = Len(q)
    BY <1>1, <1>2, <1>5, MoveDownLemma
  <1> HIDE DEF r
  <1>11. nextNode[x] = At(q, l, n + 1)
    <2>1. n \in 0..Len(q) /\ At(q, l, n) = x
      BY <1>2, <1>4 DEF At
    <2>2. links.next[x] = At(q, l, n + 1)
      BY <2>1, InRing
    <2> QED  BY <2>2 DEF links
  <1>12. IF At(q, l, p) = At(q, l, n + 1) THEN Assign(links)
         ELSE Assign(InsertNode(UnlinkNode(links, x), At(q, l, p), x))
    BY <1>8, <1>11 DEF deprioritize, MoveNode
  <1>13. p \in 1..(Len(q) + 1) /\ n + 1 \in 1..(Len(q) + 1)
    BY <1>2, <1>5
  <1>14. Rings(links', Replaced(qs, l, r))
    <2>1. CASE At(q, l, p) = At(q, l, n + 1)
      <3>1. p = n + 1
        BY <1>1, <1>13, <2>1, OnePlaceAfter
      <3>2. Replaced(qs, l, r) = qs
        BY <1>1, <1>9, <3>1, ReplacedTwice
      <3> QED  BY <1>12, <2>1, <3>2, AssignRings
    <2>2. CASE At(q, l, p) # At(q, l, n + 1)
      <3>1. p - 1 \in 0..Len(q) /\ ~(p - 1 < n) /\ (p - 1) + 1 = p
        BY <1>2, <1>5
      <3>2. Without(q, n, t)
        BY <1>2, TakenWithout
      <3> HIDE DEF t
      <3>3. At(t, l, p - 1) = At(q, l, p)
        BY <1>2, <3>1, <3>2, WithoutPositions
      <3>4. Rings(InsertNode(UnlinkNode(links, x), At(t, l, p - 1), x), Replaced(qs, l, r))
        BY <1>4, <1>9, MoveRings DEF t
      <3> QED  BY <1>12, <2>2, <3>3, <3>4, AssignRings
    <2> QED  BY <2>1, <2>2
  <1>15. Counts(listCount', Replaced(qs, l, r))
    BY <1>1, <1>3, <1>10, ReorderCounts
  <1> QED  BY <1>6, <1>7, <1>14, <1>15

(* clear.                                                                    *)
LEMMA ClearStep ==
  ASSUME NEW qs, Rings(links, qs), Counts(listCount, qs), NEW l \in ListName, clearList(l)
  PROVE  /\ Rings(links', Replaced(qs, l, <<>>))
         /\ Counts(listCount', Replaced(qs, l, <<>>))
  <1>1. Family(qs)
    BY DEF Rings
  <1>2. listCount' = [listCount EXCEPT ![l] = 0] /\ Len(<<>>) = 0
    BY DEF clearList
  <1>3. Counts(listCount', Replaced(qs, l, <<>>))
    BY <1>1, <1>2, CountsReplaced
  <1> QED  BY <1>3, ClearRings

(* The constructors leave empty rings.                                       *)
LEMMA EmptyRings ==
  ASSUME NodesInit
  PROVE  /\ Rings(links, [l \in ListName |-> <<>>])
         /\ Counts(listCount, [l \in ListName |-> <<>>])
  <1> DEFINE none == [l \in ListName |-> <<>>]
  <1>1. \A l \in ListName : none[l] = <<>> /\ Len(none[l]) = 0
    OBVIOUS
  <1>2. Family(none)
    <2>1. none \in [ListName -> Seq(NodeName)]
      OBVIOUS
    <2>2. \A l \in ListName : 1..Len(none[l]) = {}
      BY <1>1
    <2> HIDE DEF none
    <2> QED  BY <2>1, <2>2 DEF Family
  <1>3. /\ links.next = [p \in Pointer |-> p] /\ links.prev = [p \in Pointer |-> p]
        /\ links.list = [p \in Pointer |-> IF p \in ListName THEN p ELSE NoList]
        /\ links = [next |-> links.next, prev |-> links.prev, list |-> links.list]
    BY DEF NodesInit, links
  <1>4. IsLinks(links)
    <2> DEFINE f == [p \in Pointer |-> IF p \in ListName THEN p ELSE NoList]
    <2>1. [p \in Pointer |-> p] \in [Pointer -> Pointer] /\ f \in [Pointer -> ListName \cup {NoList}]
      OBVIOUS
    <2> QED  BY <1>3, <2>1 DEF IsLinks
  <1>5. ASSUME NEW l \in ListName PROVE RingOf(links, none[l], l)
    <2>1. \A i : At(none[l], l, i) = l
      BY <1>1 DEF At
    <2>2. l \in Pointer
      BY NamesApart
    <2>3. links.next[l] = l /\ links.prev[l] = l /\ links.list[l] = l
      BY <1>3, <2>2
    <2> HIDE DEF none
    <2> QED  BY <2>1, <2>3 DEF RingOf
  <1>6. ASSUME NEW x \in NodeName PROVE Alone(links, x)
    <2>1. x \in Pointer /\ x \notin ListName
      BY NamesApart
    <2> QED  BY <1>3, <2>1 DEF Alone
  <1>7. Rings(links, none)
    <2> HIDE DEF none
    <2> QED  BY <1>2, <1>4, <1>5, <1>6 DEF Rings
  <1>8. Counts(listCount, none)
    BY <1>1 DEF Counts, NodesInit
  <1> QED  BY <1>7, <1>8

-----------------------------------------------------------------------------
(* The theorem. *)

(* The sequences found along the next links.                                 *)
View(next) == [l \in ListName |-> Walk(next, l)]

(* The sequences of the rings are those that a walk along them meets.        *)
LEMMA ViewRings ==
  ASSUME NEW k, NEW qs, Rings(k, qs)
  PROVE  View(k.next) = qs
  <1>1. qs = [l \in ListName |-> qs[l]]
    <2>1. qs \in [ListName -> Seq(NodeName)]
      BY DEF Rings, Family
    <2> QED  BY <2>1
  <1>2. \A l \in ListName : Walk(k.next, l) = qs[l]
    BY WalkRing
  <1> QED  BY <1>1, <1>2 DEF View

(* The inductive invariant: the links form the rings of what a walk meets,    *)
(* and size() counts it.                                                     *)
NodesInv == Rings(links, View(nextNode)) /\ Counts(listCount, View(nextNode))

(* Any sequences whose rings the links form are those of the invariant.      *)
LEMMA SomeRings ==
  ASSUME NEW qs, Rings(links, qs), Counts(listCount, qs)
  PROVE  NodesInv /\ View(nextNode) = qs
  <1>1. links.next = nextNode
    BY DEF links
  <1>2. View(nextNode) = qs
    BY <1>1, ViewRings
  <1> QED  BY <1>2 DEF NodesInv

(* Its parts.                                                                *)
LEMMA RingsWellLinked ==
  ASSUME NodesInv
  PROVE  WellLinked
  <1> DEFINE qs == View(nextNode)
  <1>0. Rings(links, qs) /\ Counts(listCount, qs)
    BY DEF NodesInv
  <1>1. \A l \in ListName : AsSequence(l) = qs[l]
    BY DEF View, AsSequence
  <1> HIDE DEF qs
  <1>2. Family(qs) /\ IsLinks(links)
    BY <1>0 DEF Rings
  <1>3. ASSUME NEW p \in Pointer
        PROVE  links.prev[links.next[p]] = p /\ links.next[links.prev[p]] = p
    <2>1. CASE p \in NodeName /\ Free(qs, p)
      <3>1. Alone(links, p)
        BY <1>0, <2>1, RingsParts
      <3> QED  BY <3>1 DEF Alone
    <2>2. ASSUME NEW l \in ListName, NEW i \in 0..Len(qs[l]), p = At(qs[l], l, i)
          PROVE  links.prev[links.next[p]] = p /\ links.next[links.prev[p]] = p
      <3>1. links.prev[links.next[p]] = p
        BY <1>0, <2>2, InRing
      <3>2. qs[l] \in Seq(NodeName) /\ Len(qs[l]) \in Nat
        BY <1>2, ShortList
      <3>3. PICK j \in 1..(Len(qs[l]) + 1) : p = At(qs[l], l, j)
        <4>1. CASE i = 0
          <5>1. At(qs[l], l, 0) = At(qs[l], l, Len(qs[l]) + 1)
                /\ Len(qs[l]) + 1 \in 1..(Len(qs[l]) + 1)
            BY <3>2, AtPositions
          <5> QED  BY <2>2, <4>1, <5>1
        <4>2. CASE i # 0
          <5>1. i \in 1..(Len(qs[l]) + 1)
            BY <3>2, <4>2
          <5> QED  BY <2>2, <5>1
        <4> QED  BY <4>1, <4>2
      <3>4. links.prev[p] = At(qs[l], l, j - 1)
        BY <1>0, <3>3, RootAgain
      <3>5. j - 1 \in 0..Len(qs[l]) /\ (j - 1) + 1 = j
        BY <3>2
      <3>6. links.next[At(qs[l], l, j - 1)] = At(qs[l], l, (j - 1) + 1)
        BY <1>0, <3>5, InRing
      <3> QED  BY <3>1, <3>3, <3>4, <3>5, <3>6
    <2> QED  BY <1>2, <2>1, <2>2, SomePlace
  <1>4. ASSUME NEW l \in ListName
        PROVE  LET q == AsSequence(l) IN
               /\ {q[i] : i \in 1..Len(q)} = {x \in NodeName : nodeList[x] = l}
               /\ listCount[l] = Len(q)
    <2> DEFINE q == qs[l]
    <2>1. q \in Seq(NodeName) /\ Len(q) \in Nat
      BY <1>2, ShortList
    <2>2. ASSUME NEW i \in 1..Len(q) PROVE q[i] \in NodeName /\ links.list[q[i]] = l
      <3>1. i \in 0..Len(q) /\ At(q, l, i) = q[i]
        BY <2>1 DEF At
      <3>2. links.list[At(q, l, i)] = l
        BY <1>0, <3>1, InRing
      <3> QED  BY <2>1, <3>1, <3>2
    <2>3. ASSUME NEW x \in NodeName, links.list[x] = l PROVE \E i \in 1..Len(q) : x = q[i]
      BY <1>0, <2>3, WhereElement
    <2>4. links.list = nodeList
      BY DEF links
    <2>5. listCount[l] = Len(q)
      BY <1>0 DEF Counts
    <2> HIDE DEF q
    <2>6. {q[i] : i \in 1..Len(q)} = {x \in NodeName : nodeList[x] = l}
      BY <2>2, <2>3, <2>4
    <2> QED  BY <1>1, <2>5, <2>6 DEF q
  <1>5. ASSUME NEW x \in NodeName, nodeList[x] = NoList
        PROVE  nextNode[x] = x /\ prevNode[x] = x
    <2>1. links.list[x] = NoList
      BY <1>5 DEF links
    <2>2. Alone(links, x)
      BY <1>0, <2>1, WhereFree, RingsParts
    <2> QED  BY <2>2 DEF Alone, links
  <1>6. links.next = nextNode /\ links.prev = prevNode
    BY DEF links
  <1> QED  BY <1>3, <1>4, <1>5, <1>6 DEF WellLinked

(* ListSpec has its own instances of the operators on lists.                 *)
LEMMA SameOperators ==
  ASSUME NEW q, NEW x
  PROVE  /\ Promise!Elements(q) = Elements(q)
         /\ Promise!Unlink(q, x) = Unlink(q, x)
         /\ Promise!Prioritize(q, x, nodeKey) = Prioritize(q, x, nodeKey)
         /\ Promise!Deprioritize(q, x, nodeKey) = Deprioritize(q, x, nodeKey)
  <1>1. Promise!Elements(q) = Elements(q)
    BY DEF Promise!Elements, Elements
  <1>2. Promise!Position(q, x) = Position(q, x)
    BY DEF Promise!Position, Position
  <1>3. Promise!Unlink(q, x) = Unlink(q, x)
    BY <1>1, <1>2 DEF Promise!Unlink, Unlink
  <1>4. \A k, p : Promise!MoveUp(q, k, p) = MoveUp(q, k, p)
                  /\ Promise!MoveDown(q, k, p) = MoveDown(q, k, p)
    BY DEF Promise!MoveUp, MoveUp, Promise!MoveDown, MoveDown
  <1>5. Promise!Prioritize(q, x, nodeKey) = Prioritize(q, x, nodeKey)
    <2>1. \A k, p : Promise!IsPriorPosition(q, k, nodeKey, p) = IsPriorPosition(q, k, nodeKey, p)
      BY DEF Promise!IsPriorPosition, IsPriorPosition
    <2> QED  BY <1>2, <1>4, <2>1 DEF Promise!Prioritize, Prioritize
  <1>6. Promise!Deprioritize(q, x, nodeKey) = Deprioritize(q, x, nodeKey)
    <2>1. \A k, p : Promise!IsPosteriorPosition(q, k, nodeKey, p) = IsPosteriorPosition(q, k, nodeKey, p)
      BY DEF Promise!IsPosteriorPosition, IsPosteriorPosition
    <2> QED  BY <1>2, <1>4, <2>1 DEF Promise!Deprioritize, Deprioritize
  <1> QED  BY <1>1, <1>3, <1>5, <1>6

(* A step of the lists, as ListSpec takes it.                                *)
ListStep(qs, qs2) ==
  \/ qs2 = qs
  \/ \E l \in ListName :
       \/ qs2 = Replaced(qs, l, <<>>)
       \/ \E x \in NodeName :
            \/ /\ Free(qs, x)
               /\ \E p \in 1..(Len(qs[l]) + 1) : qs2 = Replaced(qs, l, Promise!InsertAt(qs[l], p, x))
            \/ /\ x \in Elements(qs[l])
               /\ \/ qs2 = Replaced(qs, l, Unlink(qs[l], x))
                  \/ qs2 = Replaced(qs, l, Prioritize(qs[l], x, nodeKey))
                  \/ qs2 = Replaced(qs, l, Deprioritize(qs[l], x, nodeKey))

(* The links are the rings of sequences that qs may step to.                 *)
Stepped(qs) == \E qs2 : Rings(links', qs2) /\ Counts(listCount', qs2) /\ ListStep(qs, qs2)

(* Every operation on the nodes is an operation on the sequences.            *)
LEMMA NodesStep ==
  ASSUME NEW qs, Rings(links, qs), Counts(listCount, qs), [NodesNext]_nodeVars
  PROVE  Stepped(qs)
  <1>1. CASE UNCHANGED nodeVars
    <2>1. links' = links /\ listCount' = listCount
      BY <1>1 DEF nodeVars, links
    <2>2. ListStep(qs, qs)
      BY DEF ListStep
    <2> QED  BY <2>1, <2>2 DEF Stepped
  <1>2. ASSUME NEW l \in ListName, clearList(l) PROVE Stepped(qs)
    <2> DEFINE qs2 == Replaced(qs, l, <<>>)
    <2>1. Rings(links', qs2) /\ Counts(listCount', qs2)
      BY <1>2, ClearStep
    <2>2. ListStep(qs, qs2)
      BY DEF ListStep
    <2> QED  BY <2>1, <2>2 DEF Stepped
  <1>3. ASSUME NEW l \in ListName, NEW x \in NodeName, NEW qs2, x \in Elements(qs[l]),
               \/ qs2 = Replaced(qs, l, Unlink(qs[l], x))
               \/ qs2 = Replaced(qs, l, Prioritize(qs[l], x, nodeKey))
               \/ qs2 = Replaced(qs, l, Deprioritize(qs[l], x, nodeKey)),
               Rings(links', qs2), Counts(listCount', qs2)
        PROVE  Stepped(qs)
    <2>1. ListStep(qs, qs2)
      BY <1>3 DEF ListStep
    <2> QED  BY <1>3, <2>1 DEF Stepped
  <1>4. ASSUME NEW l \in ListName, NEW x \in NodeName, removeNode(l, x) PROVE Stepped(qs)
    <2>1. CASE Rings(links', qs) /\ Counts(listCount', qs)
      <3>1. ListStep(qs, qs)
        BY DEF ListStep
      <3> QED  BY <2>1, <3>1 DEF Stepped
    <2>2. CASE ~(Rings(links', qs) /\ Counts(listCount', qs))
      <3>1. /\ x \in Elements(qs[l])
            /\ Rings(links', Replaced(qs, l, Unlink(qs[l], x)))
            /\ Counts(listCount', Replaced(qs, l, Unlink(qs[l], x)))
        BY <1>4, <2>2, RemoveStep
      <3> QED  BY <1>3, <3>1
    <2> QED  BY <2>1, <2>2
  <1>5. ASSUME NEW l \in ListName, NEW x \in NodeName, popNode(l, x) PROVE Stepped(qs)
    <2>1. /\ x \in Elements(qs[l])
          /\ Rings(links', Replaced(qs, l, Unlink(qs[l], x)))
          /\ Counts(listCount', Replaced(qs, l, Unlink(qs[l], x)))
      BY <1>5, PopStep
    <2> QED  BY <1>3, <2>1
  <1>6. ASSUME NEW l \in ListName, NEW x \in NodeName, prioritize(l, x) PROVE Stepped(qs)
    <2>1. /\ x \in Elements(qs[l])
          /\ Rings(links', Replaced(qs, l, Prioritize(qs[l], x, nodeKey)))
          /\ Counts(listCount', Replaced(qs, l, Prioritize(qs[l], x, nodeKey)))
      BY <1>6, PrioritizeStep
    <2> QED  BY <1>3, <2>1
  <1>7. ASSUME NEW l \in ListName, NEW x \in NodeName, deprioritize(l, x) PROVE Stepped(qs)
    <2>1. /\ x \in Elements(qs[l])
          /\ Rings(links', Replaced(qs, l, Deprioritize(qs[l], x, nodeKey)))
          /\ Counts(listCount', Replaced(qs, l, Deprioritize(qs[l], x, nodeKey)))
      BY <1>7, DeprioritizeStep
    <2> QED  BY <1>3, <2>1
  <1>8. ASSUME NEW l \in ListName, NEW x \in NodeName, NEW pos \in Pointer, insertBefore(l, pos, x)
        PROVE  Stepped(qs)
    <2>1. Free(qs, x)
      BY <1>8, InsertStep
    <2>2. PICK p \in 1..(Len(qs[l]) + 1) :
            /\ Rings(links', Replaced(qs, l, Promise!InsertAt(qs[l], p, x)))
            /\ Counts(listCount', Replaced(qs, l, Promise!InsertAt(qs[l], p, x)))
      BY <1>8, InsertStep
    <2>3. ListStep(qs, Replaced(qs, l, Promise!InsertAt(qs[l], p, x)))
      BY <2>1 DEF ListStep
    <2> QED  BY <2>2, <2>3 DEF Stepped
  <1> QED  BY <1>1, <1>2, <1>4, <1>5, <1>6, <1>7, <1>8 DEF NodesNext

(* The rings stay whole, and each call changes the lists as ListSpec says.   *)
LEMMA NodesInvStep ==
  ASSUME NodesInv, [NodesNext]_nodeVars
  PROVE  NodesInv' /\ ListStep(View(nextNode), View(nextNode)')
  <1> DEFINE qs == View(nextNode)
  <1>1. Stepped(qs)
    BY NodesStep DEF NodesInv
  <1> HIDE DEF qs
  <1>2. PICK qs2 : Rings(links', qs2) /\ Counts(listCount', qs2) /\ ListStep(qs, qs2)
    BY <1>1 DEF Stepped
  <1>3. View(links'.next) = qs2
    BY <1>2, ViewRings
  <1>4. links'.next = nextNode'
    BY DEF links
  <1>5. View(nextNode') = qs2
    BY <1>3, <1>4
  <1>6. NodesInv'
    BY <1>2, <1>5 DEF NodesInv
  <1>7. ListStep(qs, View(nextNode)')
    BY <1>2, <1>5
  <1> QED  BY <1>6, <1>7 DEF qs

(* A step of the sequences is one of ListSpec.                               *)
LEMMA ListStepPromise ==
  ASSUME ListStep(View(nextNode), View(nextNode)')
  PROVE  [Promise!ListSpecNext]_([l \in ListName |-> AsSequence(l)])
  <1> DEFINE lists == [l \in ListName |-> AsSequence(l)]
  <1>1. lists = View(nextNode) /\ lists' = View(nextNode)'
    BY DEF View, AsSequence
  <1> HIDE DEF lists
  <1>2. ListStep(lists, lists')
    BY <1>1
  <1>3. ASSUME NEW l \in ListName, lists' = Replaced(lists, l, <<>>) PROVE Promise!ListSpecNext
    <2>1. Promise!Clear(l)
      BY <1>3 DEF Promise!Clear, Replaced, lists
    <2> QED  BY <2>1 DEF Promise!ListSpecNext
  <1>4. ASSUME NEW l \in ListName, NEW x \in NodeName, Free(lists, x),
               NEW p \in 1..(Len(lists[l]) + 1),
               lists' = Replaced(lists, l, Promise!InsertAt(lists[l], p, x))
        PROVE  Promise!ListSpecNext
    <2>1. Promise!Unlinked(x)
      BY <1>4, SameOperators DEF Promise!Unlinked, Free, lists
    <2>2. Promise!Insert(l, x)
      BY <1>4, <2>1 DEF Promise!Insert, Replaced, lists
    <2> QED  BY <2>2 DEF Promise!ListSpecNext
  <1>5. ASSUME NEW l \in ListName, NEW x \in NodeName, x \in Elements(lists[l]),
               lists' = Replaced(lists, l, Unlink(lists[l], x))
        PROVE  Promise!ListSpecNext
    <2>1. Promise!Erase(l, x)
      BY <1>5, SameOperators DEF Promise!Erase, Replaced, lists
    <2> QED  BY <2>1 DEF Promise!ListSpecNext
  <1>6. ASSUME NEW l \in ListName, NEW x \in NodeName, x \in Elements(lists[l]),
               \/ lists' = Replaced(lists, l, Prioritize(lists[l], x, nodeKey))
               \/ lists' = Replaced(lists, l, Deprioritize(lists[l], x, nodeKey))
        PROVE  Promise!ListSpecNext
    <2>1. Promise!Reorder(l, x)
      BY <1>6, SameOperators DEF Promise!Reorder, Replaced, lists
    <2> QED  BY <2>1 DEF Promise!ListSpecNext
  <1>7. CASE lists' = lists
    BY <1>7 DEF lists
  <1> QED  BY <1>2, <1>3, <1>4, <1>5, <1>6, <1>7 DEF ListStep

(* Intrusive::List keeps its promise: whatever calls are made, of whatever    *)
(* lists, nodes and priorities, the linked nodes implement the lists of       *)
(* ListSpec and the rings stay whole.                                         *)
THEOREM NodesImplementLists == NodesInit /\ [][NodesNext]_nodeVars => ImplementsLists
  <1>1. ASSUME NodesInit PROVE NodesInv /\ Promise!ListSpecInit
    <2>1. NodesInv /\ View(nextNode) = [l \in ListName |-> <<>>]
      BY <1>1, EmptyRings, SomeRings
    <2> QED  BY <2>1 DEF Promise!ListSpecInit, View, AsSequence
  <1>2. NodesInv /\ [NodesNext]_nodeVars
          => NodesInv' /\ [Promise!ListSpecNext]_([l \in ListName |-> AsSequence(l)])
    BY NodesInvStep, ListStepPromise
  <1>3. NodesInv => WellLinked
    BY RingsWellLinked
  <1> QED  BY <1>1, <1>2, <1>3, PTL DEF ImplementsLists, Promise!Lists
=============================================================================
