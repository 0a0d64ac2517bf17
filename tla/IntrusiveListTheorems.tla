------------------------ MODULE IntrusiveListTheorems ------------------------
(***************************************************************************)
(* What the operations of IntrusiveList preserve, for lists of any length   *)
(* and any priorities.  The specifications that keep such lists cite these  *)
(* facts instead of the definitions.                                        *)
(***************************************************************************)
EXTENDS IntrusiveList, WellFoundedInduction, TLAPS

(* A non-empty set of natural numbers has a least element. *)
LEMMA LeastNat ==
  ASSUME NEW T \in SUBSET Nat, T # {}
  PROVE  \E x \in T : \A y \in T : x <= y
<1> DEFINE R == OpToRel(<, Nat)
<1>1. IsWellFoundedOn(R, Nat)
  BY NatLessThanWellFounded, Zenon
<1>2. PICK x \in T : \A y \in T : ~(<<y, x>> \in R)
  <2> HIDE DEF R
  <2> QED BY <1>1, WFMin, Zenon
<1>3. \A y \in T : ~(y < x)
  <2> SUFFICES ASSUME NEW y \in T, y < x PROVE FALSE
    OBVIOUS
  <2>1. <<y, x>> \in {ss \in Nat \X Nat : ss[1] < ss[2]}
    OBVIOUS
  <2> QED BY <2>1, <1>2, Zenon DEF OpToRel
<1> QED BY <1>3

(* A linked element has a position. *)
LEMMA PositionLemma ==
  ASSUME NEW S, NEW q \in Seq(S), NEW x \in Elements(q)
  PROVE  /\ Position(q, x) \in 1..Len(q)
         /\ q[Position(q, x)] = x
         /\ x \in S
<1>1. \E i \in 1..Len(q) : q[i] = x
  BY DEF Elements
<1> QED BY <1>1 DEF Position

(* push_front: the element comes first, the others keep their order. *)
LEMMA PushFrontLemma ==
  ASSUME NEW S, NEW q \in Seq(S), NEW x \in S
  PROVE  /\ PushFront(q, x) \in Seq(S)
         /\ Len(PushFront(q, x)) = Len(q) + 1
         /\ PushFront(q, x)[1] = x
         /\ \A i \in 2..(Len(q) + 1) : PushFront(q, x)[i] = q[i - 1]
         /\ Elements(PushFront(q, x)) = Elements(q) \cup {x}
<1>1. /\ PushFront(q, x) \in Seq(S)
      /\ Len(PushFront(q, x)) = Len(q) + 1
      /\ PushFront(q, x)[1] = x
      /\ \A i \in 2..(Len(q) + 1) : PushFront(q, x)[i] = q[i - 1]
  BY DEF PushFront
<1>2. Elements(PushFront(q, x)) \subseteq Elements(q) \cup {x}
  BY <1>1 DEF Elements
<1>3. Elements(q) \cup {x} \subseteq Elements(PushFront(q, x))
  <2>1. x \in Elements(PushFront(q, x))
    BY <1>1 DEF Elements
  <2>2. ASSUME NEW i \in 1..Len(q) PROVE q[i] \in Elements(PushFront(q, x))
    <3>1. i + 1 \in 2..(Len(q) + 1) /\ i + 1 \in 1..Len(PushFront(q, x))
      BY <1>1
    <3>2. PushFront(q, x)[i + 1] = q[i]
      BY <1>1, <3>1
    <3> QED BY <3>1, <3>2 DEF Elements
  <2> QED BY <2>1, <2>2 DEF Elements
<1> QED BY <1>1, <1>2, <1>3

(* Unlinking an element that is linked once removes exactly that element and *)
(* keeps the others in order.                                                *)
LEMMA UnlinkLemma ==
  ASSUME NEW S, NEW q \in Seq(S), NEW x, Linked(q)
  PROVE  /\ Unlink(q, x) \in Seq(S)
         /\ Linked(Unlink(q, x))
         /\ Elements(Unlink(q, x)) = Elements(q) \ {x}
         /\ \A key : Ordered(q, key) => Ordered(Unlink(q, x), key)
<1>1. CASE x \notin Elements(q)
  BY <1>1 DEF Unlink
<1>2. CASE x \in Elements(q)
  <2> DEFINE k == Position(q, x)
             u == Unlink(q, x)
  <2>1. k \in 1..Len(q) /\ q[k] = x
    BY <1>2, PositionLemma
  <2>2. u = [i \in 1..(Len(q) - 1) |-> IF i < k THEN q[i] ELSE q[i + 1]]
    BY <1>2 DEF Unlink
  <2> HIDE DEF k, u
  <2>3. u \in Seq(S) /\ Len(u) = Len(q) - 1
    BY <2>1, <2>2
  <2>4. \A i \in 1..Len(u) :
           /\ i < k => i \in 1..Len(q) /\ u[i] = q[i]
           /\ i >= k => i + 1 \in 1..Len(q) /\ u[i] = q[i + 1]
    BY <2>1, <2>2, <2>3
  <2>5. Linked(u)
    BY <2>1, <2>2, <2>3 DEF Linked
  <2>6. Elements(u) \subseteq Elements(q) \ {x}
    BY <2>1, <2>3, <2>4 DEF Linked, Elements
  <2>7. Elements(q) \ {x} \subseteq Elements(u)
    <3> SUFFICES ASSUME NEW i \in 1..Len(q), q[i] # x PROVE q[i] \in Elements(u)
      BY DEF Elements
    <3>1. CASE i < k
      <4>1. i \in 1..Len(u) /\ u[i] = q[i]
        BY <3>1, <2>1, <2>2, <2>3
      <4> QED BY <4>1 DEF Elements
    <3>2. CASE i > k
      <4>1. i - 1 \in 1..Len(u) /\ u[i - 1] = q[i]
        BY <3>2, <2>1, <2>2, <2>3
      <4> QED BY <4>1 DEF Elements
    <3> QED BY <3>1, <3>2, <2>1
  <2>8. ASSUME NEW key, Ordered(q, key) PROVE Ordered(u, key)
    <3> SUFFICES ASSUME NEW i \in 1..Len(u), NEW j \in 1..Len(u), i < j
                 PROVE  key[u[i]] <= key[u[j]]
      BY DEF Ordered
    <3>1. CASE j < k
      BY <3>1, <2>1, <2>4, <2>8, i < k DEF Ordered
    <3>2. CASE i < k /\ j >= k
      BY <3>2, <2>1, <2>4, <2>8, i < j + 1 DEF Ordered
    <3>3. CASE i >= k
      BY <3>3, <2>1, <2>4, <2>8, i + 1 < j + 1, j >= k DEF Ordered
    <3> QED BY <3>1, <3>2, <3>3, <2>1, <2>3
  <2> QED BY <2>3, <2>5, <2>6, <2>7, <2>8 DEF u
<1> QED BY <1>1, <1>2

(* prioritize finds the place it looks for.                                  *)
LEMMA PriorPositionExists ==
  ASSUME NEW q, NEW key, NEW k \in Nat, k >= 1
  PROVE  \E p \in 1..k : IsPriorPosition(q, k, key, p)
<1> DEFINE T == {p \in 1..k : \A i \in p..(k - 1) : key[q[k]] < key[q[i]]}
<1>1. k \in T
  OBVIOUS
<1>2. PICK p \in T : \A y \in T : p <= y
  <2>1. T \in SUBSET Nat /\ T # {}
    BY <1>1
  <2> HIDE DEF T
  <2> QED BY <2>1, LeastNat
<1>3. p - 1 \notin T
  BY <1>2
<1>4. p > 1 => ~(key[q[k]] < key[q[p - 1]])
  <2> SUFFICES ASSUME p > 1, key[q[k]] < key[q[p - 1]] PROVE FALSE
    OBVIOUS
  <2>1. \A i \in (p - 1)..(k - 1) : i = p - 1 \/ i \in p..(k - 1)
    OBVIOUS
  <2> QED BY <2>1, <1>3
<1> QED BY <1>4 DEF IsPriorPosition

(* deprioritize finds the place it looks for.                                *)
LEMMA PosteriorPositionExists ==
  ASSUME NEW S, NEW q \in Seq(S), NEW key, NEW k \in 1..Len(q)
  PROVE  \E p \in (k + 1)..(Len(q) + 1) : IsPosteriorPosition(q, k, key, p)
<1> DEFINE T == {p \in (k + 1)..(Len(q) + 1) : p <= Len(q) => key[q[k]] < key[q[p]]}
<1>1. Len(q) + 1 \in T
  OBVIOUS
<1>2. PICK p \in T : \A y \in T : p <= y
  <2>1. T \in SUBSET Nat /\ T # {}
    BY <1>1
  <2> HIDE DEF T
  <2> QED BY <2>1, LeastNat
<1>3. ASSUME NEW i \in (k + 1)..(p - 1) PROVE ~(key[q[k]] < key[q[i]])
  <2>1. i \notin T
    BY <1>2
  <2> QED BY <2>1
<1> QED BY <1>3 DEF IsPosteriorPosition

(* Moving a node keeps what is linked.                                       *)
LEMMA MoveUpLemma ==
  ASSUME NEW S, NEW q \in Seq(S), Linked(q), NEW k \in 1..Len(q), NEW p \in 1..k
  PROVE  /\ MoveUp(q, k, p) \in Seq(S)
         /\ Len(MoveUp(q, k, p)) = Len(q)
         /\ Linked(MoveUp(q, k, p))
         /\ Elements(MoveUp(q, k, p)) = Elements(q)
<1> DEFINE r == MoveUp(q, k, p)
<1>1. r = [i \in 1..Len(q) |-> IF i < p \/ i > k THEN q[i]
                               ELSE IF i = p THEN q[k] ELSE q[i - 1]]
  BY DEF MoveUp
<1> HIDE DEF r
<1>2. r \in Seq(S) /\ Len(r) = Len(q)
  BY <1>1
<1>3. \A i \in 1..Len(q) : r[i] = IF i < p \/ i > k THEN q[i]
                                 ELSE IF i = p THEN q[k] ELSE q[i - 1]
  BY <1>1
<1>4. Linked(r)
  <2> SUFFICES ASSUME NEW i \in 1..Len(q), NEW j \in 1..Len(q), r[i] = r[j]
               PROVE  i = j
    BY <1>2 DEF Linked
  <2> DEFINE from(n) == IF n < p \/ n > k THEN n ELSE IF n = p THEN k ELSE n - 1
  <2>1. from(i) \in 1..Len(q) /\ from(j) \in 1..Len(q)
    OBVIOUS
  <2>2. r[i] = q[from(i)] /\ r[j] = q[from(j)]
    BY <1>3
  <2>3. from(i) = from(j)
    BY <2>1, <2>2 DEF Linked
  <2> QED BY <2>3
<1>5. Elements(r) \subseteq Elements(q)
  <2> SUFFICES ASSUME NEW i \in 1..Len(q) PROVE \E j \in 1..Len(q) : q[j] = r[i]
    BY <1>2 DEF Elements
  <2> QED BY <1>3
<1>6. Elements(q) \subseteq Elements(r)
  <2> SUFFICES ASSUME NEW i \in 1..Len(q) PROVE \E j \in 1..Len(r) : r[j] = q[i]
    BY DEF Elements
  <2>1. CASE i < p \/ i > k
    BY <2>1, <1>2, <1>3
  <2>2. CASE i = k
    BY <2>2, <1>2, <1>3
  <2>3. CASE i >= p /\ i < k
    <3>1. i + 1 \in 1..Len(r) /\ r[i + 1] = q[i]
      BY <2>3, <1>2, <1>3
    <3> QED BY <3>1
  <2> QED BY <2>1, <2>2, <2>3
<1> QED BY <1>2, <1>4, <1>5, <1>6 DEF r

(* An element that moves towards the end of the list passes those between.   *)
LEMMA MoveDownLemma ==
  ASSUME NEW S, NEW q \in Seq(S), Linked(q), NEW k \in 1..Len(q),
         NEW p \in (k + 1)..(Len(q) + 1)
  PROVE  /\ MoveDown(q, k, p) \in Seq(S)
         /\ Len(MoveDown(q, k, p)) = Len(q)
         /\ Linked(MoveDown(q, k, p))
         /\ Elements(MoveDown(q, k, p)) = Elements(q)
<1> DEFINE r == MoveDown(q, k, p)
<1>1. r = [i \in 1..Len(q) |-> IF i < k \/ i >= p THEN q[i]
                               ELSE IF i = p - 1 THEN q[k] ELSE q[i + 1]]
  BY DEF MoveDown
<1> HIDE DEF r
<1>2. r \in Seq(S) /\ Len(r) = Len(q)
  BY <1>1
<1>3. \A i \in 1..Len(q) : r[i] = IF i < k \/ i >= p THEN q[i]
                                 ELSE IF i = p - 1 THEN q[k] ELSE q[i + 1]
  BY <1>1
<1>4. Linked(r)
  <2> SUFFICES ASSUME NEW i \in 1..Len(q), NEW j \in 1..Len(q), r[i] = r[j]
               PROVE  i = j
    BY <1>2 DEF Linked
  <2> DEFINE from(n) == IF n < k \/ n >= p THEN n ELSE IF n = p - 1 THEN k ELSE n + 1
  <2>1. from(i) \in 1..Len(q) /\ from(j) \in 1..Len(q)
    OBVIOUS
  <2>2. r[i] = q[from(i)] /\ r[j] = q[from(j)]
    BY <1>3
  <2>3. from(i) = from(j)
    BY <2>1, <2>2 DEF Linked
  <2> QED BY <2>3
<1>5. Elements(r) \subseteq Elements(q)
  <2> SUFFICES ASSUME NEW i \in 1..Len(q) PROVE \E j \in 1..Len(q) : q[j] = r[i]
    BY <1>2 DEF Elements
  <2> QED BY <1>3
<1>6. Elements(q) \subseteq Elements(r)
  <2> SUFFICES ASSUME NEW i \in 1..Len(q) PROVE \E j \in 1..Len(r) : r[j] = q[i]
    BY DEF Elements
  <2>1. CASE i < k \/ i >= p
    BY <2>1, <1>2, <1>3
  <2>2. CASE i = k
    <3>1. p - 1 \in 1..Len(r) /\ r[p - 1] = q[i]
      BY <2>2, <1>2, <1>3
    <3> QED BY <3>1
  <2>3. CASE i > k /\ i < p
    <3>1. i - 1 \in 1..Len(r) /\ r[i - 1] = q[i]
      BY <2>3, <1>2, <1>3
    <3> QED BY <3>1
  <2> QED BY <2>1, <2>2, <2>3
<1> QED BY <1>2, <1>4, <1>5, <1>6 DEF r

(* prioritize keeps what is linked, and restores the order if x is the only  *)
(* element out of place and belongs nearer to the front.                     *)
LEMMA PrioritizeLemma ==
  ASSUME NEW S, NEW q \in Seq(S), Linked(q), NEW x \in Elements(q),
         NEW key, \A e \in S : key[e] \in Int
  PROVE  /\ Prioritize(q, x, key) \in Seq(S)
         /\ Len(Prioritize(q, x, key)) = Len(q)
         /\ Linked(Prioritize(q, x, key))
         /\ Elements(Prioritize(q, x, key)) = Elements(q)
         /\ Position(Prioritize(q, x, key), x) <= Position(q, x)
         /\ \A i \in 1..Len(q) : i < Position(Prioritize(q, x, key), x)
                                => Prioritize(q, x, key)[i] = q[i]
         /\ (/\ \A i, j \in 1..Len(q) : i < j /\ q[i] # x /\ q[j] # x
                                         => key[q[i]] <= key[q[j]]
             /\ \A i \in 1..Len(q) : i > Position(q, x) => key[x] <= key[q[i]])
            => Ordered(Prioritize(q, x, key), key)
<1> DEFINE k == Position(q, x)
<1>1. k \in 1..Len(q) /\ q[k] = x
  BY PositionLemma
<1> DEFINE p == CHOOSE n \in 1..k : IsPriorPosition(q, k, key, n)
<1>2. p \in 1..k /\ IsPriorPosition(q, k, key, p)
  <2> HIDE DEF k
  <2>1. \E n \in 1..k : IsPriorPosition(q, k, key, n)
    BY <1>1, k \in Nat, k >= 1, PriorPositionExists
  <2> QED BY <2>1
<1> DEFINE r == MoveUp(q, k, p)
<1>3. r = Prioritize(q, x, key)
  BY DEF Prioritize
<1> HIDE DEF p, k
<1>4. /\ r \in Seq(S) /\ Len(r) = Len(q)
      /\ Linked(r) /\ Elements(r) = Elements(q)
  BY <1>1, <1>2, MoveUpLemma
<1>5. ASSUME \A i, j \in 1..Len(q) : i < j /\ q[i] # x /\ q[j] # x
                                     => key[q[i]] <= key[q[j]],
             \A i \in 1..Len(q) : i > k => key[x] <= key[q[i]]
      PROVE  Ordered(r, key)
  <2>1. \A i \in 1..Len(q) : r[i] = IF i < p \/ i > k THEN q[i]
                                   ELSE IF i = p THEN q[k] ELSE q[i - 1]
    BY DEF MoveUp
  <2> HIDE DEF r
  <2>2. \A i \in 1..Len(q) : i # k => q[i] # x
    BY <1>1 DEF Linked
  <2>3. \A i \in 1..Len(q) : key[q[i]] \in Int
    OBVIOUS
  <2>4. \A i \in p..(k - 1) : key[x] < key[q[i]]
    BY <1>1, <1>2 DEF IsPriorPosition
  <2>5. \A i \in 1..(p - 1) : key[q[i]] <= key[x]
    <3> SUFFICES ASSUME NEW i \in 1..(p - 1) PROVE key[q[i]] <= key[x]
      OBVIOUS
    <3>1. p - 1 \in 1..Len(q) /\ i \in 1..Len(q) /\ key[q[p - 1]] <= key[x]
      BY <1>1, <1>2, <2>3 DEF IsPriorPosition
    <3>2. CASE i = p - 1
      BY <3>1, <3>2
    <3>3. CASE i < p - 1
      <4>1. key[q[i]] <= key[q[p - 1]]
        BY <3>1, <3>3, <2>2, <1>1, <1>2, <1>5
      <4> QED BY <4>1, <3>1, <2>3, <1>1
    <3> QED BY <3>2, <3>3, <1>2
  <2>6. \A i, j \in 1..Len(q) : i < j /\ i # k /\ j # k => key[q[i]] <= key[q[j]]
    BY <2>2, <1>5
  <2> SUFFICES ASSUME NEW i \in 1..Len(q), NEW j \in 1..Len(q), i < j
               PROVE  key[r[i]] <= key[r[j]]
    BY <1>4 DEF Ordered
  <2>7. CASE i < p
    <3>1. r[i] = q[i] /\ i \in 1..(p - 1) /\ i # k
      BY <2>7, <2>1, <1>2
    <3>2. CASE j = p
      BY <3>1, <3>2, <2>1, <2>5, <1>1, <1>2
    <3>3. CASE j < p \/ j > k
      BY <3>1, <3>3, <2>1, <2>6, <1>2
    <3>4. CASE j > p /\ j <= k
      <4>1. r[j] = q[j - 1] /\ j - 1 \in 1..Len(q) /\ j - 1 # k /\ i < j - 1
        BY <3>4, <2>1, <2>7, <1>1, <1>2
      <4> QED BY <4>1, <3>1, <2>6
    <3> QED BY <3>2, <3>3, <3>4, <1>1, <1>2
  <2>8. CASE i = p
    <3>1. r[i] = x
      BY <2>8, <2>1, <1>1, <1>2
    <3>2. CASE j > k
      BY <3>1, <3>2, <2>1, <1>5, <1>2
    <3>3. CASE j <= k
      <4>1. r[j] = q[j - 1] /\ j - 1 \in p..(k - 1) /\ j - 1 \in 1..Len(q)
        BY <3>3, <2>8, <2>1, <1>1, <1>2
      <4> QED BY <4>1, <3>1, <2>3, <2>4, <1>1
    <3> QED BY <3>2, <3>3, <1>1
  <2>9. CASE i > p /\ i <= k
    <3>1. r[i] = q[i - 1] /\ i - 1 \in 1..Len(q) /\ i - 1 # k /\ i - 1 < k
      BY <2>9, <2>1, <1>1, <1>2
    <3>2. CASE j > k
      BY <3>1, <3>2, <2>1, <2>6, <1>1
    <3>3. CASE j <= k
      <4>1. r[j] = q[j - 1] /\ j - 1 \in 1..Len(q) /\ j - 1 # k /\ i - 1 < j - 1
        BY <3>3, <2>9, <2>1, <1>1, <1>2
      <4> QED BY <4>1, <3>1, <2>6
    <3> QED BY <3>2, <3>3, <1>1
  <2>10. CASE i > k
    <3>1. r[i] = q[i] /\ r[j] = q[j] /\ i # k /\ j # k
      BY <2>10, <2>1, <1>1
    <3> QED BY <3>1, <2>6
  <2> QED BY <2>7, <2>8, <2>9, <2>10, <1>1, <1>2
<1>6. Position(r, x) <= k /\ \A i \in 1..Len(q) : i < Position(r, x) => r[i] = q[i]
  <2>1. \A i \in 1..Len(q) : r[i] = IF i < p \/ i > k THEN q[i]
                                   ELSE IF i = p THEN q[k] ELSE q[i - 1]
    BY DEF MoveUp
  <2> HIDE DEF r
  <2>2. r[p] = x /\ p \in 1..Len(r)
    BY <2>1, <1>1, <1>2, <1>4
  <2>3. Position(r, x) \in 1..Len(r) /\ r[Position(r, x)] = x
    BY <1>4, PositionLemma
  <2>4. Position(r, x) = p
    BY <2>2, <2>3, <1>4 DEF Linked
  <2> QED BY <2>1, <2>4, <1>1, <1>2
<1> QED BY <1>3, <1>4, <1>5, <1>6 DEF k

(* deprioritize keeps what is linked, and restores the order if x is the     *)
(* only element out of place and belongs nearer to the back.                 *)
LEMMA DeprioritizeLemma ==
  ASSUME NEW S, NEW q \in Seq(S), Linked(q), NEW x \in Elements(q),
         NEW key, \A e \in S : key[e] \in Int
  PROVE  /\ Deprioritize(q, x, key) \in Seq(S)
         /\ Len(Deprioritize(q, x, key)) = Len(q)
         /\ Linked(Deprioritize(q, x, key))
         /\ Elements(Deprioritize(q, x, key)) = Elements(q)
         /\ (/\ \A i, j \in 1..Len(q) : i < j /\ q[i] # x /\ q[j] # x
                                         => key[q[i]] <= key[q[j]]
             /\ \A i \in 1..Len(q) : i < Position(q, x) => key[q[i]] <= key[x])
            => Ordered(Deprioritize(q, x, key), key)
<1> DEFINE k == Position(q, x)
<1>1. k \in 1..Len(q) /\ q[k] = x
  BY PositionLemma
<1> DEFINE p == CHOOSE n \in (k + 1)..(Len(q) + 1) : IsPosteriorPosition(q, k, key, n)
<1>2. p \in (k + 1)..(Len(q) + 1) /\ IsPosteriorPosition(q, k, key, p)
  <2> HIDE DEF k
  <2>1. \E n \in (k + 1)..(Len(q) + 1) : IsPosteriorPosition(q, k, key, n)
    BY <1>1, PosteriorPositionExists
  <2> QED BY <2>1
<1> DEFINE r == MoveDown(q, k, p)
<1>3. r = Deprioritize(q, x, key)
  BY DEF Deprioritize
<1> HIDE DEF p, k
<1>4. /\ r \in Seq(S) /\ Len(r) = Len(q)
      /\ Linked(r) /\ Elements(r) = Elements(q)
  BY <1>1, <1>2, MoveDownLemma
<1>5. ASSUME \A i, j \in 1..Len(q) : i < j /\ q[i] # x /\ q[j] # x
                                     => key[q[i]] <= key[q[j]],
             \A i \in 1..Len(q) : i < k => key[q[i]] <= key[x]
      PROVE  Ordered(r, key)
  <2>1. \A i \in 1..Len(q) : r[i] = IF i < k \/ i >= p THEN q[i]
                                   ELSE IF i = p - 1 THEN q[k] ELSE q[i + 1]
    BY DEF MoveDown
  <2> HIDE DEF r
  <2>2. \A i \in 1..Len(q) : i # k => q[i] # x
    BY <1>1 DEF Linked
  <2>3. \A i \in 1..Len(q) : key[q[i]] \in Int
    OBVIOUS
  <2>4. \A i \in (k + 1)..(p - 1) : i \in 1..Len(q) /\ key[q[i]] <= key[x]
    BY <1>1, <1>2, <2>3 DEF IsPosteriorPosition
  <2>6. \A i, j \in 1..Len(q) : i < j /\ i # k /\ j # k => key[q[i]] <= key[q[j]]
    BY <2>2, <1>5
  <2>5. \A i \in p..Len(q) : i \in 1..Len(q) /\ key[x] <= key[q[i]]
    <3> SUFFICES ASSUME NEW i \in p..Len(q) PROVE key[x] <= key[q[i]]
      BY <1>1, <1>2
    <3>1. p \in 1..Len(q) /\ i \in 1..Len(q) /\ key[x] <= key[q[p]]
      BY <1>1, <1>2, <2>3 DEF IsPosteriorPosition
    <3>2. CASE i = p
      BY <3>1, <3>2
    <3>3. CASE i > p
      <4>1. key[q[p]] <= key[q[i]]
        BY <3>1, <3>3, <2>6, <1>1, <1>2, SMTT(20)
      <4> QED BY <4>1, <3>1, <2>3, <1>1
    <3> QED BY <3>2, <3>3, <1>2
  <2> SUFFICES ASSUME NEW i \in 1..Len(q), NEW j \in 1..Len(q), i < j
               PROVE  key[r[i]] <= key[r[j]]
    BY <1>4 DEF Ordered
  <2>7. CASE i < k
    <3>1. r[i] = q[i] /\ i # k
      BY <2>7, <2>1
    <3>2. CASE j = p - 1
      <4>1. r[j] = x
        BY <3>2, <2>1, <1>1, <1>2
      <4> QED BY <4>1, <3>1, <2>7, <1>5
    <3>3. CASE j < k \/ j >= p
      <4>1. r[j] = q[j] /\ j # k
        BY <3>3, <2>1, <1>1, <1>2
      <4> QED BY <4>1, <3>1, <2>6
    <3>4. CASE j >= k /\ j < p - 1
      <4>1. r[j] = q[j + 1] /\ j + 1 \in 1..Len(q) /\ j + 1 # k /\ i < j + 1
        BY <3>4, <2>1, <1>1, <1>2
      <4> QED BY <4>1, <3>1, <2>6
    <3> QED BY <3>2, <3>3, <3>4, <1>1, <1>2
  <2>8. CASE i = p - 1
    <3>1. r[i] = x /\ r[j] = q[j] /\ j \in p..Len(q)
      BY <2>8, <2>1, <1>1, <1>2
    <3> QED BY <3>1, <2>5
  <2>9. CASE i >= k /\ i < p - 1
    <3>1. r[i] = q[i + 1] /\ i + 1 \in 1..Len(q) /\ i + 1 # k /\ i + 1 \in (k + 1)..(p - 1)
      BY <2>9, <2>1, <1>1, <1>2
    <3>2. CASE j >= p
      <4>1. r[j] = q[j] /\ j # k /\ i + 1 < j
        BY <3>2, <2>9, <2>1, <1>1, <1>2
      <4> QED BY <4>1, <3>1, <2>6
    <3>3. CASE j = p - 1
      <4>1. r[j] = x
        BY <3>3, <2>9, <2>1, <1>1, <1>2
      <4> QED BY <4>1, <3>1, <2>4
    <3>4. CASE j < p - 1
      <4>1. r[j] = q[j + 1] /\ j + 1 \in 1..Len(q) /\ j + 1 # k /\ i + 1 < j + 1
        BY <3>4, <2>9, <2>1, <1>1, <1>2, SMTT(20)
      <4> QED BY <4>1, <3>1, <2>6
    <3> QED BY <3>2, <3>3, <3>4, <1>2
  <2>10. CASE i >= p
    <3>1. r[i] = q[i] /\ r[j] = q[j] /\ i # k /\ j # k
      BY <2>10, <2>1, <1>1, <1>2
    <3> QED BY <3>1, <2>6
  <2> QED BY <2>7, <2>8, <2>9, <2>10, <1>1, <1>2
<1> QED BY <1>3, <1>4, <1>5 DEF k

(* What the code does to queue an element: push_front, then deprioritize.    *)
LEMMA InsertLemma ==
  ASSUME NEW S, NEW q \in Seq(S), Linked(q), NEW x \in S, x \notin Elements(q),
         NEW key, \A e \in S : key[e] \in Int
  PROVE  LET r == Deprioritize(PushFront(q, x), x, key)
         IN  /\ r \in Seq(S)
             /\ Len(r) = Len(q) + 1
             /\ Linked(r)
             /\ Elements(r) = Elements(q) \cup {x}
             /\ Ordered(q, key) => Ordered(r, key)
<1> DEFINE f == PushFront(q, x)
<1>1. /\ f \in Seq(S) /\ Len(f) = Len(q) + 1 /\ f[1] = x
      /\ \A i \in 2..Len(f) : i - 1 \in 1..Len(q) /\ f[i] = q[i - 1]
      /\ Elements(f) = Elements(q) \cup {x}
  <2>1. f \in Seq(S) /\ Len(f) = Len(q) + 1 /\ f[1] = x
    BY PushFrontLemma
  <2>2. ASSUME NEW i \in 2..(Len(q) + 1) PROVE f[i] = q[i - 1]
    BY PushFrontLemma
  <2>3. Elements(f) = Elements(q) \cup {x}
    BY PushFrontLemma
  <2> HIDE DEF f
  <2> QED BY <2>1, <2>2, <2>3
<1> HIDE DEF f
<1>2. \A i \in 2..Len(f) : f[i] # x
  BY <1>1 DEF Elements
<1>3. Linked(f)
  <2> SUFFICES ASSUME NEW i \in 1..Len(f), NEW j \in 1..Len(f), f[i] = f[j], i # j
               PROVE  FALSE
    BY DEF Linked
  <2>1. CASE i = 1
    BY <2>1, <1>1, <1>2, j \in 2..Len(f)
  <2>2. CASE j = 1
    BY <2>2, <1>1, <1>2, i \in 2..Len(f)
  <2>3. CASE i # 1 /\ j # 1
    <3>1. i \in 2..Len(f) /\ j \in 2..Len(f)
      BY <2>3
    <3>2. q[i - 1] = q[j - 1]
      BY <3>1, <1>1
    <3>3. i - 1 = j - 1
      BY <3>1, <3>2, <1>1 DEF Linked
    <3> QED BY <3>1, <3>3
  <2> QED BY <2>1, <2>2, <2>3
<1>4. Position(f, x) = 1
  <2>1. Position(f, x) \in 1..Len(f) /\ f[Position(f, x)] = x
    BY <1>1, PositionLemma
  <2> QED BY <2>1, <1>2
<1>5. Ordered(q, key) => \A i, j \in 1..Len(f) : i < j /\ f[i] # x /\ f[j] # x
                                               => key[f[i]] <= key[f[j]]
  <2> SUFFICES ASSUME Ordered(q, key), NEW i \in 1..Len(f), NEW j \in 1..Len(f),
                      i < j, f[i] # x
               PROVE  key[f[i]] <= key[f[j]]
    OBVIOUS
  <2>1. i \in 2..Len(f) /\ j \in 2..Len(f)
    BY <1>1
  <2> QED BY <2>1, <1>1, i - 1 < j - 1 DEF Ordered
<1>6. x \in Elements(f)
  BY <1>1
<1>7. /\ Deprioritize(f, x, key) \in Seq(S)
      /\ Len(Deprioritize(f, x, key)) = Len(f)
      /\ Linked(Deprioritize(f, x, key))
      /\ Elements(Deprioritize(f, x, key)) = Elements(f)
      /\ Ordered(q, key) => Ordered(Deprioritize(f, x, key), key)
  <2>1. \A i \in 1..Len(f) : i < Position(f, x) => key[f[i]] <= key[x]
    BY <1>4
  <2>2. Ordered(q, key) => Ordered(Deprioritize(f, x, key), key)
    BY <2>1, <1>1, <1>3, <1>5, <1>6, DeprioritizeLemma
  <2> QED BY <2>2, <1>1, <1>3, <1>6, DeprioritizeLemma
<1> QED BY <1>1, <1>7 DEF f

(* begin() is the first element: nothing comes before it.                    *)
LEMMA FirstLemma ==
  ASSUME NEW S, NEW q \in Seq(S), Linked(q), NEW Nil
  PROVE  /\ FirstOf(q, Nil) \in Elements(q) \cup {Nil}
         /\ FirstOf(q, Nil) = Nil /\ Nil \notin S => Len(q) = 0
         /\ Len(q) > 0 => Position(q, FirstOf(q, Nil)) = 1
<1>1. CASE q = <<>>
  BY <1>1 DEF FirstOf
<1>2. CASE q # <<>>
  <2>1. 1 \in 1..Len(q) /\ FirstOf(q, Nil) = q[1]
    BY <1>2 DEF FirstOf
  <2>2. q[1] \in Elements(q) /\ q[1] \in S
    BY <2>1 DEF Elements
  <2>3. Position(q, q[1]) = 1
    BY <2>1, <2>2, PositionLemma DEF Linked
  <2> QED BY <2>1, <2>2, <2>3
<1> QED BY <1>1, <1>2

(* ++it refers to the element after x or to end(): only x and what comes     *)
(* before x comes before it.                                                 *)
LEMMA NextLemma ==
  ASSUME NEW S, NEW q \in Seq(S), Linked(q), NEW x \in Elements(q), NEW Nil, Nil \notin S
  PROVE  /\ NextOf(q, x, Nil) \in Elements(q) \cup {Nil}
         /\ NextOf(q, x, Nil) # x
         /\ NextOf(q, x, Nil) # Nil => Position(q, NextOf(q, x, Nil)) = Position(q, x) + 1
         /\ NextOf(q, x, Nil) = Nil => Position(q, x) = Len(q)
<1> DEFINE k == Position(q, x)
<1>1. k \in 1..Len(q) /\ q[k] = x /\ x \in S
  BY PositionLemma
<1>2. CASE k < Len(q)
  <2>1. NextOf(q, x, Nil) = q[k + 1] /\ k + 1 \in 1..Len(q)
    BY <1>1, <1>2 DEF NextOf
  <2>2. q[k + 1] \in Elements(q) /\ q[k + 1] \in S
    BY <2>1 DEF Elements
  <2>3. Position(q, q[k + 1]) \in 1..Len(q) /\ q[Position(q, q[k + 1])] = q[k + 1]
    BY <2>2, PositionLemma
  <2>4. Position(q, q[k + 1]) = k + 1
    BY <2>1, <2>3 DEF Linked
  <2>5. q[k + 1] # x
    BY <2>1, <1>1 DEF Linked
  <2> QED BY <2>1, <2>2, <2>4, <2>5
<1>3. CASE k = Len(q)
  BY <1>1, <1>3 DEF NextOf
<1> QED BY <1>1, <1>2, <1>3

(* it = remove(it): the element after x takes the position of x, and what    *)
(* came before x stays where it is.                                          *)
LEMMA RemoveLemma ==
  ASSUME NEW S, NEW q \in Seq(S), Linked(q), NEW x \in Elements(q), NEW Nil, Nil \notin S
  PROVE  LET u == Unlink(q, x)
             n == NextOf(q, x, Nil)
         IN  /\ n \in Elements(u) \cup {Nil}
             /\ \A i \in 1..Len(u) : (n = Nil \/ i < Position(u, n))
                    => i \in 1..Len(q) /\ i < Position(q, x) /\ u[i] = q[i]
<1> DEFINE k == Position(q, x)
           u == Unlink(q, x)
           n == NextOf(q, x, Nil)
<1>1. k \in 1..Len(q) /\ q[k] = x /\ x \in S
  BY PositionLemma
<1>2. u = [i \in 1..(Len(q) - 1) |-> IF i < k THEN q[i] ELSE q[i + 1]]
  BY DEF Unlink
<1>3. /\ n \in Elements(q) \cup {Nil} /\ n # x
      /\ n # Nil => Position(q, n) = k + 1
      /\ n = Nil => k = Len(q)
  BY NextLemma
<1>4. Linked(u) /\ Elements(u) = Elements(q) \ {x} /\ u \in Seq(S)
  BY UnlinkLemma
<1> HIDE DEF k, u, n
<1>5. u \in Seq(S) /\ Len(u) = Len(q) - 1
  BY <1>1, <1>2
<1>6. CASE n = Nil
  BY <1>1, <1>2, <1>3, <1>5, <1>6 DEF k, u, n
<1>7. CASE n # Nil
  <2>1. n \in Elements(q) /\ n \in Elements(u)
    BY <1>3, <1>4, <1>7
  <2>2. q[k + 1] = n /\ k + 1 \in 1..Len(q)
    BY <2>1, <1>3, <1>7, PositionLemma
  <2>3. u[k] = n /\ k \in 1..Len(u)
    BY <2>2, <1>1, <1>2, <1>5
  <2>4. Position(u, n) \in 1..Len(u) /\ u[Position(u, n)] = n
    BY <2>1, <1>5, PositionLemma
  <2>5. Position(u, n) = k
    BY <2>3, <2>4, <1>4 DEF Linked
  <2>6. \A i \in 1..Len(u) : i < k => i \in 1..Len(q) /\ u[i] = q[i]
    BY <1>1, <1>2, <1>5
  <2> QED BY <2>1, <2>5, <2>6, <1>7 DEF k, u, n
<1> QED BY <1>6, <1>7
=============================================================================
