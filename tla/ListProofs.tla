----------------------------- MODULE ListProofs -----------------------------
(***************************************************************************)
(* Theorems about List, for any finite heap and any items: the links keep  *)
(* one ring, and List implements ItemSequence.                             *)
(*                                                                         *)
(* The argument: if the allocated nodes are one ring, their order is       *)
(* determined by *p_list and p_next alone (OneOrder), so that a step needs *)
(* no more than one order of the nodes that it leaves.  RingWith and       *)
(* RingWithout give it for what Link and Unlink do.                        *)
(***************************************************************************)
EXTENDS List, RecursionLemmas, FiniteSetTheorems

-----------------------------------------------------------------------------
(* Rings                                                                   *)

\* The place that follows i among k, in a ring.
Follower(i, k) == IF i = k THEN 1 ELSE i + 1

\* s is the k nodes of S from "first" on, in the order of next and of prev.
RingOf(s, k, S, first, next, prev) ==
  /\ s \in [1 .. k -> S]
  /\ \A n \in S : \E i \in 1 .. k : s[i] = n
  /\ \A i, j \in 1 .. k : s[i] = s[j] => i = j
  /\ k # 0 => first = s[1]
  /\ \A i \in 1 .. k : next[s[i]] = s[Follower(i, k)] /\ prev[s[Follower(i, k)]] = s[i]

\* IsOrder says the same of the state.
LEMMA OrderIsRing ==
  \A s : s \in Orders /\ IsOrder(s) <=> RingOf(s, Size, allocated, p_list, p_next, p_prev)
  BY DEF Orders, IsOrder, RingOf, Follower

\* The links determine the order.
LEMMA OneOrder ==
  ASSUME NEW k \in Nat, NEW S, NEW first, NEW next, NEW prev,
         NEW s, RingOf(s, k, S, first, next, prev),
         NEW t, RingOf(t, k, S, first, next, prev)
  PROVE  s = t
  <1> DEFINE P == {i \in 1 .. k : s[i] = t[i]}
  <1>1. 1 <= k => 1 \in P
    BY DEF RingOf
  <1>2. ASSUME NEW i \in 1 .. k - 1, i \in P PROVE i + 1 \in P
    <2>1. i \in 1 .. k /\ i + 1 \in 1 .. k /\ Follower(i, k) = i + 1
      BY DEF Follower
    <2>2. next[s[i]] = s[i + 1]
      BY <2>1 DEF RingOf
    <2>3. next[t[i]] = t[i + 1]
      BY <2>1 DEF RingOf
    <2>4. s[i] = t[i]
      BY <1>2
    <2> QED BY <2>1, <2>2, <2>3, <2>4
  <1> HIDE DEF P
  <1>3. 1 .. k \subseteq P
    BY <1>1, <1>2, IntervalInduction
  <1>4. \A i \in 1 .. k : s[i] = t[i]
    BY <1>3 DEF P
  <1>5. s \in [1 .. k -> S] /\ t \in [1 .. k -> S]
    BY DEF RingOf
  <1> QED BY <1>4, <1>5

\* s with n at the place p + 1.
With(s, k, p, n) ==
  [i \in 1 .. k + 1 |-> IF i <= p THEN s[i] ELSE IF i = p + 1 THEN n ELSE s[i - 1]]

\* A node that is linked between two neighbours is at its place of the ring,
\* and at the start or at the end according to the first node.
LEMMA RingWith ==
  ASSUME NEW k \in Nat \ {0}, NEW S, NEW first, NEW next, NEW prev, NEW N,
         S \subseteq N, DOMAIN next = N, DOMAIN prev = N,
         NEW s, RingOf(s, k, S, first, next, prev),
         NEW n \in N, n \notin S, NEW p \in 0 .. k,
         NEW before, before = s[IF p = 0 THEN k ELSE p],
         NEW after, after = s[IF p = 0 \/ p = k THEN 1 ELSE p + 1]
  PROVE  RingOf(With(s, k, p, n), k + 1, S \cup {n}, IF p = 0 THEN n ELSE first,
                [next EXCEPT ![n] = after, ![before] = n],
                [prev EXCEPT ![n] = before, ![after] = n])
  <1> DEFINE w == With(s, k, p, n)
             next2 == [next EXCEPT ![n] = after, ![before] = n]
             prev2 == [prev EXCEPT ![n] = before, ![after] = n]
  <1>1. /\ s \in [1 .. k -> S]
        /\ \A i, j \in 1 .. k : s[i] = s[j] => i = j
        /\ \A i \in 1 .. k : next[s[i]] = s[Follower(i, k)] /\ prev[s[Follower(i, k)]] = s[i]
    BY DEF RingOf
  <1>2. /\ w \in [1 .. k + 1 -> S \cup {n}]
        /\ \A i \in 1 .. p : i \in 1 .. k /\ w[i] = s[i]
        /\ p + 1 \in 1 .. k + 1 /\ w[p + 1] = n
        /\ \A i \in p + 2 .. k + 1 : i - 1 \in 1 .. k /\ w[i] = s[i - 1]
    BY <1>1 DEF With
  <1> HIDE DEF w
  <1>3. before \in S /\ after \in S /\ before # n /\ after # n
    BY <1>1
  <1>4. /\ next2[n] = after /\ next2[before] = n
        /\ \A x \in S : x # before => next2[x] = next[x]
        /\ prev2[n] = before /\ prev2[after] = n
        /\ \A x \in S : x # after => prev2[x] = prev[x]
    BY <1>3
  <1> HIDE DEF next2, prev2
  <1>5. ASSUME NEW x \in S \cup {n} PROVE \E i \in 1 .. k + 1 : w[i] = x
    <2>1. CASE x = n
      BY <2>1, <1>2
    <2>2. CASE x \in S
      <3>1. PICK i \in 1 .. k : s[i] = x
        BY <2>2 DEF RingOf
      <3>2. CASE i <= p
        BY <3>1, <3>2, <1>2
      <3>3. CASE i > p
        <4>1. i + 1 \in p + 2 .. k + 1 /\ i + 1 \in 1 .. k + 1 /\ (i + 1) - 1 = i
          BY <3>3
        <4> QED BY <3>1, <4>1, <1>2
      <3> QED BY <3>2, <3>3
    <2> QED BY <2>1, <2>2
  <1>6. ASSUME NEW i \in 1 .. k + 1, NEW j \in 1 .. k + 1, w[i] = w[j] PROVE i = j
    <2>1. \A l \in 1 .. k + 1 : l \in 1 .. p \/ l = p + 1 \/ l \in p + 2 .. k + 1
      OBVIOUS
    <2>2. \A l \in 1 .. k : s[l] # n
      BY <1>1
    <2>3. CASE i = p + 1
      BY <2>1, <2>2, <2>3, <1>2, <1>6
    <2>4. CASE j = p + 1
      BY <2>1, <2>2, <2>4, <1>2, <1>6
    <2>5. CASE i # p + 1 /\ j # p + 1
      <3>1. CASE i \in 1 .. p /\ j \in 1 .. p
        BY <3>1, <1>1, <1>2, <1>6
      <3>2. CASE i \in 1 .. p /\ j \in p + 2 .. k + 1
        <4>1. i \in 1 .. k /\ j - 1 \in 1 .. k /\ s[i] = s[j - 1] /\ i # j - 1
          BY <3>2, <1>2, <1>6
        <4> QED BY <4>1, <1>1
      <3>3. CASE i \in p + 2 .. k + 1 /\ j \in 1 .. p
        <4>1. i - 1 \in 1 .. k /\ j \in 1 .. k /\ s[i - 1] = s[j] /\ i - 1 # j
          BY <3>3, <1>2, <1>6
        <4> QED BY <4>1, <1>1
      <3>4. CASE i \in p + 2 .. k + 1 /\ j \in p + 2 .. k + 1
        <4>1. i - 1 \in 1 .. k /\ j - 1 \in 1 .. k /\ s[i - 1] = s[j - 1]
          BY <3>4, <1>2, <1>6
        <4>2. i - 1 = j - 1
          BY <4>1, <1>1
        <4> QED BY <4>2
      <3> QED BY <2>1, <2>5, <3>1, <3>2, <3>3, <3>4
    <2> QED BY <2>3, <2>4, <2>5
  <1>7. (IF p = 0 THEN n ELSE first) = w[1]
    BY <1>2 DEF RingOf
  <1>8. ASSUME NEW i \in 1 .. k + 1
        PROVE  next2[w[i]] = w[Follower(i, k + 1)] /\ prev2[w[Follower(i, k + 1)]] = w[i]
    \* the old links that stay
    <2> DEFINE Stays(a, b) == /\ a \in 1 .. k /\ b = Follower(a, k)
                              /\ s[a] # before /\ s[b] # after
                              /\ w[i] = s[a] /\ w[Follower(i, k + 1)] = s[b]
    <2>1. ASSUME NEW a, NEW b, Stays(a, b)
          PROVE  next2[w[i]] = w[Follower(i, k + 1)] /\ prev2[w[Follower(i, k + 1)]] = w[i]
      <3>1. b \in 1 .. k
        BY <2>1 DEF Follower
      <3> QED BY <2>1, <3>1, <1>1, <1>4
    <2>2. CASE i = p + 1
      <3>1. w[i] = n /\ w[Follower(i, k + 1)] = after
        <4>1. CASE p = k
          BY <4>1, <2>2, <1>2 DEF Follower
        <4>2. CASE p < k
          BY <4>2, <2>2, <1>2 DEF Follower
        <4> QED BY <4>1, <4>2
      <3> QED BY <3>1, <1>4
    <2>3. CASE Follower(i, k + 1) = p + 1
      <3>1. w[Follower(i, k + 1)] = n /\ w[i] = before
        <4>1. CASE p = 0
          BY <4>1, <2>3, <1>2 DEF Follower
        <4>2. CASE p > 0
          BY <4>2, <2>3, <1>2 DEF Follower
        <4> QED BY <4>1, <4>2
      <3> QED BY <3>1, <1>4
    <2>4. CASE i # p + 1 /\ Follower(i, k + 1) # p + 1
      <3>1. CASE i < p
        <4>1. Follower(i, k + 1) = i + 1 /\ Follower(i, k) = i + 1 /\ i \in 1 .. k /\ i + 1 \in 1 .. p
          BY <3>1 DEF Follower
        <4>2. w[i] = s[i] /\ w[Follower(i, k + 1)] = s[i + 1]
          BY <3>1, <4>1, <1>2
        <4>3. s[i] # before
          <5>1. p # 0 /\ p \in 1 .. k /\ before = s[p] /\ i # p
            BY <3>1
          <5> QED BY <5>1, <4>1, <1>1
        <4>4. s[i + 1] # after
          <5>1. \E l \in 1 .. k : after = s[l] /\ l # i + 1
            BY <3>1
          <5>2. i + 1 \in 1 .. k
            BY <3>1
          <5> QED BY <5>1, <5>2, <1>1
        <4>5. Stays(i, i + 1)
          BY <4>1, <4>2, <4>3, <4>4
        <4> QED BY <4>5, <2>1
      <3>2. CASE i > p + 1 /\ i < k + 1
        <4>1. /\ Follower(i, k + 1) = i + 1 /\ Follower(i - 1, k) = i /\ i - 1 \in 1 .. k
              /\ i \in 1 .. k /\ i \in p + 2 .. k + 1 /\ i + 1 \in p + 2 .. k + 1
          BY <3>2 DEF Follower
        <4>2. w[i] = s[i - 1] /\ w[Follower(i, k + 1)] = s[i]
          BY <4>1, <1>2
        <4>3. s[i - 1] # before
          <5>1. \E l \in 1 .. k : before = s[l] /\ l # i - 1
            BY <3>2
          <5> QED BY <5>1, <4>1, <1>1
        <4>4. s[i] # after
          <5>1. \E l \in 1 .. k : after = s[l] /\ l # i
            BY <3>2
          <5> QED BY <5>1, <4>1, <1>1
        <4>5. Stays(i - 1, i)
          BY <4>1, <4>2, <4>3, <4>4
        <4> QED BY <4>5, <2>1
      <3>3. CASE i > p + 1 /\ i = k + 1
        <4>1. Follower(i, k + 1) = 1 /\ p # 0 /\ p < k /\ i - 1 = k /\ i \in p + 2 .. k + 1
          BY <3>3, <2>4 DEF Follower
        <4>2. w[i] = s[k] /\ w[Follower(i, k + 1)] = s[1]
          BY <4>1, <1>2
        <4>3. s[k] # before /\ s[1] # after
          BY <4>1, <1>1
        <4>4. Stays(k, 1)
          BY <4>2, <4>3 DEF Follower
        <4> QED BY <4>4, <2>1
      <3>4. i < p \/ i = p \/ i > p + 1
        BY <2>4
      <3>5. i # p
        BY <2>4 DEF Follower
      <3> QED BY <3>1, <3>2, <3>3, <3>4, <3>5
    <2> QED BY <2>2, <2>3, <2>4
  <1> QED BY <1>2, <1>5, <1>6, <1>7, <1>8 DEF RingOf, w, next2, prev2

\* s without the place p.
Without(s, k, p) == [i \in 1 .. k - 1 |-> IF i < p THEN s[i] ELSE s[i + 1]]

\* Taking a node that is not the only one out of the ring leaves the others,
\* in their order.
LEMMA RingWithout ==
  ASSUME NEW k \in Nat, k > 1, NEW S, NEW first, NEW next, NEW prev, NEW N,
         S \subseteq N, DOMAIN next = N, DOMAIN prev = N,
         NEW s, RingOf(s, k, S, first, next, prev),
         NEW p \in 1 .. k, NEW n, n = s[p], NEW null
  PROVE  RingOf(Without(s, k, p), k - 1, S \ {n}, IF first = n THEN next[n] ELSE first,
                [next EXCEPT ![prev[n]] = next[n], ![n] = null],
                [prev EXCEPT ![next[n]] = prev[n], ![n] = null])
  <1> DEFINE w == Without(s, k, p)
             next2 == [next EXCEPT ![prev[n]] = next[n], ![n] = null]
             prev2 == [prev EXCEPT ![next[n]] = prev[n], ![n] = null]
             before == IF p = 1 THEN k ELSE p - 1
             after == Follower(p, k)
  <1>1. /\ s \in [1 .. k -> S]
        /\ \A i, j \in 1 .. k : s[i] = s[j] => i = j
        /\ \A i \in 1 .. k : next[s[i]] = s[Follower(i, k)] /\ prev[s[Follower(i, k)]] = s[i]
        /\ first = s[1]
    BY DEF RingOf
  <1>2. /\ before \in 1 .. k /\ after \in 1 .. k /\ before # p /\ after # p
        /\ next[n] = s[after] /\ prev[n] = s[before]
    <2>1. /\ before \in 1 .. k /\ after \in 1 .. k /\ before # p /\ after # p
          /\ Follower(before, k) = p
      BY DEF Follower
    <2> QED BY <2>1, <1>1
  <1>3. /\ w \in [1 .. k - 1 -> S \ {n}]
        /\ \A i \in 1 .. p - 1 : i \in 1 .. k - 1 => w[i] = s[i]
        /\ \A i \in p .. k - 1 : i \in 1 .. k - 1 /\ w[i] = s[i + 1]
    <2>1. ASSUME NEW i \in 1 .. k - 1
          PROVE  (IF i < p THEN s[i] ELSE s[i + 1]) \in S \ {n}
      <3>1. CASE i < p
        BY <3>1, <1>1
      <3>2. CASE i >= p
        <4>1. i + 1 \in 1 .. k /\ i + 1 # p
          BY <3>2
        <4> QED BY <3>2, <4>1, <1>1
      <3> QED BY <3>1, <3>2
    <2> QED BY <2>1 DEF Without
  <1>4. /\ next2[s[before]] = s[after]
        /\ \A x \in S \ {n} : x # s[before] => next2[x] = next[x]
        /\ prev2[s[after]] = s[before]
        /\ \A x \in S \ {n} : x # s[after] => prev2[x] = prev[x]
    <2>1. s[before] \in S /\ s[after] \in S /\ s[before] # n /\ s[after] # n
      BY <1>1, <1>2
    <2> HIDE DEF before, after
    <2> QED BY <1>2, <2>1
  <1> HIDE DEF w, next2, prev2
  <1>5. ASSUME NEW x \in S \ {n} PROVE \E i \in 1 .. k - 1 : w[i] = x
    <2>1. PICK i \in 1 .. k : s[i] = x
      BY DEF RingOf
    <2>2. CASE i < p
      BY <2>1, <2>2, <1>3
    <2>3. CASE i > p
      <3>1. i - 1 \in p .. k - 1 /\ (i - 1) + 1 = i
        BY <2>3
      <3> QED BY <2>1, <3>1, <1>3
    <2>4. i # p
      BY <2>1
    <2> QED BY <2>2, <2>3, <2>4
  <1>6. ASSUME NEW i \in 1 .. k - 1, NEW j \in 1 .. k - 1, w[i] = w[j] PROVE i = j
    <2> DEFINE Old(l) == IF l < p THEN l ELSE l + 1
    <2>1. \A l \in 1 .. k - 1 : Old(l) \in 1 .. k /\ w[l] = s[Old(l)]
      BY <1>3
    <2>2. Old(i) = Old(j)
      BY <2>1, <1>1, <1>6
    <2> QED BY <2>2
  <1>7. (IF first = n THEN next[n] ELSE first) = w[1]
    <2>1. CASE p = 1
      BY <2>1, <1>1, <1>2, <1>3 DEF Follower
    <2>2. CASE p # 1
      BY <2>2, <1>1, <1>3
    <2> QED BY <2>1, <2>2
  <1>8. ASSUME NEW i \in 1 .. k - 1
        PROVE  next2[w[i]] = w[Follower(i, k - 1)] /\ prev2[w[Follower(i, k - 1)]] = w[i]
    <2> DEFINE j == Follower(i, k - 1)
               Old(l) == IF l < p THEN l ELSE l + 1
    <2>1. /\ \A l \in 1 .. k - 1 : Old(l) \in 1 .. k /\ Old(l) # p /\ w[l] = s[Old(l)]
          /\ j \in 1 .. k - 1
      BY <1>3 DEF Follower
    <2>2. \A l \in 1 .. k - 1 : w[l] \in S \ {n}
      BY <1>3
    <2>3. CASE Old(i) = before
      <3>1. Old(j) = after
        BY <2>3 DEF Follower
      <3> QED BY <2>1, <2>3, <3>1, <1>4
    <2>4. CASE Old(i) # before
      <3>1. Follower(Old(i), k) = Old(j) /\ Old(j) # after
        BY <2>4 DEF Follower
      <3>2. w[i] # s[before] /\ w[j] # s[after]
        BY <2>1, <2>4, <3>1, <1>1, <1>2
      <3>3. next[w[i]] = w[j] /\ prev[w[j]] = w[i]
        BY <2>1, <3>1, <1>1
      <3> QED BY <2>1, <2>2, <3>2, <3>3, <1>4
    <2> QED BY <2>3, <2>4
  <1> QED BY <1>3, <1>5, <1>6, <1>7, <1>8 DEF RingOf, w, next2, prev2

\* The order of one node, and of none.
LEMMA RingOfOne ==
  ASSUME NEW n, NEW next, NEW prev, next[n] = n, prev[n] = n
  PROVE  RingOf([i \in 1 .. 1 |-> n], 1, {n}, n, next, prev)
  BY DEF RingOf, Follower

\* No nodes have an order, too.
LEMMA RingOfNone ==
  ASSUME NEW first, NEW next, NEW prev
  PROVE  \E s : RingOf(s, 0, {}, first, next, prev)
  <1> DEFINE s == [i \in 1 .. 0 |-> i]
  <1>1. RingOf(s, 0, {}, first, next, prev)
    BY DEF RingOf
  <1> QED BY <1>1

-----------------------------------------------------------------------------
(* The invariant                                                           *)

\* A search has looked at all nodes before the one it is at.
SearchInv ==
  pc = "search" =>
    \E k \in 1 .. Size :
      p_node = Order[k] /\ \A i \in 1 .. k - 1 : p_item[Order[i]] # sought

ListInv == TypeOK /\ OneRing /\ SearchInv

\* What TypeOK says of the heap, and of the loops.
HeapOK ==
  /\ allocated \subseteq Node
  /\ p_list \in Position /\ (p_list = NULL <=> allocated = {})
  /\ p_prev \in [Node -> Pointer] /\ p_next \in [Node -> Pointer]
  /\ p_item \in [Node -> Item \cup {NULL}]
  /\ \A n \in Node : p_item[n] = NULL <=> n \notin allocated

LoopsOK ==
  /\ pc \in {"idle", "search", "destroy"}
  /\ p_node \in Position /\ sought \in Item \cup {NULL}
  /\ p_node # NULL <=> pc = "search"
  /\ sought # NULL <=> pc = "search"

\* They are all of it, now and after a step.
LEMMA TypeParts == (TypeOK <=> HeapOK /\ LoopsOK) /\ (TypeOK' <=> HeapOK' /\ LoopsOK')
  BY DEF TypeOK, HeapOK, LoopsOK

\* The heap is finite, and so is what is allocated of it.
LEMMA SizeIs ==
  ASSUME HeapOK
  PROVE  /\ IsFiniteSet(allocated) /\ Size \in Nat
         /\ allocated = {} <=> Size = 0
  BY ListAssumption, FS_Subset, FS_CardinalityType, FS_EmptySet DEF HeapOK, Size

\* Any ring of the next state is its order.
LEMMA OrderIs ==
  ASSUME Size' \in Nat, NEW s, RingOf(s, Size', allocated', p_list', p_next', p_prev')
  PROVE  Order' = s /\ OneRing'
  <1>1. s \in Orders' /\ IsOrder(s)'
    BY DEF Orders, IsOrder, RingOf, Follower
  <1>2. Order' \in Orders' /\ IsOrder(Order)'
    BY <1>1 DEF Order
  <1>3. RingOf(Order', Size', allocated', p_list', p_next', p_prev')
    BY <1>2 DEF Orders, IsOrder, RingOf, Follower
  <1>4. Order' = s
    BY <1>3, OneOrder
  <1> QED BY <1>1, <1>4 DEF OneRing

\* The order of a state that has one ring is a ring.
LEMMA OrderOfRing ==
  ASSUME OneRing
  PROVE  RingOf(Order, Size, allocated, p_list, p_next, p_prev)
  <1>1. Order \in Orders /\ IsOrder(Order)
    BY DEF OneRing, Order
  <1> QED BY <1>1, OrderIsRing

\* The entry of node n with item x.
EntryOf(n, x) == [node |-> n, item |-> x]

EntriesAre(s, k, items) == [i \in 1 .. k |-> EntryOf(s[i], items[s[i]])]

\* The entries are those of the nodes in their order.
LEMMA EntriesIs == Entries = EntriesAre(Order, Size, p_item)
  BY DEF Entries, EntriesAre, EntryOf

\* s puts elements of S at the places 1 .. k.
Places(s, k, S) == s \in [1 .. k -> S]

\* Where a node gets is where its entry gets.
LEMMA EntriesWith ==
  ASSUME NEW k \in Nat, NEW S, NEW s, Places(s, k, S), NEW n, NEW x, NEW p \in 0 .. k,
         NEW items, NEW items2, items2[n] = x, \A m \in S : items2[m] = items[m]
  PROVE  EntriesAre(With(s, k, p, n), k + 1, items2)
         = With(EntriesAre(s, k, items), k, p, EntryOf(n, x))
  <1>1. s \in [1 .. k -> S]
    BY DEF Places
  <1>2. ASSUME NEW i \in 1 .. k + 1
        PROVE  EntryOf(With(s, k, p, n)[i], items2[With(s, k, p, n)[i]])
               = With(EntriesAre(s, k, items), k, p, EntryOf(n, x))[i]
    <2>1. CASE i <= p
      <3>1. i \in 1 .. k
        BY <2>1
      <3> QED BY <2>1, <3>1, <1>1 DEF With, EntriesAre
    <2>2. CASE i = p + 1
      BY <2>2, <1>1 DEF With, EntriesAre
    <2>3. CASE i > p + 1
      <3>1. i - 1 \in 1 .. k
        BY <2>3
      <3> QED BY <2>3, <3>1, <1>1 DEF With, EntriesAre
    <2> QED BY <2>1, <2>2, <2>3
  <1>3. EntriesAre(With(s, k, p, n), k + 1, items2)
        = [i \in 1 .. k + 1 |-> EntryOf(With(s, k, p, n)[i], items2[With(s, k, p, n)[i]])]
    BY DEF EntriesAre
  <1>4. With(EntriesAre(s, k, items), k, p, EntryOf(n, x))
        = [i \in 1 .. k + 1 |-> With(EntriesAre(s, k, items), k, p, EntryOf(n, x))[i]]
    BY DEF With
  <1> QED BY <1>2, <1>3, <1>4

\* The place that a node leaves is the one that its entry leaves.
LEMMA EntriesWithout ==
  ASSUME NEW k \in Nat, k > 0, NEW S, NEW s, Places(s, k, S), NEW p \in 1 .. k,
         \A i, j \in 1 .. k : s[i] = s[j] => i = j,
         NEW items, NEW items2, \A m \in S : m # s[p] => items2[m] = items[m]
  PROVE  EntriesAre(Without(s, k, p), k - 1, items2)
         = Without(EntriesAre(s, k, items), k, p)
  <1>1. s \in [1 .. k -> S]
    BY DEF Places
  <1>2. ASSUME NEW i \in 1 .. k - 1
        PROVE  EntryOf(Without(s, k, p)[i], items2[Without(s, k, p)[i]])
               = Without(EntriesAre(s, k, items), k, p)[i]
    <2>1. CASE i < p
      <3>1. i \in 1 .. k /\ s[i] # s[p]
        BY <2>1
      <3> QED BY <2>1, <3>1, <1>1 DEF Without, EntriesAre
    <2>2. CASE i >= p
      <3>1. i + 1 \in 1 .. k /\ s[i + 1] # s[p]
        BY <2>2
      <3> QED BY <2>2, <3>1, <1>1 DEF Without, EntriesAre
    <2> QED BY <2>1, <2>2
  <1>3. EntriesAre(Without(s, k, p), k - 1, items2)
        = [i \in 1 .. k - 1 |-> EntryOf(Without(s, k, p)[i], items2[Without(s, k, p)[i]])]
    BY DEF EntriesAre
  <1>4. Without(EntriesAre(s, k, items), k, p)
        = [i \in 1 .. k - 1 |-> Without(EntriesAre(s, k, items), k, p)[i]]
    BY DEF Without
  <1> QED BY <1>2, <1>3, <1>4

\* A sequence is a function.
LEMMA SeqIs ==
  ASSUME NEW T, NEW r \in Seq(T)
  PROVE  r = [i \in 1 .. Len(r) |-> r[i]]
  OBVIOUS

\* With and Without are what SequencesExt calls InsertAt and RemoveAt.
LEMMA WithIsInsertAt ==
  ASSUME NEW k \in Nat, NEW T, NEW e, Places(e, k, T), NEW x \in T, NEW p \in 0 .. k
  PROVE  e \in Seq(T) /\ Len(e) = k /\ InsertAt(e, p + 1, x) = With(e, k, p, x)
  <1>1. e \in Seq(T) /\ Len(e) = k
    BY DEF Places
  <1>2. /\ SubSeq(e, 1, p) \in Seq(T) /\ Len(SubSeq(e, 1, p)) = p
        /\ \A i \in 1 .. p : SubSeq(e, 1, p)[i] = e[i]
    BY <1>1
  <1>3. /\ SubSeq(e, p + 1, k) \in Seq(T) /\ Len(SubSeq(e, p + 1, k)) = k - p
        /\ \A i \in 1 .. k - p : SubSeq(e, p + 1, k)[i] = e[p + i]
    BY <1>1
  <1> DEFINE a == SubSeq(e, 1, p)
             b == SubSeq(e, p + 1, k)
             r == a \o <<x>> \o b
  <1>4. InsertAt(e, p + 1, x) = r
    <2>1. (p + 1) - 1 = p
      OBVIOUS
    <2> QED BY <1>1, <2>1 DEF InsertAt
  <1> HIDE DEF a, b
  <1>5. r \in Seq(T) /\ Len(r) = k + 1
    BY <1>2, <1>3 DEF a, b
  <1>6. \A i \in 1 .. k + 1 : r[i] = With(e, k, p, x)[i]
    BY <1>2, <1>3 DEF a, b, With
  <1>7. r = [i \in 1 .. k + 1 |-> r[i]]
    BY <1>5, SeqIs
  <1>8. With(e, k, p, x) = [i \in 1 .. k + 1 |-> With(e, k, p, x)[i]]
    BY DEF With
  <1> QED BY <1>1, <1>4, <1>6, <1>7, <1>8

\* RemoveAt skips a place, and Tail the first one.
LEMMA WithoutIsRemoveAt ==
  ASSUME NEW k \in Nat, NEW T, NEW e, Places(e, k, T), NEW p \in 1 .. k
  PROVE  /\ e \in Seq(T) /\ Len(e) = k /\ RemoveAt(e, p) = Without(e, k, p)
         /\ Tail(e) = Without(e, k, 1)
  <1>1. e \in Seq(T) /\ Len(e) = k
    BY DEF Places
  <1>2. /\ SubSeq(e, 1, p - 1) \in Seq(T) /\ Len(SubSeq(e, 1, p - 1)) = p - 1
        /\ \A i \in 1 .. p - 1 : SubSeq(e, 1, p - 1)[i] = e[i]
    BY <1>1
  <1>3. /\ SubSeq(e, p + 1, k) \in Seq(T) /\ Len(SubSeq(e, p + 1, k)) = k - p
        /\ \A i \in 1 .. k - p : SubSeq(e, p + 1, k)[i] = e[p + i]
    BY <1>1
  <1> DEFINE a == SubSeq(e, 1, p - 1)
             b == SubSeq(e, p + 1, k)
             r == a \o b
  <1>4. RemoveAt(e, p) = r
    BY <1>1 DEF RemoveAt
  <1> HIDE DEF a, b
  <1>5. r \in Seq(T) /\ Len(r) = k - 1
    BY <1>2, <1>3 DEF a, b
  <1>6. \A i \in 1 .. k - 1 : r[i] = Without(e, k, p)[i]
    BY <1>2, <1>3 DEF a, b, Without
  <1>7. r = [i \in 1 .. k - 1 |-> r[i]]
    <2>1. r = [i \in 1 .. Len(r) |-> r[i]]
      BY <1>5, SeqIs
    <2> QED BY <1>5, <2>1
  <1>8. Without(e, k, p) = [i \in 1 .. k - 1 |-> Without(e, k, p)[i]]
    BY DEF Without
  <1>9. Tail(e) = Without(e, k, 1)
    <2>1. Tail(e) = [i \in 1 .. k - 1 |-> e[i + 1]]
      <3>1. /\ Tail(e) \in Seq(T) /\ Len(Tail(e)) = k - 1
            /\ \A i \in 1 .. k - 1 : Tail(e)[i] = e[i + 1]
        BY <1>1
      <3>2. Tail(e) = [i \in 1 .. Len(Tail(e)) |-> Tail(e)[i]]
        BY <3>1, SeqIs
      <3> QED BY <3>1, <3>2
    <2>2. Without(e, k, 1) = [i \in 1 .. k - 1 |-> e[i + 1]]
      BY DEF Without
    <2> QED BY <2>1, <2>2
  <1> QED BY <1>1, <1>4, <1>6, <1>7, <1>8, <1>9

\* Every entry has a node and an item.
LEMMA EntriesAreEntries ==
  ASSUME HeapOK, OneRing
  PROVE  Entries \in [1 .. Size -> [node : Node, item : Item]]
  <1>1. RingOf(Order, Size, allocated, p_list, p_next, p_prev)
    BY OrderOfRing
  <1>2. ASSUME NEW i \in 1 .. Size
        PROVE  EntryOf(Order[i], p_item[Order[i]]) \in [node : Node, item : Item]
    <2>1. Order[i] \in allocated
      BY <1>1 DEF RingOf
    <2>2. Order[i] \in Node /\ p_item[Order[i]] \in Item
      BY <2>1 DEF HeapOK
    <2> QED BY <2>2 DEF EntryOf
  <1> QED BY <1>2, EntriesIs DEF EntriesAre

-----------------------------------------------------------------------------
(* Link and Unlink                                                         *)

\* What the heap is like with n at the place p + 1 with this item.
Added(n, item, p) ==
  /\ HeapOK' /\ OneRing'
  /\ Entries' = InsertAt(Entries, p + 1, EntryOf(n, item))

\* The first node.
LEMMA FirstIsLinked ==
  ASSUME HeapOK, OneRing, p_list = NULL, NEW item \in Item, NEW n \in Node,
         LinkFirst(n, item)
  PROVE  Added(n, item, 0) /\ Size = 0
  <1>1. allocated = {} /\ Size = 0
    BY SizeIs DEF HeapOK
  <1>2. /\ allocated' = {n} /\ p_list' = n
        /\ p_item' = [p_item EXCEPT ![n] = item]
        /\ p_prev' \in [Node -> Pointer] /\ p_next' \in [Node -> Pointer]
        /\ p_prev'[n] = n /\ p_next'[n] = n
    BY <1>1 DEF LinkFirst, Link, HeapOK, Pointer
  <1>3. HeapOK'
    BY <1>1, <1>2, ListAssumption DEF HeapOK, Position
  <1>4. Size' = 1
    BY <1>2, FS_Singleton DEF Size
  <1> DEFINE s == [i \in 1 .. 1 |-> n]
  <1>5. RingOf(s, Size', allocated', p_list', p_next', p_prev')
    BY <1>2, <1>4, RingOfOne
  <1>6. Order' = s /\ OneRing'
    BY <1>4, <1>5, OrderIs
  <1>7. Entries' = [i \in 1 .. 1 |-> EntryOf(n, item)]
    <2>1. Entries' = [i \in 1 .. Size' |-> [node |-> Order'[i], item |-> p_item'[Order'[i]]]]
      BY DEF Entries
    <2>2. p_item'[n] = item
      BY <1>2 DEF HeapOK
    <2> QED BY <2>1, <2>2, <1>4, <1>6 DEF EntryOf
  <1>8. InsertAt(Entries, 0 + 1, EntryOf(n, item)) = [i \in 1 .. 1 |-> EntryOf(n, item)]
    <2> DEFINE T == [node : Node, item : Item]
    <2>1. EntryOf(n, item) \in T
      BY DEF EntryOf
    <2>2. Places(Entries, 0, T)
      BY <1>1, EntriesAreEntries DEF Places
    <2> HIDE DEF T
    <2>3. \A p \in 0 .. 0 : InsertAt(Entries, p + 1, EntryOf(n, item))
                            = With(Entries, 0, p, EntryOf(n, item))
      BY <2>1, <2>2, WithIsInsertAt
    <2>4. With(Entries, 0, 0, EntryOf(n, item)) = [i \in 1 .. 1 |-> EntryOf(n, item)]
      BY DEF With
    <2> QED BY <2>3, <2>4
  <1> QED BY <1>1, <1>3, <1>6, <1>7, <1>8 DEF Added

\* Any other node.
LEMMA NodeIsLinked ==
  ASSUME HeapOK, OneRing, p_list # NULL,
         NEW item \in Item, NEW n \in Node \ allocated, NEW p \in 0 .. Size,
         NEW before, before = Order[IF p = 0 THEN Size ELSE p],
         NEW after, after = Order[IF p = 0 \/ p = Size THEN 1 ELSE p + 1],
         Link(n, item, before, after), p_list' = IF p = 0 THEN n ELSE p_list
  PROVE  Added(n, item, p)
  <1>1. Size \in Nat \ {0} /\ IsFiniteSet(allocated)
    BY SizeIs DEF HeapOK
  <1>2. RingOf(Order, Size, allocated, p_list, p_next, p_prev)
    BY OrderOfRing
  <1>3. Order \in [1 .. Size -> allocated]
    BY <1>2 DEF RingOf
  <1>4. before \in allocated /\ after \in allocated
    BY <1>1, <1>3
  <1>5. Size' = Size + 1
    BY <1>1, FS_AddElement DEF Size, Link
  <1>6. /\ allocated' = allocated \cup {n}
        /\ p_item' = [p_item EXCEPT ![n] = item]
        /\ p_prev' = [p_prev EXCEPT ![n] = before, ![after] = n]
        /\ p_next' = [p_next EXCEPT ![n] = after, ![before] = n]
    BY DEF Link
  <1>7. HeapOK'
    BY <1>4, <1>6, ListAssumption DEF HeapOK, Position, Pointer
  <1>8. RingOf(With(Order, Size, p, n), Size', allocated', p_list', p_next', p_prev')
    <2>1. allocated \subseteq Node /\ DOMAIN p_next = Node /\ DOMAIN p_prev = Node
      BY DEF HeapOK
    <2> HIDE DEF Order, Size
    <2> QED BY <1>1, <1>2, <1>5, <1>6, <2>1, RingWith
  <1>9. Order' = With(Order, Size, p, n) /\ OneRing'
    BY <1>1, <1>5, <1>8, OrderIs
  <1>10. Entries' = EntriesAre(With(Order, Size, p, n), Size + 1, p_item')
    BY <1>5, <1>9 DEF Entries, EntriesAre, EntryOf
  <1>11. Entries' = With(Entries, Size, p, EntryOf(n, item))
    <2>1. /\ p_item'[n] = item /\ \A m \in allocated : p_item'[m] = p_item[m]
          /\ Size \in Nat /\ Places(Order, Size, allocated)
      BY <1>1, <1>3, <1>6 DEF HeapOK, Places
    <2>2. EntriesAre(With(Order, Size, p, n), Size + 1, p_item')
          = With(EntriesAre(Order, Size, p_item), Size, p, EntryOf(n, item))
      BY <2>1, EntriesWith
    <2> QED BY <1>10, <2>2, EntriesIs
  <1>12. Entries' = InsertAt(Entries, p + 1, EntryOf(n, item))
    <2> DEFINE T == [node : Node, item : Item]
    <2>1. EntryOf(n, item) \in T /\ Places(Entries, Size, T) /\ Size \in Nat
      BY <1>1, EntriesAreEntries DEF EntryOf, Places
    <2> HIDE DEF T
    <2>2. InsertAt(Entries, p + 1, EntryOf(n, item)) = With(Entries, Size, p, EntryOf(n, item))
      BY <2>1, WithIsInsertAt
    <2> QED BY <1>11, <2>2
  <1> QED BY <1>7, <1>9, <1>12 DEF Added

\* What the heap is like without the node at place p.
Removed(p) ==
  /\ HeapOK' /\ OneRing'
  /\ Entries' = RemoveAt(Entries, p)

\* Unlink takes the node at a place out, and its entry, also the last one.
LEMMA NodeIsUnlinked ==
  ASSUME HeapOK, OneRing, NEW p \in 1 .. Size, NEW n, n = Order[p], Unlink(n)
  PROVE  Removed(p)
  <1>1. Size \in Nat \ {0} /\ IsFiniteSet(allocated)
    BY SizeIs
  <1>2. RingOf(Order, Size, allocated, p_list, p_next, p_prev)
    BY OrderOfRing
  <1>3. /\ Order \in [1 .. Size -> allocated] /\ p_list = Order[1]
        /\ \A i, j \in 1 .. Size : Order[i] = Order[j] => i = j
    BY <1>1, <1>2 DEF RingOf
  <1>4. n \in allocated /\ n \in Node /\ allocated \subseteq Node
    BY <1>3 DEF HeapOK
  <1>5. /\ allocated' = allocated \ {n}
        /\ p_item' = [p_item EXCEPT ![n] = NULL]
        /\ p_next' = [p_next EXCEPT ![p_prev[n]] = p_next[n], ![n] = NULL]
        /\ p_prev' = [p_prev EXCEPT ![p_next[n]] = p_prev[n], ![n] = NULL]
        /\ p_list' = IF p_list # n THEN p_list
                     ELSE IF p_prev[n] = n THEN NULL ELSE p_next[n]
    BY DEF Unlink, Free
  <1>6. Size' = Size - 1
    BY <1>1, <1>4, <1>5, FS_RemoveElement DEF Size
  <1>7. \E i, j \in 1 .. Size : /\ p_prev[n] = Order[i] /\ p_next[n] = Order[j]
                                /\ (Size # 1 => i # p /\ j # p)
    <2> DEFINE i == IF p = 1 THEN Size ELSE p - 1
    <2>1. i \in 1 .. Size /\ Follower(i, Size) = p /\ Follower(p, Size) \in 1 .. Size
      BY <1>1 DEF Follower
    <2>2. p_prev[n] = Order[i] /\ p_next[n] = Order[Follower(p, Size)]
      BY <1>2, <2>1 DEF RingOf
    <2>3. Size # 1 => i # p /\ Follower(p, Size) # p
      BY <1>1 DEF Follower
    <2> QED BY <2>1, <2>2, <2>3
  <1>8. /\ p_prev[n] \in allocated /\ p_next[n] \in allocated
        /\ Size # 1 => p_prev[n] # n /\ p_next[n] # n
    BY <1>3, <1>7
  <1>9. RingOf(Without(Order, Size, p), Size', allocated', p_list', p_next', p_prev')
        /\ (p_list' = NULL <=> Size = 1) /\ p_list' \in (allocated \ {n}) \cup {NULL}
    <2>1. CASE Size = 1
      <3>1. p = 1 /\ p_list = n /\ p_prev[n] = n
        BY <2>1, <1>3, <1>7
      <3>2. allocated' = {}
        BY <2>1, <3>1, <1>2, <1>5 DEF RingOf
      <3>3. p_list' = NULL
        BY <3>1, <1>5
      <3>4. RingOf(Without(Order, 1, 1), 0, {}, NULL, p_next', p_prev')
        BY DEF RingOf, Without
      <3> QED BY <2>1, <3>1, <3>2, <3>3, <3>4, <1>6
    <2>2. CASE Size # 1
      <3>1. p_list' = IF p_list = n THEN p_next[n] ELSE p_list
        BY <2>2, <1>5, <1>8
      <3>2. p_list' \in allocated \ {n} /\ p_list' # NULL
        BY <2>2, <3>1, <1>1, <1>3, <1>4, <1>8, ListAssumption
      <3>3. Size > 1 /\ DOMAIN p_next = Node /\ DOMAIN p_prev = Node
        BY <2>2, <1>1 DEF HeapOK
      <3>4. RingOf(Without(Order, Size, p), Size', allocated', p_list', p_next', p_prev')
        <4>1. RingOf(Without(Order, Size, p), Size - 1, allocated \ {n},
                     IF p_list = n THEN p_next[n] ELSE p_list,
                     [p_next EXCEPT ![p_prev[n]] = p_next[n], ![n] = NULL],
                     [p_prev EXCEPT ![p_next[n]] = p_prev[n], ![n] = NULL])
          BY <1>1, <1>2, <1>4, <3>3, RingWithout
        <4> QED BY <1>5, <1>6, <3>1, <4>1
      <3> QED BY <2>2, <3>2, <3>4
    <2> QED BY <2>1, <2>2
  <1>10. allocated' = {} <=> Size = 1
    BY <1>1, <1>4, <1>5, <1>6, FS_RemoveElement, FS_EmptySet DEF Size
  <1>11. HeapOK'
    <2>1. allocated' \subseteq Node /\ p_list' \in Position' /\ (p_list' = NULL <=> allocated' = {})
      BY <1>4, <1>5, <1>9, <1>10 DEF Position
    <2>2. p_prev' \in [Node -> Pointer] /\ p_next' \in [Node -> Pointer]
      BY <1>4, <1>5, <1>8 DEF HeapOK, Pointer
    <2>3. /\ p_item' \in [Node -> Item \cup {NULL}]
          /\ \A m \in Node : p_item'[m] = NULL <=> m \notin allocated'
      BY <1>4, <1>5 DEF HeapOK
    <2> QED BY <2>1, <2>2, <2>3 DEF HeapOK
  <1>12. Order' = Without(Order, Size, p) /\ OneRing'
    BY <1>1, <1>6, <1>9, OrderIs
  <1>13. Entries' = EntriesAre(Without(Order, Size, p), Size - 1, p_item')
    BY <1>6, <1>12 DEF Entries, EntriesAre, EntryOf
  <1>14. Entries' = Without(Entries, Size, p)
    <2>1. /\ \A m \in allocated : m # Order[p] => p_item'[m] = p_item[m]
          /\ Size \in Nat /\ Size > 0 /\ Places(Order, Size, allocated)
      BY <1>1, <1>3, <1>4, <1>5 DEF HeapOK, Places
    <2>2. EntriesAre(Without(Order, Size, p), Size - 1, p_item')
          = Without(EntriesAre(Order, Size, p_item), Size, p)
      BY <1>3, <2>1, EntriesWithout
    <2> QED BY <1>13, <2>2, EntriesIs
  <1>15. Entries' = RemoveAt(Entries, p)
    <2> DEFINE T == [node : Node, item : Item]
    <2>1. Places(Entries, Size, T) /\ Size \in Nat
      BY <1>1, EntriesAreEntries DEF Places
    <2> HIDE DEF T
    <2>2. RemoveAt(Entries, p) = Without(Entries, Size, p)
      BY <2>1, WithoutIsRemoveAt
    <2> QED BY <1>14, <2>2
  <1> QED BY <1>11, <1>12, <1>15 DEF Removed

-----------------------------------------------------------------------------
(* The calls                                                               *)

\* Where the nodes are, and their neighbours.
LEMMA PlacesAre ==
  ASSUME HeapOK, OneRing
  PROVE  /\ Size \in Nat /\ (p_list = NULL <=> Size = 0)
         /\ \A k \in 1 .. Size : Order[k] \in allocated
         /\ \A n \in allocated : \E k \in 1 .. Size : Order[k] = n
         /\ \A i, j \in 1 .. Size : Order[i] = Order[j] => i = j
         /\ p_list # NULL => p_list = Order[1]
         /\ \A k \in 1 .. Size :
              /\ p_next[Order[k]] = Order[IF k = Size THEN 1 ELSE k + 1]
              /\ p_prev[Order[k]] = Order[IF k = 1 THEN Size ELSE k - 1]
  <1>1. RingOf(Order, Size, allocated, p_list, p_next, p_prev)
    BY OrderOfRing
  <1>2. Size \in Nat /\ (p_list = NULL <=> Size = 0)
    BY SizeIs DEF HeapOK
  <1>3. ASSUME NEW k \in 1 .. Size
        PROVE  /\ p_next[Order[k]] = Order[IF k = Size THEN 1 ELSE k + 1]
               /\ p_prev[Order[k]] = Order[IF k = 1 THEN Size ELSE k - 1]
    <2> DEFINE i == IF k = 1 THEN Size ELSE k - 1
    <2>1. i \in 1 .. Size /\ Follower(i, Size) = k
      BY <1>2 DEF Follower
    <2>2. p_prev[Order[Follower(i, Size)]] = Order[i] /\ p_next[Order[k]] = Order[Follower(k, Size)]
      BY <1>1, <2>1 DEF RingOf
    <2> QED BY <2>1, <2>2 DEF Follower
  <1> QED BY <1>1, <1>2, <1>3 DEF RingOf

\* What the entries are.
LEMMA EntriesAt ==
  ASSUME HeapOK, OneRing
  PROVE  /\ Len(Entries) = Size /\ (Entries = <<>> <=> p_list = NULL)
         /\ \A k \in 1 .. Size :
              Entries[k].node = Order[k] /\ Entries[k].item = p_item[Order[k]]
  <1>1. Entries = [k \in 1 .. Size |-> EntryOf(Order[k], p_item[Order[k]])]
    BY EntriesIs DEF EntriesAre
  <1>2. Size \in Nat /\ (p_list = NULL <=> Size = 0)
    BY PlacesAre
  <1>3. Len(Entries) = Size /\ (Entries = <<>> <=> Size = 0)
    BY <1>1, <1>2
  <1> QED BY <1>1, <1>2, <1>3 DEF EntryOf

\* ItemSequence takes them from SequencesExt, too.
LEMMA SameOperators ==
  ASSUME NEW s, NEW i, NEW e
  PROVE  Sequence!InsertAt(s, i, e) = InsertAt(s, i, e) /\ Sequence!RemoveAt(s, i) = RemoveAt(s, i)
  BY DEF Sequence!InsertAt, InsertAt, Sequence!RemoveAt, RemoveAt

\* An added node is an entry that is put.
LEMMA AddedIsPut ==
  ASSUME HeapOK, OneRing, NEW n \in Node \ allocated, NEW item, NEW p \in 0 .. Size,
         Added(n, item, p), ret' = n
  PROVE  Sequence!Put(item, p + 1)
  <1>1. \A i \in 1 .. Len(Entries) : Entries[i].node # n
    BY EntriesAt, PlacesAre
  <1>2. Entries' = InsertAt(Entries, p + 1, [node |-> n, item |-> item])
    BY DEF Added, EntryOf
  <1>3. Entries' = Sequence!InsertAt(Entries, p + 1, [node |-> n, item |-> item])
    BY <1>2, SameOperators
  <1> QED BY <1>1, <1>3 DEF Sequence!Put

\* list_insert_before puts the item where ItemSequence says, or last.
LEMMA InsertBeforeStep ==
  ASSUME HeapOK, OneRing, NEW position \in Position, NEW item \in Item,
         list_insert_before(position, item)
  PROVE  /\ HeapOK' /\ OneRing'
         /\ Sequence!InsertBefore(position, item) \/ GoesLast(item)
  <1>1. PICK n \in Node \ allocated :
          /\ \/ p_list = NULL /\ LinkFirst(n, item)
             \/ /\ p_list # NULL /\ position = NULL
                /\ Link(n, item, p_prev[p_list], p_list)
                /\ p_list' = n
             \/ /\ p_list # NULL /\ position # NULL
                /\ Link(n, item, p_prev[position], position)
                /\ p_list' = p_list
          /\ Return("list_insert_before", position, item, n)
    BY DEF list_insert_before
  <1>2. Sequence!Called("list_insert_before", position, item) /\ ret' = n
    BY <1>1 DEF Return, Sequence!Called
  <1>3. /\ Size \in Nat /\ (p_list = NULL <=> Size = 0)
        /\ p_list # NULL => p_list = Order[1] /\ p_prev[p_list] = Order[Size]
    BY PlacesAre
  <1>4. CASE p_list = NULL /\ LinkFirst(n, item)
    <2>1. Added(n, item, 0) /\ position = NULL
      BY <1>4, FirstIsLinked DEF Position, HeapOK
    <2>2. Sequence!Put(item, 0 + 1)
      BY <1>2, <1>3, <2>1, AddedIsPut
    <2> QED BY <1>2, <2>1, <2>2 DEF Added, Sequence!InsertBefore
  <1>5. CASE /\ p_list # NULL /\ position = NULL
             /\ Link(n, item, p_prev[p_list], p_list) /\ p_list' = n
    <2>1. Added(n, item, 0)
      <3>1. PICK p \in 0 .. Size : p = 0
        BY <1>3
      <3>2. /\ p_prev[p_list] = Order[IF p = 0 THEN Size ELSE p]
            /\ p_list = Order[IF p = 0 \/ p = Size THEN 1 ELSE p + 1]
            /\ p_list' = IF p = 0 THEN n ELSE p_list
        BY <1>3, <1>5, <3>1
      <3>3. Added(n, item, p)
        BY <1>5, <3>2, NodeIsLinked
      <3> QED BY <3>1, <3>3
    <2>2. Sequence!Put(item, 0 + 1)
      BY <1>2, <1>3, <2>1, AddedIsPut
    <2> QED BY <1>2, <1>5, <2>1, <2>2 DEF Added, Sequence!InsertBefore
  <1>6. CASE /\ p_list # NULL /\ position # NULL
             /\ Link(n, item, p_prev[position], position) /\ p_list' = p_list
    <2>1. PICK k \in 1 .. Size : Order[k] = position
      BY <1>6, PlacesAre DEF Position
    <2> DEFINE p == IF k = 1 THEN Size ELSE k - 1
    <2>2. /\ p \in 0 .. Size /\ p # 0
          /\ p_prev[position] = Order[p]
          /\ position = Order[IF p = Size THEN 1 ELSE p + 1]
      BY <1>3, <2>1, PlacesAre
    <2>3. IF k = 1 THEN position = p_list /\ p + 1 = Size + 1 ELSE p + 1 = k
      BY <1>3, <1>6, <2>1
    <2> HIDE DEF p
    <2>4. Added(n, item, p)
      BY <1>6, <2>2, NodeIsLinked
    <2>5. Sequence!Put(item, p + 1)
      BY <1>2, <2>2, <2>4, AddedIsPut
    <2>6. k \in 1 .. Len(Entries) /\ Entries[k].node = position
      BY <2>1, EntriesAt
    <2>7. CASE k = 1
      BY <1>2, <1>6, <2>3, <2>4, <2>5, <2>7 DEF Added, GoesLast
    <2>8. CASE k # 1
      BY <1>2, <2>3, <2>4, <2>5, <2>6, <2>8 DEF Added, Sequence!InsertBefore
    <2> QED BY <2>7, <2>8
  <1> QED BY <1>1, <1>4, <1>5, <1>6

\* list_insert_after does, too.
LEMMA InsertAfterStep ==
  ASSUME HeapOK, OneRing, NEW position \in Position, NEW item \in Item,
         list_insert_after(position, item)
  PROVE  HeapOK' /\ OneRing' /\ Sequence!InsertAfter(position, item)
  <1>1. PICK n \in Node \ allocated :
          /\ \/ p_list = NULL /\ LinkFirst(n, item)
             \/ /\ p_list # NULL
                /\ LinkBehind(n, item, IF position = NULL THEN p_prev[p_list] ELSE position)
                /\ p_list' = p_list
          /\ Return("list_insert_after", position, item, n)
    BY DEF list_insert_after
  <1>2. Sequence!Called("list_insert_after", position, item) /\ ret' = n
    BY <1>1 DEF Return, Sequence!Called
  <1>3. /\ Size \in Nat /\ (p_list = NULL <=> Size = 0)
        /\ p_list # NULL => p_prev[p_list] = Order[Size]
        /\ Len(Entries) = Size
    BY PlacesAre, EntriesAt
  <1>4. CASE p_list = NULL
    <2>1. Added(n, item, 0) /\ Size = 0 /\ position = NULL
      BY <1>1, <1>4, FirstIsLinked DEF Position, HeapOK
    <2>2. Sequence!Put(item, 0 + 1)
      BY <1>2, <1>3, <2>1, AddedIsPut
    <2> QED BY <1>2, <1>3, <2>1, <2>2 DEF Added, Sequence!InsertAfter
  <1>5. CASE p_list # NULL
    <2>1. \E k \in 1 .. Size : /\ Order[k] = IF position = NULL THEN p_prev[p_list] ELSE position
                               /\ position = NULL => k = Size
      BY <1>3, <1>5, PlacesAre DEF Position
    <2>2. PICK k \in 1 .. Size : /\ Order[k] = IF position = NULL THEN p_prev[p_list] ELSE position
                                 /\ position = NULL => k = Size
      BY <2>1
    <2>3. Link(n, item, Order[k], p_next[Order[k]]) /\ p_list' = p_list
      BY <1>1, <1>5, <2>2 DEF LinkBehind
    <2>4. k \in 0 .. Size /\ k # 0 /\ p_next[Order[k]] = Order[IF k = Size THEN 1 ELSE k + 1]
      BY <1>3, PlacesAre
    <2>5. Added(n, item, k)
      BY <1>5, <2>3, <2>4, NodeIsLinked
    <2>6. Sequence!Put(item, k + 1)
      BY <1>2, <2>4, <2>5, AddedIsPut
    <2>7. position # NULL => k \in 1 .. Len(Entries) /\ Entries[k].node = position
      BY <2>2, EntriesAt
    <2> QED BY <1>2, <1>3, <2>2, <2>5, <2>6, <2>7 DEF Added, Sequence!InsertAfter
  <1> QED BY <1>4, <1>5

\* The first node can be taken out, and the others.
LEMMA UnlinkStep ==
  ASSUME HeapOK, OneRing, NEW n \in allocated, Unlink(n)
  PROVE  /\ HeapOK' /\ OneRing'
         /\ \E k \in 1 .. Len(Entries) :
              Entries[k].node = n /\ Entries' = RemoveAt(Entries, k)
         /\ n = p_list => Entries' = Tail(Entries)
  <1>1. PICK k \in 1 .. Size : Order[k] = n
    BY PlacesAre
  <1>2. Removed(k)
    BY <1>1, NodeIsUnlinked
  <1>3. k \in 1 .. Len(Entries) /\ Entries[k].node = n
    BY <1>1, EntriesAt
  <1>4. ASSUME n = p_list PROVE Entries' = Tail(Entries)
    <2>1. k = 1 /\ Size \in Nat
      BY <1>1, <1>4, PlacesAre, ListAssumption DEF HeapOK
    <2> DEFINE T == [node : Node, item : Item]
    <2>2. Places(Entries, Size, T)
      BY EntriesAreEntries DEF Places
    <2> HIDE DEF T
    <2>3. RemoveAt(Entries, k) = Without(Entries, Size, k) /\ Tail(Entries) = Without(Entries, Size, 1)
      BY <2>1, <2>2, WithoutIsRemoveAt
    <2> QED BY <1>2, <2>1, <2>3 DEF Removed
  <1> QED BY <1>2, <1>3, <1>4 DEF Removed

\* The heap that is left alone.
LEMMA HeapStays ==
  ASSUME HeapOK, OneRing, UNCHANGED heapVars
  PROVE  /\ HeapOK' /\ OneRing' /\ Size' = Size /\ Order' = Order
         /\ Entries' = Entries
  <1>1. HeapOK' /\ Size' = Size
    BY DEF heapVars, HeapOK, Position, Size
  <1>2. RingOf(Order, Size', allocated', p_list', p_next', p_prev') /\ Size' \in Nat
    BY <1>1, OrderOfRing, SizeIs DEF heapVars
  <1>3. Order' = Order /\ OneRing'
    BY <1>2, OrderIs
  <1> QED BY <1>1, <1>3 DEF Entries, heapVars

\* What the queue macros return is what the sequence has there.
LEMMA EndsAre ==
  ASSUME HeapOK, OneRing
  PROVE  queue_front = Sequence!FirstItem /\ queue_back = Sequence!LastItem
  BY PlacesAre, EntriesAt DEF queue_front, queue_back, Sequence!FirstItem, Sequence!LastItem

-----------------------------------------------------------------------------
(* The steps                                                               *)

\* A call that returned, or a turn of list_destroy, leaves no search.
Ready == LoopsOK' /\ pc' # "search"

\* What leaves the loops alone does not make a search.
LEMMA IdleStaysReady ==
  ASSUME LoopsOK, UNCHANGED loopVars, pc # "search"
  PROVE  Ready
  BY ListAssumption DEF Ready, LoopsOK, loopVars, Position

\* Inserting, or failing to for want of memory, is an insertion.
LEMMA InsertsStep ==
  ASSUME ListInv, NEW position \in Position, NEW item \in Item, Inserts(position, item)
  PROVE  /\ HeapOK' /\ OneRing' /\ Ready
         /\ \/ Sequence!InsertBefore(position, item) \/ GoesLast(item)
            \/ Sequence!InsertAfter(position, item)
  <1> HeapOK /\ LoopsOK /\ OneRing
    BY TypeParts DEF ListInv
  <1>1. Ready
    <2>1. pc # "search" /\ UNCHANGED loopVars
      BY DEF Inserts, list_insert_before, list_insert_after, NoMemory
    <2> QED BY <2>1, IdleStaysReady
  <1>2. CASE list_insert_before(position, item)
    BY <1>1, <1>2, InsertBeforeStep
  <1>3. CASE list_insert_after(position, item)
    BY <1>1, <1>3, InsertAfterStep
  <1>4. ASSUME NEW name \in {"list_insert_before", "list_insert_after"},
               NoMemory(name, position, item)
        PROVE  /\ HeapOK' /\ OneRing'
               /\ Sequence!InsertBefore(position, item) \/ Sequence!InsertAfter(position, item)
    <2>1. UNCHANGED heapVars /\ Sequence!Called(name, position, item) /\ ret' = NULL
      BY <1>4 DEF NoMemory, Return, Sequence!Called
    <2>2. HeapOK' /\ OneRing' /\ Entries' = Entries
      BY <2>1, HeapStays
    <2>3. \A k : Sequence!Put(item, k)
      BY <2>1, <2>2 DEF Sequence!Put
    <2>4. position = NULL \/ \E k \in 1 .. Len(Entries) : Entries[k].node = position
      BY PlacesAre, EntriesAt DEF Position
    <2> QED BY <2>1, <2>2, <2>3, <2>4 DEF Sequence!InsertBefore, Sequence!InsertAfter
  <1> QED BY <1>1, <1>2, <1>3, <1>4 DEF Inserts

\* list_remove takes the entry of its node.
LEMMA RemoveStep ==
  ASSUME ListInv, NEW n \in Position, list_remove(n)
  PROVE  HeapOK' /\ OneRing' /\ Ready /\ Sequence!RemoveNode(n)
  <1> HeapOK /\ LoopsOK /\ OneRing
    BY TypeParts DEF ListInv
  <1>1. Ready
    BY IdleStaysReady DEF list_remove
  <1>2. Sequence!Called("list_remove", n, NULL) /\ ret' = NULL
    BY DEF list_remove, Return, Sequence!Called
  <1>3. CASE p_list = NULL /\ UNCHANGED heapVars
    BY <1>1, <1>2, <1>3, HeapStays, EntriesAt DEF Sequence!RemoveNode
  <1>4. CASE p_list # NULL /\ n # NULL /\ Unlink(n)
    <2>1. n \in allocated
      BY <1>4 DEF Position
    <2>2. HeapOK' /\ OneRing'
      BY <1>4, <2>1, UnlinkStep
    <2>3. \E k \in 1 .. Len(Entries) :
            Entries[k].node = n /\ Entries' = Sequence!RemoveAt(Entries, k)
      BY <1>4, <2>1, UnlinkStep, SameOperators
    <2> QED BY <1>1, <1>2, <2>2, <2>3 DEF Sequence!RemoveNode
  <1> QED BY <1>3, <1>4 DEF list_remove

\* queue_front and queue_back return the first and the last item.
LEMMA LookStep ==
  ASSUME ListInv, queue_look
  PROVE  HeapOK' /\ OneRing' /\ Ready /\ Sequence!Look
  <1> HeapOK /\ LoopsOK /\ OneRing
    BY TypeParts DEF ListInv
  <1>1. Ready /\ HeapOK' /\ OneRing' /\ Entries' = Entries
    BY IdleStaysReady, HeapStays DEF queue_look
  <1>2. \/ Sequence!Called("queue_front", NULL, NULL) /\ ret' = Sequence!FirstItem
        \/ Sequence!Called("queue_back", NULL, NULL) /\ ret' = Sequence!LastItem
    BY EndsAre DEF queue_look, Return, Sequence!Called
  <1> QED BY <1>1, <1>2 DEF Sequence!Look

\* queue_pop returns the first item and takes its entry.
LEMMA PopStep ==
  ASSUME ListInv, queue_pop
  PROVE  HeapOK' /\ OneRing' /\ Ready /\ Sequence!Pop
  <1> HeapOK /\ LoopsOK /\ OneRing
    BY TypeParts DEF ListInv
  <1>1. Ready
    BY IdleStaysReady DEF queue_pop
  <1>2. Sequence!Called("queue_pop", NULL, NULL) /\ ret' = Sequence!FirstItem
    BY EndsAre DEF queue_pop, Return, Sequence!Called
  <1>3. CASE p_list = NULL /\ UNCHANGED heapVars
    BY <1>1, <1>2, <1>3, HeapStays, EntriesAt DEF Sequence!Pop
  <1>4. CASE p_list # NULL /\ Unlink(p_list)
    <2>1. p_list \in allocated
      BY <1>4 DEF HeapOK, Position
    <2> QED BY <1>1, <1>2, <1>4, <2>1, UnlinkStep, EntriesAt DEF Sequence!Pop
  <1> QED BY <1>3, <1>4 DEF queue_pop

\* A search begins at the first node, or returns at once.
LEMMA SearchBegins ==
  ASSUME ListInv, NEW item \in Item, list_get_node_by_item(item)
  PROVE  /\ ListInv'
         /\ Sequence!Find(item) \/ UNCHANGED <<Entries, op, ret>>
  <1> HeapOK /\ LoopsOK /\ OneRing
    BY TypeParts DEF ListInv
  <1>1. /\ HeapOK' /\ OneRing' /\ Entries' = Entries /\ Size' = Size /\ Order' = Order
        /\ p_item' = p_item
    BY HeapStays DEF list_get_node_by_item, heapVars
  <1>2. CASE /\ p_list = NULL
             /\ Return("list_get_node_by_item", NULL, item, NULL)
             /\ UNCHANGED loopVars
    <2>1. Ready
      BY <1>2, IdleStaysReady DEF list_get_node_by_item
    <2>2. Sequence!Called("list_get_node_by_item", NULL, item) /\ ret' = NULL
      BY <1>2 DEF Return, Sequence!Called
    <2>3. \A i \in 1 .. Len(Entries) : Entries[i].item # item
      BY <1>2, EntriesAt, PlacesAre
    <2>4. Sequence!Find(item)
      BY <1>1, <2>2, <2>3 DEF Sequence!Find
    <2> QED BY <1>1, <2>1, <2>4, TypeParts DEF ListInv, SearchInv, Ready
  <1>3. CASE /\ p_list # NULL
             /\ pc' = "search" /\ p_node' = p_list /\ sought' = item
             /\ UNCHANGED <<op, ret>>
    <2>1. LoopsOK'
      BY <1>1, <1>3, ListAssumption DEF LoopsOK, HeapOK, Position, list_get_node_by_item, heapVars
    <2>2. SearchInv'
      <3>1. 1 \in 1 .. Size /\ p_list = Order[1]
        BY <1>3, PlacesAre
      <3> QED BY <1>1, <1>3, <3>1 DEF SearchInv
    <2> QED BY <1>1, <1>3, <2>1, <2>2, TypeParts DEF ListInv
  <1> QED BY <1>2, <1>3 DEF list_get_node_by_item

\* A turn of it finds the item, is at the last node, or goes on to the next.
LEMMA SearchStep ==
  ASSUME ListInv, search_turn
  PROVE  /\ ListInv'
         /\ (\E x \in Item : Sequence!Find(x)) \/ UNCHANGED <<Entries, op, ret>>
  <1> HeapOK /\ LoopsOK /\ OneRing
    BY TypeParts DEF ListInv
  <1>1. /\ HeapOK' /\ OneRing' /\ Entries' = Entries /\ Size' = Size /\ Order' = Order
        /\ UNCHANGED <<allocated, p_item, p_list>>
    BY HeapStays DEF search_turn, heapVars
  <1>2. pc = "search" /\ sought \in Item
    BY DEF search_turn, LoopsOK
  <1>3. PICK k \in 1 .. Size :
          p_node = Order[k] /\ \A i \in 1 .. k - 1 : p_item[Order[i]] # sought
    BY <1>2 DEF ListInv, SearchInv
  <1>4. /\ Size \in Nat /\ p_list = Order[1] /\ p_list # NULL
        /\ p_next[p_node] = Order[IF k = Size THEN 1 ELSE k + 1]
        /\ \A i, j \in 1 .. Size : Order[i] = Order[j] => i = j
        /\ \A i \in 1 .. Size : Order[i] \in allocated
    BY <1>3, PlacesAre
  <1>5. /\ Len(Entries) = Size
        /\ \A i \in 1 .. Size : Entries[i].node = Order[i] /\ Entries[i].item = p_item[Order[i]]
    BY EntriesAt
  <1>6. ASSUME NEW r, SearchReturns(r)
        PROVE  LoopsOK' /\ pc' # "search"
               /\ Sequence!Called("list_get_node_by_item", NULL, sought) /\ ret' = r
    BY <1>6, <1>1, ListAssumption DEF SearchReturns, Return, Sequence!Called, LoopsOK, Position
  <1>7. CASE p_item[p_node] = sought /\ SearchReturns(p_node)
    <2>1. k \in 1 .. Len(Entries) /\ Entries[k].item = sought /\ Entries[k].node = p_node
          /\ \A i \in 1 .. k - 1 : Entries[i].item # sought
      BY <1>3, <1>4, <1>5, <1>7
    <2>2. Sequence!Find(sought)
      BY <1>1, <1>6, <1>7, <2>1 DEF Sequence!Find
    <2> QED BY <1>1, <1>2, <1>6, <1>7, <2>2, TypeParts DEF ListInv, SearchInv
  <1>8. CASE p_item[p_node] # sought /\ p_next[p_node] = p_list /\ SearchReturns(NULL)
    <2>1. k = Size
      <3>1. 1 \in 1 .. Size /\ (k # Size => k + 1 \in 1 .. Size /\ k + 1 # 1)
        BY <1>4
      <3>2. k # Size => Order[k + 1] = Order[1]
        BY <1>4, <1>8
      <3> QED BY <1>4, <3>1, <3>2
    <2>2. \A i \in 1 .. Len(Entries) : Entries[i].item # sought
      BY <1>3, <1>4, <1>5, <1>8, <2>1
    <2>3. Sequence!Find(sought)
      BY <1>1, <1>6, <1>8, <2>2 DEF Sequence!Find
    <2> QED BY <1>1, <1>2, <1>6, <1>8, <2>3, TypeParts DEF ListInv, SearchInv
  <1>9. CASE /\ p_item[p_node] # sought /\ p_next[p_node] # p_list
             /\ p_node' = p_next[p_node]
             /\ UNCHANGED <<pc, sought, op, ret>>
    <2>1. k + 1 \in 1 .. Size /\ p_node' = Order[k + 1]
      BY <1>4, <1>9
    <2>2. \A i \in 1 .. (k + 1) - 1 : p_item[Order[i]] # sought
      BY <1>3, <1>9
    <2>3. LoopsOK'
      <3>1. p_node' \in allocated /\ p_node' # NULL
        BY <1>4, <2>1, ListAssumption DEF HeapOK
      <3> QED BY <1>1, <1>2, <1>9, <3>1 DEF LoopsOK, Position
    <2> QED BY <1>1, <1>9, <2>1, <2>2, <2>3, TypeParts DEF ListInv, SearchInv
  <1> QED BY <1>7, <1>8, <1>9 DEF search_turn

\* list_destroy begins its loop with all entries in place.
LEMMA DestroyBegins ==
  ASSUME ListInv, list_destroy
  PROVE  ListInv' /\ UNCHANGED <<Entries, op, ret>>
  <1> HeapOK /\ LoopsOK /\ OneRing
    BY TypeParts DEF ListInv
  <1>1. /\ HeapOK' /\ OneRing' /\ Entries' = Entries /\ allocated' = allocated
        /\ pc' = "destroy" /\ pc = "idle" /\ UNCHANGED <<p_node, sought, op, ret>>
    BY HeapStays DEF list_destroy, heapVars
  <1>2. LoopsOK'
    BY <1>1 DEF LoopsOK, Position
  <1> QED BY <1>1, <1>2, TypeParts DEF ListInv, SearchInv

\* A turn of it gives the first item away and takes its entry.
LEMMA DestroyStep ==
  ASSUME ListInv, destroy_turn
  PROVE  HeapOK' /\ OneRing' /\ Ready /\ Sequence!Destroy
  <1> HeapOK /\ LoopsOK /\ OneRing
    BY TypeParts DEF ListInv
  <1>1. Ready
    BY IdleStaysReady DEF destroy_turn
  <1>2. p_list # NULL /\ p_list \in allocated /\ Unlink(p_list)
    BY DEF destroy_turn, HeapOK, Position
  <1>3. Entries # <<>> /\ p_item[p_list] = Sequence!FirstItem
    BY <1>2, EntriesAt, EndsAre DEF queue_front
  <1>4. Sequence!Called("callback", NULL, Sequence!FirstItem) /\ ret' = NULL
    BY <1>3 DEF destroy_turn, Return, Sequence!Called
  <1> QED BY <1>1, <1>2, <1>3, <1>4, UnlinkStep DEF Sequence!Destroy

\* It ends when there are no entries.
LEMMA DestroyEnds ==
  ASSUME ListInv, destroy_ends
  PROVE  HeapOK' /\ OneRing' /\ Ready /\ Sequence!Destroy
  <1> HeapOK /\ LoopsOK /\ OneRing
    BY TypeParts DEF ListInv
  <1>1. HeapOK' /\ OneRing' /\ Entries' = Entries /\ allocated' = allocated
    BY HeapStays DEF destroy_ends, heapVars
  <1>2. Ready
    BY <1>1 DEF Ready, destroy_ends, LoopsOK, Position
  <1>3. Entries = <<>> /\ ret' = NULL /\ Sequence!Called("list_destroy", NULL, NULL)
    BY EntriesAt DEF destroy_ends, Return, Sequence!Called
  <1> QED BY <1>1, <1>2, <1>3 DEF Sequence!Destroy

\* The empty list is an empty sequence.
LEMMA ListInit == Init => ListInv /\ Sequence!SequenceInit
  <1> SUFFICES ASSUME Init PROVE ListInv /\ Sequence!SequenceInit
    OBVIOUS
  <1>1. TypeOK
    BY DEF Init, TypeOK, Position, Pointer
  <1>2. Size = 0
    BY FS_EmptySet DEF Init, Size
  <1>3. \E s : RingOf(s, Size, allocated, p_list, p_next, p_prev)
    BY <1>2, RingOfNone DEF Init
  <1>4. OneRing
    BY <1>3, OrderIsRing DEF OneRing
  <1>5. Entries = <<>>
    BY <1>1, <1>4, TypeParts, EntriesAt DEF Init
  <1>6. SearchInv
    BY DEF Init, SearchInv
  <1> QED BY <1>1, <1>4, <1>5, <1>6 DEF ListInv, Init, Sequence!SequenceInit

SequenceStep == Sequence!SequenceNext \/ \E item \in Item : GoesLast(item)

\* Every step keeps the invariant and is one of the sequence, or none.
LEMMA ListStep ==
  ASSUME ListInv, [Next]_vars
  PROVE  ListInv' /\ [SequenceStep]_<<Entries, op, ret>>
  <1> HeapOK /\ LoopsOK /\ OneRing
    BY TypeParts DEF ListInv
  <1>1. ASSUME HeapOK', OneRing', Ready PROVE ListInv'
    BY <1>1, TypeParts DEF ListInv, SearchInv, Ready
  <1>2. ASSUME NEW position \in Position, NEW item \in Item, Inserts(position, item)
        PROVE  ListInv' /\ SequenceStep
    <2>1. position \in Node \cup {NULL}
      BY DEF HeapOK, Position
    <2> QED BY <1>1, <1>2, <2>1, InsertsStep DEF SequenceStep, Sequence!SequenceNext
  <1>3. ASSUME NEW n \in Position, list_remove(n)
        PROVE  ListInv' /\ SequenceStep
    <2>1. n \in Node \cup {NULL}
      BY DEF HeapOK, Position
    <2> QED BY <1>1, <1>3, <2>1, RemoveStep DEF SequenceStep, Sequence!SequenceNext
  <1>4. CASE queue_look
    BY <1>1, <1>4, LookStep DEF SequenceStep, Sequence!SequenceNext
  <1>5. CASE queue_pop
    BY <1>1, <1>5, PopStep DEF SequenceStep, Sequence!SequenceNext
  <1>6. ASSUME NEW item \in Item, list_get_node_by_item(item)
        PROVE  ListInv' /\ [SequenceStep]_<<Entries, op, ret>>
    BY <1>6, SearchBegins DEF SequenceStep, Sequence!SequenceNext
  <1>7. CASE search_turn
    BY <1>7, SearchStep DEF SequenceStep, Sequence!SequenceNext
  <1>8. CASE list_destroy
    BY <1>8, DestroyBegins
  <1>9. CASE destroy_turn
    BY <1>1, <1>9, DestroyStep DEF SequenceStep, Sequence!SequenceNext
  <1>10. CASE destroy_ends
    BY <1>1, <1>10, DestroyEnds DEF SequenceStep, Sequence!SequenceNext
  <1>11. CASE UNCHANGED vars
    <2>1. UNCHANGED heapVars /\ UNCHANGED loopVars /\ UNCHANGED <<op, ret>>
      BY <1>11 DEF vars
    <2>2. /\ HeapOK' /\ OneRing' /\ Size' = Size /\ Order' = Order /\ Entries' = Entries
          /\ allocated' = allocated /\ p_item' = p_item
      BY <2>1, HeapStays DEF heapVars
    <2>3. LoopsOK' /\ SearchInv'
      BY <2>1, <2>2 DEF ListInv, LoopsOK, SearchInv, loopVars, Position
    <2> QED BY <2>1, <2>2, <2>3, TypeParts DEF ListInv
  <1> QED BY <1>2, <1>3, <1>4, <1>5, <1>6, <1>7, <1>8, <1>9, <1>10, <1>11 DEF Next

-----------------------------------------------------------------------------
(* Theorems                                                                *)

\* The invariant holds in every state.
LEMMA SpecListInv == Spec => []ListInv
  <1>1. ListInv /\ [Next]_vars => ListInv'
    BY ListStep
  <1> QED BY ListInit, <1>1, PTL DEF Spec

\* For any finite heap and any items, what list.c keeps has its type: *p_list
\* is NULL exactly when nothing is allocated, and a search is at a node.
THEOREM ListTypeCorrect == Spec => []TypeOK
  <1>1. ListInv => TypeOK
    BY DEF ListInv
  <1> QED BY SpecListInv, <1>1, PTL

\* For any finite heap, inserting and removing keep the nodes that are
\* allocated one ring in both directions: none is lost, no freed one is left.
THEOREM RingIsKept == Spec => []OneRing
  <1>1. ListInv => OneRing
    BY DEF ListInv
  <1> QED BY SpecListInv, <1>1, PTL

\* For any finite heap and any items, list.c and queue.h implement the
\* sequence of items that ItemSequence promises; only what is to be put before
\* the first node is put last.
THEOREM ImplementsItemSequence == Spec => SequenceSpec
  <1>1. ListInv /\ [Next]_vars => [SequenceStep]_<<Entries, op, ret>>
    BY ListStep
  <1> QED BY ListInit, SpecListInv, <1>1, PTL DEF Spec, SequenceSpec, SequenceStep

=============================================================================
