-------------------------- MODULE RecursionLemmas --------------------------
(***************************************************************************)
(* Induction and recursion over the naturals, stated about sets and        *)
(* functions.  (The theorems of NaturalsInduction say the same of          *)
(* operators.)                                                             *)
(***************************************************************************)
EXTENDS Integers, SequencesExt, WellFoundedInduction, TLAPS

\* A set of naturals that is not empty has a least element.
LEMMA LeastNatural ==
  ASSUME NEW T \in SUBSET Nat, T # {}
  PROVE  \E x \in T : \A y \in T : x <= y
  <1>1. IsWellFoundedOn(OpToRel(<, Nat), Nat)
    BY NatLessThanWellFounded
  <1>2. PICK x \in T : \A y \in T : ~ (<<y, x>> \in OpToRel(<, Nat))
    BY <1>1, WFMin
  <1>3. \A y \in T : ~(y < x)
    BY <1>2 DEF OpToRel
  <1> QED BY <1>3

\* Min, which SelectInSeq and the scans of the model are built from, is it.
LEMMA MinIsLeast ==
  ASSUME NEW T \in SUBSET Nat, T # {}
  PROVE  Min(T) \in T /\ \A y \in T : Min(T) <= y
  BY LeastNatural DEF Min

\* A set with 0 and the successors of its elements holds every natural.
LEMMA SetInduction ==
  ASSUME NEW P \in SUBSET Nat, 0 \in P, \A n \in P : n + 1 \in P
  PROVE  P = Nat
  <1> SUFFICES ASSUME P # Nat PROVE FALSE
    OBVIOUS
  <1>1. PICK x \in Nat \ P : \A y \in Nat \ P : x <= y
    <2>1. Nat \ P \in SUBSET Nat /\ Nat \ P # {}
      OBVIOUS
    <2> QED BY <2>1, LeastNatural
  <1>2. x # 0 /\ x - 1 \in Nat /\ x - 1 \in P
    BY <1>1
  <1>3. (x - 1) + 1 \in P
    BY <1>2
  <1> QED BY <1>1, <1>3

\* A set with the lower end of an interval and the successors of its elements
\* holds the interval.
LEMMA IntervalInduction ==
  ASSUME NEW m \in Int, NEW n \in Int, NEW P,
         m <= n => m \in P,
         \A i \in m .. n - 1 : i \in P => i + 1 \in P
  PROVE  m .. n \subseteq P
  <1> DEFINE T == {k \in Nat : m + k <= n => m + k \in P}
  <1>1. T \in SUBSET Nat /\ 0 \in T
    OBVIOUS
  <1>2. ASSUME NEW k \in T PROVE k + 1 \in T
    <2>1. k \in Nat /\ k + 1 \in Nat
      OBVIOUS
    <2>2. ASSUME m + (k + 1) <= n PROVE m + (k + 1) \in P
      <3>1. m + k \in m .. n - 1 /\ m + k \in P
        BY <2>1, <2>2
      <3>2. (m + k) + 1 = m + (k + 1)
        BY <2>1
      <3> QED BY <3>1, <3>2
    <2> QED BY <2>1, <2>2
  <1> HIDE DEF T
  <1>3. T = Nat
    BY <1>1, <1>2, SetInduction
  <1>4. ASSUME NEW i \in m .. n PROVE i \in P
    <2>1. i - m \in Nat /\ m + (i - m) = i /\ i <= n
      OBVIOUS
    <2> QED BY <2>1, <1>3 DEF T
  <1> QED BY <1>4

\* a starts with x0 and goes on with the functions step[l] .. step[n].
Stepwise(a, m, l, n, x0, step) ==
  /\ a[m] = x0
  /\ \A i \in l .. n : a[i] = step[i][a[i - 1]]

\* Stepping from x0 with the functions step[l] .. step[n] defines a function.
LEMMA StepFunction ==
  ASSUME NEW m \in Int, NEW l \in Int, l = m + 1, NEW n \in Int, m <= n,
         NEW S, NEW x0 \in S, NEW step \in [l .. n -> [S -> S]]
  PROVE  \E a \in [m .. n -> S] : Stepwise(a, m, l, n, x0, step)
  <1> DEFINE Steps(a, k) == /\ a[m] = x0
                            /\ \A i \in l .. k : a[i] = step[i][a[i - 1]]
             P == {k \in m .. n : \E a \in [m .. k -> S] : Steps(a, k)}
  <1>1. m \in P
    <2> DEFINE a == [i \in m .. m |-> x0]
    <2>1. a \in [m .. m -> S] /\ m \in m .. n /\ Steps(a, m)
      OBVIOUS
    <2> QED BY <2>1
  <1>2. ASSUME NEW k \in m .. n - 1, k \in P PROVE k + 1 \in P
    <2>1. PICK a \in [m .. k -> S] : Steps(a, k)
      BY <1>2
    <2> DEFINE b == [i \in m .. k + 1 |-> IF i = k + 1 THEN step[k + 1][a[k]] ELSE a[i]]
    <2>2. a[k] \in S /\ step[k + 1] \in [S -> S] /\ k + 1 \in m .. n
      BY <1>2
    <2>3. b \in [m .. k + 1 -> S] /\ b[m] = x0
      BY <2>1, <2>2
    <2>4. ASSUME NEW i \in l .. k + 1
          PROVE  b[i] = step[i][b[i - 1]]
      <3>1. CASE i = k + 1
        BY <3>1, <2>2
      <3>2. CASE i \in l .. k
        BY <3>2, <2>1
      <3> QED BY <3>1, <3>2
    <2> HIDE DEF b
    <2> QED BY <2>2, <2>3, <2>4
  <1> HIDE DEF P
  <1>3. m .. n \subseteq P
    BY <1>1, <1>2, IntervalInduction
  <1>4. n \in P
    BY <1>3
  <1> QED BY <1>4 DEF P, Stepwise

\* f[k] is the concatenation of seqs[1] .. seqs[k].
Concatenates(f, n, seqs) ==
  /\ f[1] = seqs[1]
  /\ \A k \in 1 .. n - 1 : f[k + 1] = f[k] \o seqs[k + 1]

\* FlattenSeq puts the elements of its argument one behind the other.
LEMMA FlattenSteps ==
  ASSUME NEW X, NEW n \in Nat \ {0}, NEW seqs \in [1 .. n -> Seq(X)]
  PROVE  \E f \in [1 .. n -> Seq(X)] :
           Concatenates(f, n, seqs) /\ FlattenSeq(seqs) = f[n]
  <1> DEFINE step == [i \in 2 .. n |-> [s \in Seq(X) |-> s \o seqs[i]]]
             Def(a) == a = [i \in 1 .. n |-> IF i = 1 THEN seqs[i] ELSE a[i - 1] \o seqs[i]]
             f == CHOOSE a : Def(a)
  <1>1. 1 \in 1 .. n /\ 1 \in Int /\ n \in Int /\ 1 <= n /\ seqs[1] \in Seq(X)
        /\ 2 \in Int /\ 2 = 1 + 1
    OBVIOUS
  <1>2. step \in [2 .. n -> [Seq(X) -> Seq(X)]]
    OBVIOUS
  <1>3. PICK a \in [1 .. n -> Seq(X)] :
          a[1] = seqs[1] /\ \A i \in 2 .. n : a[i] = step[i][a[i - 1]]
    <2> DEFINE S == Seq(X)
    <2>1. step \in [2 .. n -> [S -> S]] /\ seqs[1] \in S
      BY <1>1, <1>2
    <2> HIDE DEF step, S
    <2>2. \E a \in [1 .. n -> S] : Stepwise(a, 1, 2, n, seqs[1], step)
      BY <1>1, <2>1, StepFunction
    <2> QED BY <2>2 DEF S, Stepwise
  <1>4. ASSUME NEW i \in 2 .. n
        PROVE  a[i] = a[i - 1] \o seqs[i]
    <2>1. i - 1 \in 1 .. n
      BY <1>1
    <2>2. a[i - 1] \in Seq(X)
      BY ONLY <2>1, a \in [1 .. n -> Seq(X)]
    <2>3. \A s \in Seq(X) : step[i][s] = s \o seqs[i]
      OBVIOUS
    <2> HIDE DEF step, Def, f
    <2> QED BY ONLY <1>3, <2>2, <2>3, i \in 2 .. n
  <1>5. Def(a)
    <2>1. ASSUME NEW i \in 1 .. n
          PROVE  a[i] = IF i = 1 THEN seqs[i] ELSE a[i - 1] \o seqs[i]
      <3>1. i = 1 \/ (i # 1 /\ i \in 2 .. n)
        OBVIOUS
      <3> HIDE DEF step, Def, f
      <3> QED BY ONLY <3>1, <1>3, <1>4, Zenon
    <2>2. a = [i \in 1 .. n |-> a[i]]
      OBVIOUS
    <2> QED BY <2>1, <2>2
  <1>6. Def(f)
    BY <1>5, Zenon
  <1> HIDE DEF f
  <1>7. f[1] = seqs[1] /\ \A i \in 1 .. n - 1 : f[i + 1] = f[i] \o seqs[i + 1]
    <2>1. ASSUME NEW i \in 1 .. n
          PROVE  f[i] = IF i = 1 THEN seqs[i] ELSE f[i - 1] \o seqs[i]
      BY <1>6
    <2>2. ASSUME NEW i \in 1 .. n - 1
          PROVE  f[i + 1] = f[i] \o seqs[i + 1]
      <3>1. i + 1 \in 1 .. n /\ i + 1 # 1 /\ (i + 1) - 1 = i
        OBVIOUS
      <3> QED BY <2>1, <3>1
    <2> QED BY <1>1, <2>1, <2>2
  <1> DEFINE P == {i \in 1 .. n : f[i] \in Seq(X)}
  <1>8. 1 \in P
    BY <1>1, <1>7
  <1>9. ASSUME NEW i \in 1 .. n - 1, i \in P PROVE i + 1 \in P
    <2>1. f[i] \in Seq(X) /\ seqs[i + 1] \in Seq(X) /\ i + 1 \in 1 .. n
      BY <1>9
    <2>2. f[i] \o seqs[i + 1] \in Seq(X)
      BY <2>1
    <2> QED BY <1>7, <2>1, <2>2
  <1> HIDE DEF P
  <1>10. 1 .. n \subseteq P
    BY <1>1, <1>8, <1>9, IntervalInduction
  <1>11. DOMAIN f = 1 .. n /\ f = [i \in 1 .. n |-> f[i]]
    BY <1>6
  <1>12. f \in [1 .. n -> Seq(X)]
    BY <1>10, <1>11 DEF P
  <1>13. FlattenSeq(seqs) = f[n]
    <2>1. Len(seqs) = n
      OBVIOUS
    <2> QED BY <2>1 DEF FlattenSeq, f
  <1> QED BY <1>7, <1>12, <1>13 DEF Concatenates

=============================================================================
