---------------------------- MODULE RanksProofs ----------------------------
(***************************************************************************)
(* Proofs about Ranks, for any finite set and any sequence of numbers, and *)
(* the induction over the natural numbers they rest on.                    *)
(***************************************************************************)
EXTENDS Ranks, Functions, SequenceTheorems, FiniteSetTheorems, TLAPS

\* A set of numbers that is not empty has a least one.
LEMMA LeastNumber ==
    ASSUME NEW T \in SUBSET Nat, T # {}
    PROVE  \E n \in T : \A m \in T : n <= m
<1> DEFINE U == {1..n : n \in T}
           R == StrictSubsetOrdering(Nat)
           S == FiniteSubsetsOf(Nat)
<1>1. IsWellFoundedOn(R, S)
  BY FS_StrictSubsetOrderingWellFounded
<1>2. U \subseteq S
  <2>1. \A n \in T : IsFiniteSet(1..n)
    BY FS_Interval
  <2>2. QED BY <2>1 DEF FiniteSubsetsOf
<1>a. U # {}
  OBVIOUS
<1>3. \E u \in U : \A w \in U : <<w, u>> \notin R
  <2> HIDE DEF R, U, S
  <2>1. \A Q : Q \subseteq S /\ Q # {} => \E u \in Q : \A w \in Q : ~(<<w, u>> \in R)
    BY <1>1, WFMin
  <2> QED BY <2>1, <1>2, <1>a
<1>4. \A m, n \in T : m < n => <<1..m, 1..n>> \in R
  <2> TAKE m, n \in T
  <2> HAVE m < n
  <2>1. 1..m \subseteq 1..n /\ 1..m \subseteq Nat /\ 1..n \subseteq Nat
    OBVIOUS
  <2>2. n \in 1..n /\ n \notin 1..m
    OBVIOUS
  <2>3. 1..m # 1..n
    BY <2>2
  <2> DEFINE a == 1..m  b == 1..n
  <2> HIDE DEF a, b
  <2>4. a \subseteq b /\ a \subseteq Nat /\ b \subseteq Nat /\ a # b
    BY <2>1, <2>3 DEF a, b
  <2>5. <<a, b>> \in R
    BY <2>4 DEF StrictSubsetOrdering
  <2>6. QED BY <2>5 DEF a, b
<1>5. PICK n \in T : \A w \in U : <<w, 1..n>> \notin R
  BY <1>3
<1>6. \A m \in T : <<1..m, 1..n>> \notin R
  BY <1>5
<1>7. \A m \in T : ~(m < n)
  BY <1>4, <1>6
<1>8. QED
  BY <1>7

\* A strict total order of S, as a set of pairs.
Orders(R, S) ==
    /\ \A x \in S : <<x, x>> \notin R
    /\ \A x, y \in S : x # y => <<x, y>> \in R \/ <<y, x>> \in R
    /\ \A x, y, z \in S : <<x, y>> \in R /\ <<y, z>> \in R => <<x, z>> \in R

\* A set of numbers that has 0 and the successor of each of its members has them all.
LEMMA Induction ==
    ASSUME NEW T \in SUBSET Nat, 0 \in T, \A n \in T : n + 1 \in T
    PROVE  T = Nat
<1> SUFFICES ASSUME T # Nat
             PROVE  FALSE
  OBVIOUS
<1>1. PICK n \in Nat \ T : \A m \in Nat \ T : n <= m
  BY LeastNumber
<1>2. n # 0 /\ n - 1 \in Nat
  OBVIOUS
<1>3. n - 1 \in T
  BY <1>1, <1>2
<1>4. QED
  BY <1>1, <1>3

\* The value of f at 0 is first, and each later one is made of the one before.
Iterates(f, first, step, n) == f[0] = first /\ \A k \in 1..n : f[k] = step[k][f[k - 1]]

\* A function of the numbers up to n may be defined by its value at 0 and by how each later
\* value is made of the one before.
LEMMA Recursion ==
    ASSUME NEW n \in Nat, NEW A, NEW first \in A, NEW step \in [1..n -> [A -> A]]
    PROVE  \E f \in [0..n -> A] : Iterates(f, first, step, n)
<1> DEFINE Upto(f, m) == /\ f \in [0..m -> A] /\ f[0] = first
                         /\ \A k \in 1..m : f[k] = step[k][f[k - 1]]
           T == {m \in Nat : m <= n => \E f : Upto(f, m)}
<1>1. 0 \in T
  <2>1. Upto([k \in 0..0 |-> first], 0)
    OBVIOUS
  <2>2. QED
    BY <2>1
<1>2. \A m \in T : m + 1 \in T
  <2>1. ASSUME NEW m \in Nat, m + 1 <= n, NEW f, Upto(f, m)
        PROVE  \E g : Upto(g, m + 1)
    <3> DEFINE last == step[m + 1][f[m]]
               g == [k \in 0..(m + 1) |-> IF k = m + 1 THEN last ELSE f[k]]
    <3>1. f[m] \in A /\ step[m + 1] \in [A -> A]
      BY <2>1
    <3>2. last \in A
      BY <3>1
    <3>3. g \in [0..(m + 1) -> A]
      <4>1. \A k \in 0..(m + 1) : k # m + 1 => f[k] \in A
        BY <2>1
      <4> HIDE DEF last
      <4>2. QED
        BY <3>2, <4>1
    <3>4. \A k \in 0..m : g[k] = f[k]
      BY <2>1
    <3>5. g[m + 1] = last
      OBVIOUS
    <3> HIDE DEF g, last
    <3>6. \A k \in 1..m : g[k] = step[k][g[k - 1]]
      <4>1. \A k \in 1..m : k \in 0..m /\ k - 1 \in 0..m
        OBVIOUS
      <4>2. QED
        BY <2>1, <3>4, <4>1
    <3>7. g[m + 1] = step[m + 1][g[(m + 1) - 1]] /\ g[0] = first
      BY <2>1, <3>4, <3>5 DEF last
    <3>8. \A k \in 1..(m + 1) : k \in 1..m \/ k = m + 1
      OBVIOUS
    <3>9. Upto(g, m + 1)
      BY <3>3, <3>6, <3>7, <3>8
    <3>10. QED
      BY <3>9
  <2> HIDE DEF Upto
  <2>2. QED
    BY <2>1
<1>3. n \in T
  <2>1. T \in SUBSET Nat
    OBVIOUS
  <2> HIDE DEF T
  <2>2. T = Nat
    BY <1>1, <1>2, <2>1, Induction
  <2>3. QED
    BY <2>2
<1> HIDE DEF Upto
<1>4. PICK f : Upto(f, n)
  BY <1>3
<1>5. QED
  BY <1>4 DEF Upto, Iterates

\* The elements that come before x in the order R.
Below(x, R, S) == {y \in S : <<y, x>> \in R}

\* Counting what comes before each member numbers a finite ordered set from 0 on, in its
\* order.
LEMMA Ranking ==
    ASSUME NEW S, IsFiniteSet(S), NEW R, Orders(R, S)
    PROVE  /\ \A x \in S : Cardinality(Below(x, R, S)) \in 0..(Cardinality(S) - 1)
           /\ \A x, y \in S : <<x, y>> \in R <=>
                Cardinality(Below(x, R, S)) < Cardinality(Below(y, R, S))
           /\ \A k \in 0..(Cardinality(S) - 1) : \E x \in S : Cardinality(Below(x, R, S)) = k
<1> DEFINE below(x) == Below(x, R, S)
           rank == [x \in S |-> Cardinality(below(x))]
           n == Cardinality(S)
           I == 0..(n - 1)
<1>1. n \in Nat
  BY FS_CardinalityType
<1>2. \A x \in S : below(x) \in SUBSET S /\ IsFiniteSet(below(x)) /\ x \notin below(x)
  BY FS_Subset DEF Below, Orders
<1>3. \A x \in S : Cardinality(below(x)) \in Nat /\ Cardinality(below(x)) < n
  <2> TAKE x \in S
  <2>1. Cardinality(below(x)) \in Nat
    BY <1>2, FS_CardinalityType
  <2>2. Cardinality(below(x)) <= n /\ (n = Cardinality(below(x)) => S = below(x))
    <3> HIDE DEF below
    <3> QED BY <1>2, FS_Subset
  <2>3. QED
    BY <2>1, <2>2, <1>1, <1>2
<1>4. \A x, y \in S : <<x, y>> \in R => Cardinality(below(x)) < Cardinality(below(y))
  <2> TAKE x, y \in S
  <2> HAVE <<x, y>> \in R
  <2>1. below(x) \in SUBSET below(y)
    BY DEF Below, Orders
  <2>2. x \in below(y) /\ x \notin below(x)
    BY DEF Below, Orders
  <2>3. Cardinality(below(x)) <= Cardinality(below(y)) /\ Cardinality(below(x)) # Cardinality(below(y))
    <3> HIDE DEF below
    <3> QED BY <2>1, <2>2, <1>2, FS_Subset
  <2>4. QED
    BY <2>3, <1>3
<1>5. \A x, y \in S : Cardinality(below(x)) < Cardinality(below(y)) => <<x, y>> \in R
  <2> TAKE x, y \in S
  <2> HAVE Cardinality(below(x)) < Cardinality(below(y))
  <2>1. x # y
    BY <1>3
  <2>2. <<x, y>> \in R \/ <<y, x>> \in R
    BY <2>1 DEF Orders
  <2>3. QED
    BY <2>2, <1>3, <1>4
<1>6. rank \in Injection(S, I)
  <2>1. rank \in [S -> I]
    BY <1>1, <1>3
  <2>2. \A x, y \in S : rank[x] = rank[y] => x = y
    <3> TAKE x, y \in S
    <3> HAVE rank[x] = rank[y]
    <3>1. x # y => <<x, y>> \in R \/ <<y, x>> \in R
      BY DEF Orders
    <3>2. QED
      BY <3>1, <1>3, <1>4
  <2>3. QED
    BY <2>1, <2>2, Zenon DEF Injection, IsInjective
<1>7. IsFiniteSet(I) /\ Cardinality(I) = n
  BY <1>1, FS_Interval
<1>8. rank \in Surjection(S, I)
  BY <1>6, <1>7, FS_Injection
<1>9. \A k \in I : \E x \in S : rank[x] = k
  BY <1>8 DEF Surjection
<1>10. QED
  BY <1>1, <1>3, <1>4, <1>5, <1>9

\* From the highest to the lowest every element has one place, before the lower ones and,
\* of equal ones, before those after it.
LEMMA FallingRanks ==
    ASSUME NEW n \in Nat, NEW s \in [1..n -> Int]
    PROVE  /\ Falling(s) \in [1..n -> 1..n]
           /\ \A j, k \in 1..n : j < k => Before(s, Falling(s)[j], Falling(s)[k])
           /\ \A j, k \in 1..n : Falling(s)[j] = Falling(s)[k] => j = k
           /\ \A i \in 1..n : \E k \in 1..n : Falling(s)[k] = i
<1> DEFINE S == DOMAIN s
           R == {p \in S \X S : Before(s, p[1], p[2])}
           lower(i) == {j \in S : Before(s, j, i)}
           c == Falling(s)
<1>s. S = 1..n
  OBVIOUS
<1>1. IsFiniteSet(S) /\ Cardinality(S) = n
  <2>1. IsFiniteSet(1..n) /\ Cardinality(1..n) = IF 1 > n THEN 0 ELSE n - 1 + 1
    BY FS_Interval
  <2>2. QED
    BY <2>1, <1>s
<1>2. Orders(R, S)
  <2>1. \A i, j \in S : s[i] \in Int /\ (<<i, j>> \in R <=> s[i] > s[j] \/ (s[i] = s[j] /\ i < j))
    BY <1>s DEF Before
  <2> HIDE DEF R
  <2>2. \A i \in S : i \in Nat
    BY <1>s
  <2>3. QED
    BY <2>1, <2>2 DEF Orders
<1>3. \A x, y \in S : <<x, y>> \in R <=> Before(s, x, y)
  OBVIOUS
<1>4. \A x \in S : Below(x, R, S) = lower(x)
  BY <1>3 DEF Below
<1> HIDE DEF R, S
<1>5. /\ \A x \in S : Cardinality(Below(x, R, S)) \in 0..(Cardinality(S) - 1)
      /\ \A x, y \in S : <<x, y>> \in R <=>
            Cardinality(Below(x, R, S)) < Cardinality(Below(y, R, S))
      /\ \A k \in 0..(Cardinality(S) - 1) : \E x \in S : Cardinality(Below(x, R, S)) = k
  BY <1>1, <1>2, Ranking
<1> DEFINE rank(x) == Cardinality(lower(x))
<1> HIDE DEF lower
<1>6. /\ \A x \in S : rank(x) \in 0..(n - 1)
      /\ \A x, y \in S : Before(s, x, y) <=> rank(x) < rank(y)
      /\ \A k \in 0..(n - 1) : \E x \in S : rank(x) = k
  BY <1>1, <1>3, <1>4, <1>5
<1>7. \A x, y \in S : rank(x) = rank(y) => x = y
  <2> TAKE x, y \in S
  <2>1. rank(x) \in Int /\ rank(y) \in Int
    BY <1>6
  <2>2. x # y => <<x, y>> \in R \/ <<y, x>> \in R
    BY <1>2 DEF Orders
  <2>3. QED
    BY <2>1, <2>2, <1>3, <1>6
<1>8. c = [r \in S |-> CHOOSE i \in S : rank(i) = r - 1]
  BY Zenon DEF Falling, S, lower, c, rank
<1> HIDE DEF rank, c
<1>9. \A r \in S : c[r] \in S /\ rank(c[r]) = r - 1
  <2> TAKE r \in S
  <2>1. r - 1 \in 0..(n - 1)
    BY <1>s
  <2>2. \E i \in S : rank(i) = r - 1
    BY <2>1, <1>6
  <2>3. c[r] = CHOOSE i \in S : rank(i) = r - 1
    BY <1>8
  <2>4. QED
    BY <2>2, <2>3
<1>10. c \in [S -> S]
  <2>1. c = [r \in S |-> c[r]]
    BY <1>8
  <2>2. QED
    BY <2>1, <1>9
<1>11. \A j, k \in S : j < k => Before(s, c[j], c[k])
  <2> TAKE j, k \in S
  <2>1. rank(c[j]) = j - 1 /\ rank(c[k]) = k - 1 /\ c[j] \in S /\ c[k] \in S
    BY <1>9
  <2>2. j \in Int /\ k \in Int
    BY <1>s
  <2>3. Before(s, c[j], c[k]) <=> rank(c[j]) < rank(c[k])
    BY <2>1, <1>6, Zenon
  <2>4. QED
    BY <2>1, <2>2, <2>3
<1>12. \A j, k \in S : c[j] = c[k] => j = k
  <2> TAKE j, k \in S
  <2>1. rank(c[j]) = j - 1 /\ rank(c[k]) = k - 1
    BY <1>9
  <2>2. j \in Int /\ k \in Int
    BY <1>s
  <2>3. QED
    BY <2>1, <2>2
<1>13. \A i \in S : \E k \in S : c[k] = i
  <2> TAKE i \in S
  <2> DEFINE k == rank(i) + 1
  <2>1. rank(i) \in 0..(n - 1)
    BY <1>6
  <2>2. k \in S /\ k - 1 = rank(i)
    BY <2>1, <1>s
  <2> HIDE DEF k
  <2>3. c[k] \in S /\ rank(c[k]) = rank(i)
    BY <2>2, <1>9
  <2>4. c[k] = i
    BY <2>3, <1>7
  <2>5. QED
    BY <2>2, <2>4
<1>14. QED
  BY <1>10, <1>11, <1>12, <1>13, <1>s DEF c

\* InOrder lists a finite set of numbers from the least to the greatest.
LEMMA Ordered ==
    ASSUME NEW S \in SUBSET Int, IsFiniteSet(S)
    PROVE  /\ InOrder(S) \in Seq(S)
           /\ Len(InOrder(S)) = Cardinality(S)
           /\ DOMAIN InOrder(S) = 1..Cardinality(S)
           /\ \A x \in S : \E k \in 1..Cardinality(S) : InOrder(S)[k] = x
           /\ \A j, k \in 1..Cardinality(S) : j < k <=> InOrder(S)[j] < InOrder(S)[k]
           /\ \A k \in 1..Cardinality(S) :
                /\ InOrder(S)[k] \in S
                /\ Cardinality({y \in S : y < InOrder(S)[k]}) = k - 1
<1> DEFINE R == {p \in S \X S : p[1] < p[2]}
           n == Cardinality(S)
           lower(x) == {y \in S : y < x}
           f == InOrder(S)
<1>1. n \in Nat
  BY FS_CardinalityType
<1>2. Orders(R, S)
  BY DEF Orders
<1>3. \A x \in S : Below(x, R, S) = lower(x)
  BY DEF Below
<1>4. /\ \A x \in S : Cardinality(lower(x)) \in 0..(n - 1)
      /\ \A x, y \in S : <<x, y>> \in R <=> Cardinality(lower(x)) < Cardinality(lower(y))
      /\ \A k \in 0..(n - 1) : \E x \in S : Cardinality(lower(x)) = k
  <2> HIDE DEF R, lower
  <2>1. /\ \A x \in S : Cardinality(Below(x, R, S)) \in 0..(n - 1)
        /\ \A x, y \in S : <<x, y>> \in R <=> Cardinality(Below(x, R, S)) < Cardinality(Below(y, R, S))
        /\ \A k \in 0..(n - 1) : \E x \in S : Cardinality(Below(x, R, S)) = k
    BY <1>2, Ranking
  <2>2. QED
    BY <2>1, <1>3
<1>5. f = [k \in 1..n |-> CHOOSE x \in S : Cardinality(lower(x)) = k - 1]
  BY DEF InOrder
<1>r. \A x, y \in S : <<x, y>> \in R <=> x < y
  OBVIOUS
<1> HIDE DEF R
<1>6. DOMAIN f = 1..n
  BY <1>5
<1>7. \A k \in 1..n : f[k] \in S /\ Cardinality(lower(f[k])) = k - 1
  <2> HIDE DEF lower, f
  <2> TAKE k \in 1..n
  <2>1. \E x \in S : Cardinality(lower(x)) = k - 1
    BY <1>4, <1>1
  <2>2. f[k] = CHOOSE x \in S : Cardinality(lower(x)) = k - 1
    BY <1>5
  <2>3. QED
    BY <2>1, <2>2
<1>8. f \in [1..n -> S]
  <2>1. f = [k \in 1..n |-> f[k]]
    BY <1>5
  <2> HIDE DEF f
  <2>2. QED
    BY <2>1, <1>7
<1>9. f \in Seq(S) /\ Len(f) = n
  <2> HIDE DEF f
  <2> QED BY <1>8, <1>1, SeqDef
<1>10. \A x \in S : \E k \in 1..n : f[k] = x
  <2> HIDE DEF f, lower
  <2> TAKE x \in S
  <2> DEFINE k == Cardinality(lower(x)) + 1
  <2>1. k \in 1..n
    BY <1>4, <1>1
  <2>2. f[k] \in S /\ Cardinality(lower(f[k])) = Cardinality(lower(x))
    BY <2>1, <1>7, <1>4
  <2>3. \A z \in S : Cardinality(lower(z)) = Cardinality(lower(x)) => z = x
    <3> TAKE z \in S
    <3>1. /\ <<x, z>> \in R <=> Cardinality(lower(x)) < Cardinality(lower(z))
          /\ <<z, x>> \in R <=> Cardinality(lower(z)) < Cardinality(lower(x))
          /\ Cardinality(lower(x)) \in Int
      BY <1>4
    <3>2. z \in Int /\ x \in Int /\ (<<x, z>> \in R <=> x < z) /\ (<<z, x>> \in R <=> z < x)
      BY <1>r
    <3>3. QED
      BY <3>1, <3>2
  <2>4. f[k] = x
    BY <2>3, <2>2
  <2>5. QED
    BY <2>1, <2>4
<1>11. \A j, k \in 1..n : j < k <=> f[j] < f[k]
  <2> HIDE DEF f, lower
  <2> TAKE j, k \in 1..n
  <2>1. f[j] \in S /\ f[k] \in S
    BY <1>7
  <2>2. <<f[j], f[k]>> \in R <=> Cardinality(lower(f[j])) < Cardinality(lower(f[k]))
    BY <1>4, <2>1
  <2>3. <<f[j], f[k]>> \in R <=> j - 1 < k - 1
    BY <2>2, <1>7
  <2>4. <<f[j], f[k]>> \in R <=> f[j] < f[k]
    BY <2>1, <1>r
  <2>5. QED
    BY <2>3, <2>4, <1>1
<1>12. QED
  BY <1>6, <1>7, <1>9, <1>10, <1>11

\* What is picked from a list are the elements at the places given, in their order.
LEMMA PickedInOrder ==
    ASSUME NEW A, NEW s \in Seq(A), NEW S \in SUBSET (DOMAIN s)
    PROVE  /\ Cardinality(S) \in Nat
           /\ InOrder(S) \in [1..Cardinality(S) -> S]
           /\ \A i \in S : \E k \in 1..Cardinality(S) : InOrder(S)[k] = i
           /\ \A j, k \in 1..Cardinality(S) : j < k <=> InOrder(S)[j] < InOrder(S)[k]
           /\ Picked(s, S) \in Seq(A)
           /\ Len(Picked(s, S)) = Cardinality(S)
           /\ DOMAIN Picked(s, S) = 1..Cardinality(S)
           /\ \A k \in 1..Cardinality(S) : Picked(s, S)[k] = s[InOrder(S)[k]]
<1> DEFINE n == Len(s)
           c == Cardinality(S)
           p == InOrder(S)
           l == Picked(s, S)
<1>1. n \in Nat /\ DOMAIN s = 1..n /\ \A i \in DOMAIN s : s[i] \in A
  OBVIOUS
<1>2. IsFiniteSet(S) /\ c \in Nat /\ S \in SUBSET Int
  <2>1. IsFiniteSet(1..n)
    BY <1>1, FS_Interval
  <2>2. QED
    BY <1>1, <2>1, FS_Subset, FS_CardinalityType
<1>3. /\ DOMAIN p = 1..c
      /\ \A i \in S : \E k \in 1..c : p[k] = i
      /\ \A j, k \in 1..c : j < k <=> p[j] < p[k]
      /\ \A k \in 1..c : p[k] \in S
  BY <1>2, Ordered
<1>4. p \in [1..c -> S]
  <2>1. p = [k \in 1..c |-> p[k]]
    BY <1>3 DEF InOrder
  <2> HIDE DEF p, c
  <2>2. QED
    BY <1>3, <2>1
<1>5. l = [k \in 1..c |-> s[p[k]]]
  BY DEF Picked
<1> HIDE DEF l, p, c
<1>6. l \in [1..c -> A]
  BY <1>1, <1>3, <1>5
<1>7. l \in Seq(A) /\ Len(l) = c
  BY <1>2, <1>6, SeqDef
<1>8. QED
  BY <1>2, <1>3, <1>4, <1>5, <1>7 DEF l, p, c

\* An element of a set of positions moves forward, if at all.
LEMMA MovesForward ==
    ASSUME NEW n \in Nat, NEW S \in SUBSET (1..n)
    PROVE  /\ IsFiniteSet(S)
           /\ Cardinality(S) \in Nat
           /\ \A k \in 1..Cardinality(S) : k <= InOrder(S)[k]
<1>1. IsFiniteSet(1..n)
  BY FS_Interval
<1>2. IsFiniteSet(S) /\ Cardinality(S) \in Nat
  BY <1>1, FS_Subset, FS_CardinalityType
<1>3. ASSUME NEW k \in 1..Cardinality(S)
      PROVE  k <= InOrder(S)[k]
  <2> DEFINE x == InOrder(S)[k]
             lower == {y \in S : y < x}
  <2>1. x \in S /\ Cardinality(lower) = k - 1
    BY <1>2, Ordered
  <2>2. lower \in SUBSET (1..(x - 1)) /\ x \in 1..n
    <3>1. x \in 1..n /\ \A y \in S : y \in 1..n
      BY <2>1
    <3> HIDE DEF x
    <3>2. \A y \in lower : y \in 1..(x - 1)
      BY <3>1
    <3>3. QED
      BY <3>1, <3>2
  <2>3. IsFiniteSet(1..(x - 1)) /\ Cardinality(1..(x - 1)) = x - 1
    <3> HIDE DEF x
    <3> QED BY <2>2, FS_Interval
  <2>4. Cardinality(lower) <= Cardinality(1..(x - 1))
    <3> HIDE DEF lower, x
    <3> QED BY <2>2, <2>3, FS_Subset
  <2>5. QED
    BY <2>1, <2>2, <2>3, <2>4, <1>2
<1>4. QED
  BY <1>2, <1>3

\* f holds the sums of the first m elements.
IsRunningSum(f, s, m) ==
    /\ f \in [0..m -> Nat] /\ f[0] = 0
    /\ \A k \in 1..m : f[k] = f[k - 1] + s[k]

\* A sum up to a later position adds the numbers between.
LEMMA LongerSum ==
    ASSUME NEW s, NEW m \in Nat, s[m + 1] \in Nat, NEW f, IsRunningSum(f, s, m)
    PROVE  \E g : IsRunningSum(g, s, m + 1)
<1> DEFINE g == [k \in 0..(m + 1) |-> IF k = m + 1 THEN f[m] + s[m + 1] ELSE f[k]]
<1>1. \A k \in 0..m : f[k] \in Nat
  BY DEF IsRunningSum
<1>2. g \in [0..(m + 1) -> Nat]
  BY <1>1
<1>3. \A k \in 0..m : g[k] = f[k]
  OBVIOUS
<1>4. g[m + 1] = f[m] + s[m + 1]
  OBVIOUS
<1> HIDE DEF g
<1>5. \A k \in 1..(m + 1) : g[k] = g[k - 1] + s[k]
  <2>1. \A k \in 1..m : g[k] = g[k - 1] + s[k]
    <3>1. \A k \in 1..m : k \in 0..m /\ k - 1 \in 0..m
      OBVIOUS
    <3>2. QED
      BY <3>1, <1>3 DEF IsRunningSum
  <2>2. g[m + 1] = g[(m + 1) - 1] + s[m + 1]
    BY <1>3, <1>4
  <2>3. \A k \in 1..(m + 1) : k \in 1..m \/ k = m + 1
    OBVIOUS
  <2>4. QED
    BY <2>1, <2>2, <2>3
<1>6. IsRunningSum(g, s, m + 1)
  BY <1>2, <1>3, <1>5 DEF IsRunningSum
<1>7. QED
  BY <1>6

\* The recursion that defines RunningSum.
LEMMA RunningSumIs ==
    ASSUME NEW s \in Seq(Nat)
    PROVE  IsRunningSum(RunningSum(s), s, Len(s))
<1> DEFINE n == Len(s)
           T == {m \in Nat : m <= n => \E f : IsRunningSum(f, s, m)}
<1>n. n \in Nat /\ \A k \in 1..n : s[k] \in Nat
  OBVIOUS
<1>1. 0 \in T
  <2>1. IsRunningSum([k \in 0..0 |-> 0], s, 0)
    BY DEF IsRunningSum
  <2>2. QED
    BY <2>1
<1>2. \A m \in T : m + 1 \in T
  <2> HIDE DEF n
  <2>1. ASSUME NEW m \in Nat, m + 1 <= n, NEW f, IsRunningSum(f, s, m)
        PROVE  \E g : IsRunningSum(g, s, m + 1)
    <3>1. s[m + 1] \in Nat
      BY <2>1, <1>n
    <3>2. QED
      BY <2>1, <3>1, LongerSum
  <2>2. QED
    BY <2>1, <1>n
<1>3. n \in T
  <2>1. T \subseteq Nat
    OBVIOUS
  <2> HIDE DEF T
  <2>2. T = Nat
    BY <1>1, <1>2, <2>1, Induction
  <2>3. QED
    BY <2>2, <1>n
<1>4. PICK f : IsRunningSum(f, s, n)
  BY <1>3, <1>n
<1>5. f = [k \in 0..n |-> IF k = 0 THEN 0 ELSE f[k - 1] + s[k]]
  BY <1>4, <1>n DEF IsRunningSum
<1> DEFINE S == RunningSum(s)
<1>6. S = [k \in 0..n |-> IF k = 0 THEN 0 ELSE S[k - 1] + s[k]]
  BY <1>5 DEF RunningSum
<1>7. S[0] = 0 /\ \A k \in 1..n : S[k] = S[k - 1] + s[k]
  BY <1>6, <1>n
<1>8. \A k \in 0..n : S[k] \in Nat
  <2> DEFINE U == {m \in Nat : m <= n => S[m] \in Nat}
  <2> HIDE DEF n, S
  <2>1. U \subseteq Nat /\ 0 \in U /\ \A m \in U : m + 1 \in U
    BY <1>7, <1>n
  <2> HIDE DEF U
  <2>2. U = Nat
    BY <2>1, Induction
  <2>3. QED
    BY <2>2, <1>n DEF U
<1>9. S \in [0..n -> Nat]
  <2> HIDE DEF n
  <2>1. S = [k \in 0..n |-> S[k]]
    BY <1>6
  <2> HIDE DEF S
  <2>2. QED
    BY <2>1, <1>8
<1>10. QED
  BY <1>7, <1>9 DEF IsRunningSum

\* The running sums of naturals never fall.
LEMMA RunningSumGrows ==
    ASSUME NEW s \in Seq(Nat), NEW i \in 0..Len(s), NEW j \in 0..Len(s), i <= j
    PROVE  RunningSum(s)[i] <= RunningSum(s)[j]
<1> DEFINE S == RunningSum(s)
           n == Len(s)
           T == {k \in Nat : i + k <= n => S[i] <= S[i + k]}
<1>1. /\ n \in Nat /\ S \in [0..n -> Nat]
      /\ \A k \in 1..n : S[k] = S[k - 1] + s[k] /\ s[k] \in Nat
  BY RunningSumIs DEF IsRunningSum
<1>d. i \in 0..n /\ j \in 0..n /\ i \in Nat /\ j - i \in Nat /\ i + (j - i) = j
  OBVIOUS
<1> HIDE DEF S, n
<1>2. 0 \in T
  <2>1. i + 0 = i /\ S[i] \in Nat
    BY <1>1, <1>d
  <2>2. QED
    BY <2>1
<1>3. ASSUME NEW k \in T
      PROVE  k + 1 \in T
  <2> SUFFICES ASSUME i + (k + 1) <= n
               PROVE  S[i] <= S[i + (k + 1)]
    OBVIOUS
  <2>1. i \in 0..n /\ k \in Nat
    BY DEF n
  <2>2. S[i] <= S[i + k]
    BY <2>1, <1>1
  <2>3. i + k \in 0..n /\ i + (k + 1) \in 1..n /\ (i + (k + 1)) - 1 = i + k
    BY <2>1, <1>1
  <2>4. S[i + (k + 1)] = S[i + k] + s[i + (k + 1)] /\ s[i + (k + 1)] \in Nat
    BY <2>3, <1>1
  <2>5. S[i] \in Nat /\ S[i + k] \in Nat
    BY <2>1, <2>3, <1>1
  <2>6. QED
    BY <2>2, <2>4, <2>5
<1>4. T = Nat
  <2>1. T \subseteq Nat /\ \A k \in T : k + 1 \in T
    BY <1>3
  <2> HIDE DEF T
  <2>2. QED
    BY <1>2, <2>1, Induction
<1>5. j - i \in T
  <2> HIDE DEF T
  <2>1. QED
    BY <1>4, <1>d
<1>6. j <= n
  BY <1>d, <1>1
<1>7. S[i] <= S[i + (j - i)]
  BY <1>5, <1>6, <1>d
<1>8. QED
  BY <1>7, <1>d DEF S

\* One more at one position is one more in the sums from there on.
LEMMA RaisedSum ==
    ASSUME NEW s \in Seq(Nat), NEW m \in 1..Len(s), NEW t, t = [s EXCEPT ![m] = @ + 1]
    PROVE  /\ t \in Seq(Nat) /\ Len(t) = Len(s)
           /\ RunningSum(s)[Len(s)] \in Nat
           /\ RunningSum(t)[Len(s)] = RunningSum(s)[Len(s)] + 1
<1> DEFINE n == Len(s)
           A == RunningSum(s)
           B == RunningSum(t)
           T == {k \in Nat : k <= n => B[k] = IF k < m THEN A[k] ELSE A[k] + 1}
<1>1. /\ t \in Seq(Nat) /\ Len(t) = n /\ n \in Nat /\ m \in 1..n
      /\ \A k \in 1..n : s[k] \in Nat /\ t[k] = IF k = m THEN s[k] + 1 ELSE s[k]
  OBVIOUS
<1>2. A \in [0..n -> Nat] /\ A[0] = 0 /\ \A k \in 1..n : A[k] = A[k - 1] + s[k]
  BY RunningSumIs DEF IsRunningSum
<1>3. B \in [0..n -> Nat] /\ B[0] = 0 /\ \A k \in 1..n : B[k] = B[k - 1] + t[k]
  BY <1>1, RunningSumIs DEF IsRunningSum
<1> HIDE DEF n, A, B
<1>4. 0 \in T
  BY <1>1, <1>2, <1>3
<1>5. ASSUME NEW k \in T
      PROVE  k + 1 \in T
  <2> SUFFICES ASSUME k + 1 <= n
               PROVE  B[k + 1] = IF k + 1 < m THEN A[k + 1] ELSE A[k + 1] + 1
    OBVIOUS
  <2>1. k \in 0..n /\ k + 1 \in 1..n /\ (k + 1) - 1 = k
    BY <1>1
  <2>2. B[k] = IF k < m THEN A[k] ELSE A[k] + 1
    BY <2>1
  <2>3. A[k + 1] = A[k] + s[k + 1] /\ B[k + 1] = B[k] + t[k + 1]
    BY <2>1, <1>2, <1>3
  <2>4. A[k] \in Nat /\ s[k + 1] \in Nat /\ t[k + 1] = IF k + 1 = m THEN s[k + 1] + 1 ELSE s[k + 1]
    BY <2>1, <1>1, <1>2
  <2>5. k \in Int /\ m \in Int
    BY <1>1
  <2>6. CASE k + 1 < m
    <3>1. k < m /\ k + 1 # m
      BY <2>5, <2>6
    <3>2. QED
      BY <3>1, <2>2, <2>3, <2>4, <2>6
  <2>7. CASE k + 1 = m
    <3>1. k < m /\ ~(k + 1 < m)
      BY <2>5, <2>7
    <3>2. B[k + 1] = A[k] + (s[k + 1] + 1)
      BY <3>1, <2>2, <2>3, <2>4, <2>7
    <3>3. A[k] \in Nat /\ s[k + 1] \in Nat
      BY <2>4
    <3>4. B[k + 1] = (A[k] + s[k + 1]) + 1
      BY <3>2, <3>3
    <3>5. B[k + 1] = A[k + 1] + 1
      BY <3>4, <2>3
    <3>6. QED
      BY <3>1, <3>5
  <2>8. CASE m < k + 1
    <3>1. ~(k < m) /\ k + 1 # m /\ ~(k + 1 < m)
      BY <2>5, <2>8
    <3>2. B[k + 1] = (A[k] + 1) + s[k + 1]
      BY <3>1, <2>2, <2>3, <2>4
    <3>3. A[k] \in Nat /\ s[k + 1] \in Nat
      BY <2>4
    <3>4. B[k + 1] = (A[k] + s[k + 1]) + 1
      BY <3>2, <3>3
    <3>5. B[k + 1] = A[k + 1] + 1
      BY <3>4, <2>3
    <3>6. QED
      BY <3>1, <3>5
  <2>9. QED
    BY <2>5, <2>6, <2>7, <2>8
<1>6. T = Nat
  <2>1. T \subseteq Nat /\ \A k \in T : k + 1 \in T
    BY <1>5
  <2> HIDE DEF T
  <2>2. QED
    BY <1>4, <2>1, Induction
<1>7. B[n] = A[n] + 1 /\ A[n] \in Nat
  <2>1. n \in T
    BY <1>6, <1>1
  <2>2. QED
    BY <2>1, <1>1, <1>2
<1>8. QED
  BY <1>1, <1>7 DEF n, A, B

\* Zeros add up to zero.
LEMMA NoSum ==
    ASSUME NEW n \in Nat
    PROVE  LET s == [k \in 1..n |-> 0] IN s \in Seq(Nat) /\ Len(s) = n /\ RunningSum(s)[n] = 0
<1> DEFINE s == [k \in 1..n |-> 0]
           A == RunningSum(s)
           T == {k \in Nat : k <= n => A[k] = 0}
<1>1. s \in Seq(Nat) /\ Len(s) = n /\ \A k \in 1..n : s[k] = 0
  OBVIOUS
<1> HIDE DEF s
<1>2. A[0] = 0 /\ \A k \in 1..n : A[k] = A[k - 1] + s[k]
  BY <1>1, RunningSumIs DEF IsRunningSum
<1> HIDE DEF A
<1>3. 0 \in T /\ \A k \in T : k + 1 \in T
  BY <1>1, <1>2
<1>4. T = Nat
  <2>1. T \subseteq Nat
    OBVIOUS
  <2> HIDE DEF T
  <2>2. QED
    BY <1>3, <2>1, Induction
<1>5. n \in T
  BY <1>4
<1>6. QED
  BY <1>1, <1>5 DEF s, A
=============================================================================
