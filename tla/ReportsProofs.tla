---------------------------- MODULE ReportsProofs ----------------------------
(***************************************************************************)
(* Proofs about Reports, for any reports: the order of keys and what a sort *)
(* by them returns, that merging and picking come to canonical reports,     *)
(* what a merge keeps and that it may be repeated, that counts and the      *)
(* totals of a trend add up, that the remediation plan covers a report, and *)
(* that the trend chart stays on its page.                                  *)
(***************************************************************************)
EXTENDS Reports, FiniteSetTheorems, NaturalsInduction, SequenceTheorems,
        WellFoundedInduction, TLAPS

-----------------------------------------------------------------------------
(***************************************************************************)
(* Least numbers, and induction as the absence of a least counterexample    *)
(***************************************************************************)
LEMMA LeastOf ==
    ASSUME NEW S \in SUBSET Nat, S # {}
    PROVE  \E x \in S : \A y \in S : x <= y
<1> DEFINE R == {ss \in Nat \X Nat : ss[1] < ss[2]}
<1>1. IsWellFoundedOn(R, Nat)
  BY NatLessThanWellFounded DEF OpToRel
<1>2. PICK x \in S : \A y \in S : ~(<<y, x>> \in R)
  <2> HIDE DEF R
  <2> QED
    BY <1>1, WFMin
<1>3. \A y \in S : x <= y
  <2> TAKE y \in S
  <2>1. ~(<<y, x>> \in R) /\ x \in Nat /\ y \in Nat
    BY <1>2
  <2> QED
    BY <2>1
<1> QED
  BY <1>3

LEMMA MinOf ==
    ASSUME NEW S \in SUBSET Nat, S # {}
    PROVE  Min(S) \in S /\ \A y \in S : Min(S) <= y
BY LeastOf DEF Min

\* The greatest of integers that are not above b.
LEMMA MaxOf ==
    ASSUME NEW S \in SUBSET Int, S # {}, NEW b \in Int, \A x \in S : x <= b
    PROVE  Max(S) \in S /\ \A y \in S : y <= Max(S)
<1> DEFINE T == {n \in Nat : b - n \in S}
<1>1. T \in SUBSET Nat /\ T # {}
  <2>1. PICK x : x \in S
    OBVIOUS
  <2>2. b - x \in Nat /\ b - (b - x) = x
    BY <2>1
  <2> QED
    BY <2>1, <2>2
<1>2. PICK n \in T : \A k \in T : n <= k
  <2> HIDE DEF T
  <2> QED
    BY <1>1, LeastOf
<1>3. \A y \in S : y <= b - n
  <2> TAKE y \in S
  <2>1. b - y \in Nat /\ b - (b - y) = y
    OBVIOUS
  <2>2. b - y \in T
    BY <2>1
  <2>3. n \in Nat /\ y \in Int
    BY <1>2
  <2> HIDE DEF T
  <2>4. n <= b - y
    BY <2>2, <1>2
  <2> QED
    BY <2>3, <2>4
<1>4. n \in Nat /\ b - n \in S
  BY <1>2
<1> HIDE DEF T
<1>5. \E x \in S : \A y \in S : x >= y
  <2>1. \A y \in S : b - n >= y
    <3>1. \A y \in S : y \in Int
      OBVIOUS
    <3> QED
      BY <1>3, <1>4, <3>1
  <2> QED
    BY <2>1, <1>4
<1>6. Max(S) \in S /\ \A y \in S : Max(S) >= y
  BY <1>5 DEF Max
<1> QED
  BY <1>6

\* A finite sequence of numbers has a bound.
LEMMA Bounded ==
    ASSUME NEW n \in Nat, NEW v, \A i \in 1..n : v[i] \in Nat
    PROVE  \E b \in Nat : \A i \in 1..n : v[i] <= b
<1> DEFINE bad == {m \in Nat : m <= n /\ ~\E b \in Nat : \A i \in 1..m : v[i] <= b}
<1>1. ASSUME bad # {}
      PROVE  FALSE
  <2>1. PICK m \in bad : \A k \in bad : m <= k
    <3>1. bad \in SUBSET Nat
      OBVIOUS
    <3> HIDE DEF bad
    <3>2. QED
      BY <1>1, <3>1, LeastOf
  <2>2. m \in Nat /\ m <= n
    BY <2>1
  <2>3. m # 0
    <3>1. \A i \in 1..0 : v[i] <= 0
      OBVIOUS
    <3>2. QED
      BY <2>1, <3>1
  <2>4. m - 1 \notin bad
    <3> HIDE DEF bad
    <3>1. QED
      BY <2>1, <2>2
  <2>5. PICK b \in Nat : \A i \in 1..(m - 1) : v[i] <= b
    BY <2>2, <2>3, <2>4
  <2>6. PICK c \in Nat : b <= c /\ v[m] <= c
    <3>1. v[m] \in Nat
      BY <2>2, <2>3
    <3>2. CASE v[m] <= b
      BY <3>2
    <3>3. CASE b <= v[m]
      BY <3>1, <3>3
    <3>4. QED
      BY <3>1, <3>2, <3>3
  <2>7. \A i \in 1..m : v[i] <= c
    <3>1. \A i \in 1..m : v[i] \in Nat /\ (i = m \/ i \in 1..(m - 1))
      BY <2>2, <2>3
    <3>2. QED
      BY <2>5, <2>6, <3>1
  <2>8. QED
    BY <2>1, <2>7
<1>2. n \notin bad
  BY <1>1
<1>3. QED
  BY <1>2

-----------------------------------------------------------------------------
(***************************************************************************)
(* The order of keys                                                        *)
(***************************************************************************)
\* Keys are ordered by the first place where they differ.
LEMMA BeforeNot ==
    ASSUME NEW a \in Seq(Int), NEW b \in Seq(Int), Before(a, b)
    PROVE  ~Before(b, a)
<1>1. Len(a) \in Nat /\ Len(b) \in Nat
      /\ (\A k \in 1..Len(a) : a[k] \in Int) /\ (\A k \in 1..Len(b) : b[k] \in Int)
  OBVIOUS
<1>2. PICK k \in 1..Len(b) : /\ \A j \in 1..(k - 1) : j <= Len(a) /\ a[j] = b[j]
                             /\ k > Len(a) \/ a[k] < b[k]
  BY DEF Before
<1>3. ASSUME NEW l \in 1..Len(a), \A j \in 1..(l - 1) : j <= Len(b) /\ b[j] = a[j],
             l > Len(b) \/ b[l] < a[l]
      PROVE  FALSE
  <2>1. k = l \/ k \in 1..(l - 1) \/ l \in 1..(k - 1)
    BY <1>1
  <2>2. QED
    BY <1>1, <1>2, <1>3, <2>1
<1>4. QED
  BY <1>3 DEF Before

LEMMA BeforeTransitive ==
    ASSUME NEW a \in Seq(Int), NEW b \in Seq(Int), NEW c \in Seq(Int),
           Before(a, b), Before(b, c)
    PROVE  Before(a, c)
<1>1. /\ Len(a) \in Nat /\ Len(b) \in Nat /\ Len(c) \in Nat
      /\ \A k \in 1..Len(a) : a[k] \in Int
      /\ \A k \in 1..Len(b) : b[k] \in Int
      /\ \A k \in 1..Len(c) : c[k] \in Int
  OBVIOUS
<1>2. PICK k \in 1..Len(b) : /\ \A j \in 1..(k - 1) : j <= Len(a) /\ a[j] = b[j]
                             /\ k > Len(a) \/ a[k] < b[k]
  BY DEF Before
<1>3. PICK l \in 1..Len(c) : /\ \A j \in 1..(l - 1) : j <= Len(b) /\ b[j] = c[j]
                             /\ l > Len(b) \/ b[l] < c[l]
  BY DEF Before
<1>4. CASE k < l
  <2>1. k \in 1..(l - 1) /\ k \in 1..Len(c) /\ b[k] = c[k]
    BY <1>1, <1>3, <1>4
  <2>2. \A j \in 1..(k - 1) : j <= Len(a) /\ a[j] = c[j]
    BY SMTT(30), <1>1, <1>2, <1>3, <1>4
  <2>3. QED
    BY <1>1, <1>2, <2>1, <2>2 DEF Before
<1>5. CASE l <= k
  <2>1. \A j \in 1..(l - 1) : j <= Len(a) /\ a[j] = c[j]
    BY SMTT(30), <1>1, <1>2, <1>3, <1>5
  <2>2. l > Len(a) \/ a[l] < c[l]
    <3>1. CASE l = k
      BY SMTT(30), <1>1, <1>2, <1>3, <3>1
    <3>2. CASE l < k
      <4>1. l \in 1..(k - 1)
        BY <1>1, <3>2
      <4>2. l <= Len(b)
        BY <1>1, <4>1
      <4>3. a[l] = b[l] /\ b[l] < c[l]
        BY <1>1, <1>2, <1>3, <4>1, <4>2
      <4>4. QED
        BY <4>3
    <3>3. QED
      BY <1>5, <3>1, <3>2
  <2>3. QED
    BY <2>1, <2>2 DEF Before
<1>6. QED
  BY <1>1, <1>4, <1>5

LEMMA BeforeTotal ==
    ASSUME NEW a \in Seq(Int), NEW b \in Seq(Int), a # b
    PROVE  Before(a, b) \/ Before(b, a)
<1> DEFINE D == {k \in Nat : \/ k \in 1..Len(a) /\ k \notin 1..Len(b)
                             \/ k \in 1..Len(b) /\ k \notin 1..Len(a)
                             \/ k \in 1..Len(a) /\ k \in 1..Len(b) /\ a[k] # b[k]}
<1>1. /\ Len(a) \in Nat /\ Len(b) \in Nat
      /\ \A k \in 1..Len(a) : a[k] \in Int
      /\ \A k \in 1..Len(b) : b[k] \in Int
  OBVIOUS
<1>2. D \in SUBSET Nat /\ D # {}
  <2>1. CASE Len(a) = Len(b)
    <3>1. PICK k \in 1..Len(a) : a[k] # b[k]
      BY <2>1
    <3>2. k \in Nat /\ k \in 1..Len(b)
      BY <1>1, <2>1, <3>1
    <3>3. k \in D
      BY <3>1, <3>2
    <3>4. QED
      BY <3>3
  <2>2. CASE Len(a) < Len(b)
    <3>1. Len(b) \in 1..Len(b) /\ Len(b) \notin 1..Len(a)
      BY <1>1, <2>2
    <3>2. Len(b) \in D
      BY <1>1, <3>1
    <3>3. QED
      BY <3>2
  <2>3. CASE Len(b) < Len(a)
    <3>1. Len(a) \in 1..Len(a) /\ Len(a) \notin 1..Len(b)
      BY <1>1, <2>3
    <3>2. Len(a) \in D
      BY <1>1, <3>1
    <3>3. QED
      BY <3>2
  <2>4. QED
    BY <1>1, <2>1, <2>2, <2>3
<1>3. PICK k \in D : \A j \in D : k <= j
  <2> HIDE DEF D
  <2>1. QED
    BY <1>2, LeastOf
<1>4. \A j \in 1..(k - 1) : j \notin D
  <2>1. k \in Nat
    BY <1>3
  <2> HIDE DEF D
  <2>2. QED
    BY <1>3, <2>1
<1>5. k \in Nat /\ k >= 1
  BY <1>1, <1>3
<1>6. k \in 1..Len(a) \/ k \in 1..Len(b)
  BY <1>3
<1>7. \A j \in 1..(k - 1) : j <= Len(a) /\ j <= Len(b) /\ a[j] = b[j]
  <2> TAKE j \in 1..(k - 1)
  <2>1. j \in Nat /\ j >= 1 /\ (j <= Len(a) \/ j <= Len(b))
    BY <1>1, <1>5, <1>6
  <2>2. QED
    BY <1>1, <1>4, <2>1
<1>8. CASE k \in 1..Len(a) /\ k \in 1..Len(b)
  <2>1. a[k] # b[k]
    BY <1>3, <1>8
  <2>2. a[k] < b[k] \/ b[k] < a[k]
    BY <1>1, <1>8, <2>1
  <2>3. QED
    BY <1>7, <1>8, <2>2 DEF Before
<1>9. CASE k \in 1..Len(a) /\ k \notin 1..Len(b)
  <2>1. k > Len(b)
    BY <1>1, <1>5, <1>9
  <2>2. Before(b, a)
    BY <1>7, <1>9, <2>1 DEF Before
  <2>3. QED
    BY <2>2
<1>10. CASE k \in 1..Len(b) /\ k \notin 1..Len(a)
  <2>1. k > Len(a)
    BY <1>1, <1>5, <1>10
  <2>2. Before(a, b)
    BY <1>7, <1>10, <2>1 DEF Before
  <2>3. QED
    BY <2>2
<1>11. QED
  BY <1>6, <1>8, <1>9, <1>10

-----------------------------------------------------------------------------
(***************************************************************************)
(* Sorting                                                                  *)
(***************************************************************************)
Below(S, key, x) == {y \in S : Before(key[y], key[x])}

\* How many elements come before it tells the elements of a set apart, and takes
\* every value below their number.
LEMMA Ranks ==
    ASSUME NEW S, IsFiniteSet(S), NEW key,
           \A x \in S : key[x] \in Seq(Int),
           \A x, y \in S : key[x] = key[y] => x = y
    PROVE  /\ \A x \in S : Cardinality(Below(S, key, x)) \in 0..(Cardinality(S) - 1)
           /\ \A x, y \in S : Before(key[x], key[y]) =>
                 Cardinality(Below(S, key, x)) < Cardinality(Below(S, key, y))
           /\ \A n \in 0..(Cardinality(S) - 1) :
                 \E x \in S : Cardinality(Below(S, key, x)) = n
<1> DEFINE B(x) == Below(S, key, x)
           R == 0..(Cardinality(S) - 1)
<1>1. \A x, y, z \in S : /\ ~Before(key[x], key[x])
                         /\ Before(key[x], key[y]) => ~Before(key[y], key[x])
                         /\ Before(key[x], key[y]) /\ Before(key[y], key[z]) =>
                               Before(key[x], key[z])
                         /\ x # y => Before(key[x], key[y]) \/ Before(key[y], key[x])
  BY BeforeNot, BeforeTransitive, BeforeTotal
<1>2. Cardinality(S) \in Nat
  BY FS_CardinalityType
<1>3. \A x \in S : IsFiniteSet(B(x)) /\ Cardinality(B(x)) \in Nat
  BY FS_Subset, FS_CardinalityType DEF Below
<1>4. \A x \in S : Cardinality(B(x)) \in R
  <2> TAKE x \in S
  <2>1. B(x) \in SUBSET (S \ {x})
    BY <1>1 DEF Below
  <2>2. IsFiniteSet(S \ {x}) /\ Cardinality(S \ {x}) = Cardinality(S) - 1
    BY FS_RemoveElement
  <2>3. Cardinality(B(x)) <= Cardinality(S) - 1
    BY <2>1, <2>2, FS_Subset
  <2>4. QED
    BY <1>2, <1>3, <2>3
<1>5. \A x, y \in S : Before(key[x], key[y]) => Cardinality(B(x)) < Cardinality(B(y))
  <2> SUFFICES ASSUME NEW x \in S, NEW y \in S, Before(key[x], key[y])
               PROVE  Cardinality(B(x)) < Cardinality(B(y))
    OBVIOUS
  <2>1. B(x) \in SUBSET B(y) /\ x \in B(y) /\ x \notin B(x)
    BY <1>1 DEF Below
  <2>2. Cardinality(B(x)) <= Cardinality(B(y)) /\ Cardinality(B(x)) # Cardinality(B(y))
    BY <1>3, <2>1, FS_Subset
  <2>3. QED
    BY <1>3, <2>2
<1> DEFINE rank == [x \in S |-> Cardinality(B(x))]
<1>6. rank \in Injection(S, R)
  <2>1. rank \in [S -> R]
    BY <1>4
  <2>2. \A x, y \in S : x # y => rank[x] # rank[y]
    <3> TAKE x, y \in S
    <3> HAVE x # y
    <3>1. rank[x] < rank[y] \/ rank[y] < rank[x]
      BY <1>1, <1>5
    <3>2. rank[x] \in Nat /\ rank[y] \in Nat
      BY <1>3
    <3>3. QED
      BY <3>1, <3>2
  <2>3. QED
    BY <2>1, <2>2 DEF Injection, IsInjective
<1>7. IsFiniteSet(R) /\ Cardinality(R) = Cardinality(S)
  <2>1. 0 \in Int /\ Cardinality(S) - 1 \in Int
    BY <1>2
  <2>2. QED
    BY <1>2, <2>1, FS_Interval
<1>8. rank \in Surjection(S, R)
  <2> HIDE DEF rank, R
  <2>1. QED
    BY <1>6, <1>7, FS_Injection
<1>9. \A n \in R : \E x \in S : rank[x] = n
  BY <1>8 DEF Surjection
<1>10. QED
  BY <1>4, <1>5, <1>9

\* SortedBy lists a finite set in the order of its keys, each element once.
LEMMA Sorted ==
    ASSUME NEW S, IsFiniteSet(S), NEW key,
           \A x \in S : key[x] \in Seq(Int),
           \A x, y \in S : key[x] = key[y] => x = y
    PROVE  /\ Cardinality(S) \in Nat
           /\ SortedBy(S, key) \in [1..Cardinality(S) -> S]
           /\ \A x \in S : \E n \in 1..Cardinality(S) : SortedBy(S, key)[n] = x
           /\ \A i, j \in 1..Cardinality(S) : i < j =>
                 Before(key[SortedBy(S, key)[i]], key[SortedBy(S, key)[j]])
<1> DEFINE N == Cardinality(S)
           q == SortedBy(S, key)
           r(x) == Cardinality(Below(S, key, x))
<1>1. N \in Nat
  BY FS_CardinalityType
<1>2. \A n \in 1..N : q[n] \in S /\ r(q[n]) = n - 1
  <2> TAKE n \in 1..N
  <2>1. n - 1 \in 0..(N - 1)
    BY <1>1
  <2>2. \E x \in S : r(x) = n - 1
    BY <2>1, Ranks
  <2>3. q[n] = CHOOSE x \in S : r(x) = n - 1
    BY DEF SortedBy, Below
  <2> HIDE DEF r, q
  <2>4. QED
    BY <2>2, <2>3
<1>3. q \in [1..N -> S]
  BY <1>2 DEF SortedBy
<1>4. \A x \in S : r(x) \in 0..(N - 1)
  BY Ranks
<1>5. \A x, y \in S : Before(key[x], key[y]) => r(x) < r(y)
  BY Ranks
<1>6. \A x, y \in S : r(x) = r(y) => x = y
  <2> SUFFICES ASSUME NEW x \in S, NEW y \in S, r(x) = r(y), x # y
               PROVE  FALSE
    OBVIOUS
  <2>1. Before(key[x], key[y]) \/ Before(key[y], key[x])
    BY BeforeTotal
  <2>2. r(x) < r(y) \/ r(y) < r(x)
    BY <1>5, <2>1
  <2>3. r(x) \in Int /\ r(y) \in Int
    BY <1>1, <1>4
  <2> HIDE DEF r
  <2>4. QED
    BY <2>2, <2>3
<1>7. \A x \in S : \E n \in 1..N : q[n] = x
  <2> TAKE x \in S
  <2>1. r(x) + 1 \in 1..N /\ (r(x) + 1) - 1 = r(x)
    BY <1>1, <1>4
  <2> HIDE DEF r, q
  <2>2. q[r(x) + 1] = x
    BY <1>2, <1>6, <2>1
  <2>3. QED
    BY <2>1, <2>2
<1>8. \A i, j \in 1..N : i < j => Before(key[q[i]], key[q[j]])
  <2> SUFFICES ASSUME NEW i \in 1..N, NEW j \in 1..N, i < j
               PROVE  Before(key[q[i]], key[q[j]])
    OBVIOUS
  <2>1. /\ q[i] \in S /\ q[j] \in S
        /\ r(q[i]) = i - 1 /\ r(q[j]) = j - 1
    BY <1>2
  <2> HIDE DEF r, q
  <2>2. q[i] # q[j] /\ ~(r(q[j]) < r(q[i]))
    BY <1>1, <2>1
  <2>3. ~Before(key[q[j]], key[q[i]])
    BY <1>5, <2>1, <2>2
  <2>4. key[q[i]] # key[q[j]]
    BY <2>1, <2>2
  <2>5. QED
    BY <2>1, <2>3, <2>4, BeforeTotal
<1>9. QED
  BY <1>1, <1>3, <1>7, <1>8

\* InOrder lists a finite set of numbers from the least to the greatest.
LEMMA Ordered ==
    ASSUME NEW I \in SUBSET Nat, IsFiniteSet(I)
    PROVE  /\ Cardinality(I) \in Nat
           /\ InOrder(I) \in [1..Cardinality(I) -> I]
           /\ \A i \in I : \E n \in 1..Cardinality(I) : InOrder(I)[n] = i
           /\ \A m, n \in 1..Cardinality(I) : m < n => InOrder(I)[m] < InOrder(I)[n]
<1> DEFINE key == [i \in I |-> <<i>>]
<1>1. \A i \in I : key[i] \in Seq(Int)
  OBVIOUS
<1>2. \A i, j \in I : key[i] = key[j] => i = j
  OBVIOUS
<1>3. \A i, j \in I : Before(key[i], key[j]) => i < j
  <2> SUFFICES ASSUME NEW i \in I, NEW j \in I, Before(<<i>>, <<j>>)
               PROVE  i < j
    OBVIOUS
  <2>1. Len(<<i>>) = 1 /\ Len(<<j>>) = 1
    OBVIOUS
  <2>2. PICK k \in 1..1 : k > 1 \/ <<i>>[k] < <<j>>[k]
    BY <2>1 DEF Before
  <2>3. QED
    BY <2>2
<1>4. InOrder(I) = SortedBy(I, key)
  BY DEF InOrder
<1> HIDE DEF key
<1>5. /\ Cardinality(I) \in Nat
      /\ SortedBy(I, key) \in [1..Cardinality(I) -> I]
      /\ \A i \in I : \E n \in 1..Cardinality(I) : SortedBy(I, key)[n] = i
      /\ \A m, n \in 1..Cardinality(I) : m < n =>
            Before(key[SortedBy(I, key)[m]], key[SortedBy(I, key)[n]])
  <2>1. (\A x \in I : key[x] \in Seq(Int)) /\ (\A x, y \in I : key[x] = key[y] => x = y)
    BY <1>1, <1>2
  <2>2. QED
    BY <2>1, Sorted
<1>6. \A n \in 1..Cardinality(I) : InOrder(I)[n] \in I
  BY <1>4, <1>5
<1>7. \A m, n \in 1..Cardinality(I) : m < n => InOrder(I)[m] < InOrder(I)[n]
  BY <1>3, <1>4, <1>5, <1>6
<1>8. QED
  BY <1>4, <1>5, <1>7

\* A list is a function on an initial part of the positive numbers.
IsList(s) == Len(s) \in Nat /\ s = [i \in 1..Len(s) |-> s[i]]

Elements(s) == {s[i] : i \in DOMAIN s}

LEMMA ListIs ==
    ASSUME NEW s, IsList(s)
    PROVE  DOMAIN s = 1..Len(s) /\ Len(s) \in Nat /\ s \in Seq(Elements(s))
<1>1. DOMAIN s = 1..Len(s) /\ Len(s) \in Nat
  BY DEF IsList
<1>2. s \in [1..Len(s) -> Elements(s)]
  <2>1. \A i \in 1..Len(s) : s[i] \in Elements(s)
    BY <1>1 DEF Elements
  <2>2. s = [i \in 1..Len(s) |-> s[i]]
    BY DEF IsList
  <2>3. QED
    BY <2>1, <2>2
<1>3. QED
  BY <1>1, <1>2

LEMMA SeqIsList ==
    ASSUME NEW T, NEW s \in Seq(T)
    PROVE  IsList(s)
BY DEF IsList

LEMMA FunctionIsList ==
    ASSUME NEW n \in Nat, NEW T, NEW s \in [1..n -> T]
    PROVE  IsList(s) /\ Len(s) = n /\ DOMAIN s = 1..n
BY DEF IsList

LEMMA ListPlaces ==
    ASSUME NEW s, IsList(s), NEW I \in SUBSET DOMAIN s
    PROVE  I \in SUBSET Nat /\ IsFiniteSet(I) /\ Cardinality(I) \in Nat
<1>1. DOMAIN s = 1..Len(s) /\ Len(s) \in Nat
  BY ListIs
<1>2. IsFiniteSet(DOMAIN s)
  BY <1>1, FS_Interval
<1>3. QED
  BY <1>1, <1>2, FS_Subset, FS_CardinalityType

\* At picks from a list what is at some places and keeps it in its order.
LEMMA Picked ==
    ASSUME NEW s, IsList(s), NEW I \in SUBSET DOMAIN s
    PROVE  /\ IsList(At(s, I)) /\ Len(At(s, I)) = Cardinality(I)
           /\ \A n \in DOMAIN At(s, I) : InOrder(I)[n] \in I /\ At(s, I)[n] = s[InOrder(I)[n]]
           /\ \A m, n \in DOMAIN At(s, I) : m < n => InOrder(I)[m] < InOrder(I)[n]
           /\ \A i \in I : \E n \in DOMAIN At(s, I) : InOrder(I)[n] = i
<1>1. I \in SUBSET Nat /\ IsFiniteSet(I) /\ Cardinality(I) \in Nat
  BY ListPlaces
<1>2. At(s, I) = [n \in 1..Cardinality(I) |-> s[InOrder(I)[n]]]
  BY DEF At
<1>3. IsList(At(s, I)) /\ Len(At(s, I)) = Cardinality(I) /\ DOMAIN At(s, I) = 1..Cardinality(I)
  <2>1. \A n \in Nat : \A q : q = [i \in 1..n |-> s[InOrder(I)[i]]] =>
          IsList(q) /\ Len(q) = n /\ DOMAIN q = 1..n
    BY DEF IsList
  <2>2. QED
    BY <1>1, <1>2, <2>1
<1>4. QED
  BY <1>1, <1>2, <1>3, Ordered

-----------------------------------------------------------------------------
(***************************************************************************)
(* Entries                                                                  *)
(***************************************************************************)
EntryDomain == {"fp", "at", "sev", "conf", "cves", "cvss", "epss", "kev",
                "fix", "cwes", "meta"}

EntryFields(f) ==
    /\ f.fp \in Fingerprint /\ f.at \in Place /\ f.sev \in Severity
    /\ f.conf \in Confidence \cup {None} /\ f.cves \in SUBSET Cve
    /\ f.cvss \in Score \cup {None} /\ f.epss \in Score \cup {None}
    /\ f.kev \in BOOLEAN
    /\ f.fix \in Nat /\ f.cwes \in SUBSET Cwe /\ IsMeta(f.meta)

LEMMA EntryIs ==
    ASSUME NEW f
    PROVE  IsEntry(f) <=> DOMAIN f = EntryDomain /\ EntryFields(f)
<1> DEFINE core == [k \in DOMAIN f \ {"fix", "cwes", "meta"} |-> f[k]]
<1>1. SUFFICES ASSUME DOMAIN f = EntryDomain
               PROVE  IsEntry(f) <=> EntryFields(f)
  BY DEF IsEntry, EntryDomain
<1>2. core = [k \in {"fp", "at", "sev", "conf", "cves", "cvss", "epss", "kev"} |-> f[k]]
  <2>1. EntryDomain \ {"fix", "cwes", "meta"}
        = {"fp", "at", "sev", "conf", "cves", "cvss", "epss", "kev"}
    BY DEF EntryDomain
  <2>2. QED
    BY <1>1, <2>1
<1>3. /\ core.fp = f.fp /\ core.at = f.at /\ core.sev = f.sev /\ core.conf = f.conf
      /\ core.cves = f.cves /\ core.cvss = f.cvss /\ core.epss = f.epss /\ core.kev = f.kev
  BY <1>2
<1>4. DOMAIN core = {"fp", "at", "sev", "conf", "cves", "cvss", "epss", "kev"}
  BY <1>2
<1>5. core \in Finding <=>
        /\ f.fp \in Fingerprint /\ f.at \in Place /\ f.sev \in Severity
        /\ f.conf \in Confidence \cup {None} /\ f.cves \in SUBSET Cve
        /\ f.cvss \in Score \cup {None} /\ f.epss \in Score \cup {None}
        /\ f.kev \in BOOLEAN
  <2>1. core \in Finding <=>
          /\ core.fp \in Fingerprint /\ core.at \in Place /\ core.sev \in Severity
          /\ core.conf \in Confidence \cup {None} /\ core.cves \in SUBSET Cve
          /\ core.cvss \in Score \cup {None} /\ core.epss \in Score \cup {None}
          /\ core.kev \in BOOLEAN
    <3> DEFINE g == core
    <3>1. core = [fp |-> core.fp, at |-> core.at, sev |-> core.sev, conf |-> core.conf,
                  cves |-> core.cves, cvss |-> core.cvss, epss |-> core.epss,
                  kev |-> core.kev]
      BY <1>2
    <3> HIDE DEF core
    <3>2. QED
      BY <3>1 DEF Finding
  <2>2. QED
    BY <1>3, <2>1
<1>6. IsEntry(f) <=> core \in Finding /\ f.fix \in Nat /\ f.cwes \subseteq Cwe
                     /\ IsMeta(f.meta)
  BY <1>1 DEF IsEntry, EntryDomain
<1> HIDE DEF core
<1>7. QED
  BY <1>5, <1>6 DEF EntryFields

\* The numbers of an entry.
LEMMA EntryNumbers ==
    ASSUME NEW f, IsEntry(f)
    PROVE  /\ f.sev \in 0..4 /\ f.conf \in -1..4
           /\ f.cvss \in -1..100 /\ f.epss \in -1..100
           /\ f.fp \in Nat /\ f.fix \in Nat
<1>1. EntryFields(f)
  BY EntryIs
<1>2. /\ f.sev \in Severity /\ f.conf \in Confidence \cup {None}
      /\ f.cvss \in Score \cup {None} /\ f.epss \in Score \cup {None}
      /\ f.fp \in Fingerprint /\ f.fix \in Nat
  BY <1>1 DEF EntryFields
<1>3. f.sev \in 0..4
  BY <1>2 DEF Severity
<1>4. f.conf \in -1..4
  BY <1>2 DEF Confidence, None
<1>5. f.cvss \in -1..100 /\ f.epss \in -1..100
  BY <1>2 DEF Score, None
<1>6. f.fp \in Nat
  BY <1>2, FindingsAssumption
<1>7. QED
  BY <1>2, <1>3, <1>4, <1>5, <1>6

LEMMA FlatKeyIs ==
    ASSUME NEW f, IsEntry(f)
    PROVE  /\ FlatKey(f) \in Seq(Int) /\ Len(FlatKey(f)) = 5
           /\ FlatKey(f)[5] = f.fp
<1>1. /\ -f.sev \in Int /\ -f.cvss \in Int /\ -f.epss \in Int /\ f.fp \in Int
      /\ (IF f.kev THEN -1 ELSE 0) \in Int
  <2>1. f.sev \in Int /\ f.cvss \in Int /\ f.epss \in Int /\ f.fp \in Int
    BY EntryNumbers
  <2>2. \A n \in Int : -n \in Int
    OBVIOUS
  <2>3. (IF f.kev THEN -1 ELSE 0) \in Int
    <3>1. CASE f.kev
      BY <3>1
    <3>2. CASE ~f.kev
      BY <3>2
    <3>3. QED
      BY <3>1, <3>2
  <2>4. QED
    BY <2>1, <2>2, <2>3
<1> DEFINE a == -f.sev
           b == IF f.kev THEN -1 ELSE 0
           c == -f.cvss
           d == -f.epss
<1>2. FlatKey(f) = <<a, b, c, d, f.fp>>
  BY DEF FlatKey
<1> HIDE DEF a, b, c, d
<1>3. QED
  BY <1>1, <1>2 DEF a, b, c, d

\* An order of keys orders what they begin with.
LEMMA PrefixOrder ==
    ASSUME NEW a \in Seq(Int), NEW b \in Seq(Int), NEW n \in Nat,
           n <= Len(a), n <= Len(b), Before(a, b)
    PROVE  ~Before(SubSeq(b, 1, n), SubSeq(a, 1, n))
<1>1. /\ Len(SubSeq(a, 1, n)) = n /\ \A i \in 1..n : SubSeq(a, 1, n)[i] = a[i]
      /\ Len(SubSeq(b, 1, n)) = n /\ \A i \in 1..n : SubSeq(b, 1, n)[i] = b[i]
  OBVIOUS
<1>2. /\ Len(a) \in Nat /\ Len(b) \in Nat
      /\ \A k \in 1..Len(a) : a[k] \in Int
      /\ \A k \in 1..Len(b) : b[k] \in Int
  OBVIOUS
<1>3. PICK k \in 1..Len(b) : /\ \A j \in 1..(k - 1) : j <= Len(a) /\ a[j] = b[j]
                             /\ k > Len(a) \/ a[k] < b[k]
  BY DEF Before
<1>4. ASSUME NEW l \in 1..n,
             \A j \in 1..(l - 1) : b[j] = a[j],
             b[l] < a[l]
      PROVE  FALSE
  <2>1. l \in 1..Len(a) /\ l \in 1..Len(b)
    BY SMTT(30), <1>2, <1>4
  <2>2. a[l] \in Int /\ b[l] \in Int /\ k \in Int /\ l \in Int /\ Len(a) \in Int
    BY <1>2, <2>1
  <2>3. CASE k = l
    BY SMTT(30), <1>3, <1>4, <2>1, <2>2, <2>3
  <2>4. CASE k < l
    <3>1. k \in 1..(l - 1) /\ k \in 1..Len(a) /\ a[k] \in Int /\ b[k] = a[k]
      BY SMTT(30), <1>2, <1>4, <2>1, <2>4
    <3>2. a[k] < b[k]
      BY <1>3, <3>1
    <3>3. QED
      BY <3>1, <3>2
  <2>5. CASE l < k
    <3>1. l \in 1..(k - 1)
      BY <2>1, <2>2, <2>5
    <3>2. a[l] = b[l]
      BY <1>3, <3>1
    <3>3. QED
      BY <1>4, <2>2, <3>2
  <2>6. QED
    BY <2>2, <2>3, <2>4, <2>5
<1>5. ASSUME Before(SubSeq(b, 1, n), SubSeq(a, 1, n))
      PROVE  FALSE
  <2>1. PICK l \in 1..n : /\ \A j \in 1..(l - 1) : SubSeq(b, 1, n)[j] = SubSeq(a, 1, n)[j]
                          /\ l > n \/ SubSeq(b, 1, n)[l] < SubSeq(a, 1, n)[l]
    BY <1>1, <1>5 DEF Before
  <2>2. \A j \in 1..(l - 1) : j \in 1..n
    BY <2>1
  <2>3. (\A j \in 1..(l - 1) : b[j] = a[j]) /\ b[l] < a[l]
    BY <1>1, <2>1, <2>2
  <2>4. QED
    BY <1>4, <2>3
<1>6. QED
  BY <1>5

-----------------------------------------------------------------------------
(***************************************************************************)
(* Merging                                                                  *)
(***************************************************************************)
\* What the entries of one fingerprint are merged to is an entry again.
LEMMA FoldedIsEntry ==
    ASSUME NEW s, IsList(s), IsReport(s), NEW fp \in FpsIn(s)
    PROVE  /\ IsEntry(FoldedEntry(s, Sightings(s, fp)))
           /\ FoldedEntry(s, Sightings(s, fp)).fp = fp
<1> DEFINE I == Sightings(s, fp)
           m == FoldedEntry(s, I)
<1>1. I \in SUBSET (1..Len(s)) /\ I \in SUBSET Nat /\ I # {}
  BY ListIs DEF FpsIn, Sightings
<1>2. \A i \in I : /\ IsEntry(s[i]) /\ s[i].fp = fp
                   /\ EntryFields(s[i]) /\ DOMAIN s[i] = EntryDomain
  BY <1>1, EntryIs DEF IsReport, Sightings
<1>3. Min(I) \in I
  BY <1>1, MinOf
<1>4. /\ Max({s[i].sev : i \in I}) \in Severity
      /\ Max({s[i].conf : i \in I}) \in Confidence \cup {None}
      /\ Max({s[i].cvss : i \in I}) \in Score \cup {None}
      /\ Max({s[i].epss : i \in I}) \in Score \cup {None}
  <2>1. \A i \in I : /\ s[i].sev \in 0..4 /\ s[i].conf \in -1..4
                     /\ s[i].cvss \in -1..100 /\ s[i].epss \in -1..100
    BY <1>2, EntryNumbers
  <2> DEFINE sevs == {s[i].sev : i \in I}
             confs == {s[i].conf : i \in I}
             cvsss == {s[i].cvss : i \in I}
             epsss == {s[i].epss : i \in I}
  <2>2. sevs # {} /\ confs # {} /\ cvsss # {} /\ epsss # {}
    BY <1>3
  <2>3. /\ \A x \in sevs : x \in Int /\ x <= 100
        /\ \A x \in confs : x \in Int /\ x <= 100
        /\ \A x \in cvsss : x \in Int /\ x <= 100
        /\ \A x \in epsss : x \in Int /\ x <= 100
    BY <2>1
  <2>4. /\ \A x \in sevs : x \in Severity
        /\ \A x \in confs : x \in Confidence \cup {None}
        /\ \A x \in cvsss : x \in Score \cup {None}
        /\ \A x \in epsss : x \in Score \cup {None}
    BY <1>2 DEF EntryFields
  <2> HIDE DEF sevs, confs, cvsss, epsss
  <2>5. /\ Max(sevs) \in sevs /\ Max(confs) \in confs
        /\ Max(cvsss) \in cvsss /\ Max(epsss) \in epsss
    <3>1. \A V \in SUBSET Int : V # {} /\ (\A x \in V : x <= 100) => Max(V) \in V
      <4>1. 100 \in Int
        OBVIOUS
      <4>2. QED
        BY <4>1, MaxOf
    <3>2. /\ sevs \in SUBSET Int /\ confs \in SUBSET Int
          /\ cvsss \in SUBSET Int /\ epsss \in SUBSET Int
      BY <2>3
    <3>3. QED
      BY <2>2, <2>3, <3>1, <3>2
  <2>6. /\ Max(sevs) \in Severity /\ Max(confs) \in Confidence \cup {None}
        /\ Max(cvsss) \in Score \cup {None} /\ Max(epsss) \in Score \cup {None}
    BY <2>4, <2>5
  <2>7. QED
    BY <2>6 DEF sevs, confs, cvsss, epsss
<1>5. Max({s[i].fix : i \in I}) \in Nat
  <2>1. \A i \in 1..Len(s) : [j \in 1..Len(s) |-> s[j].fix][i] \in Nat
    BY EntryNumbers DEF IsReport
  <2>2. PICK b \in Nat : \A i \in 1..Len(s) : [j \in 1..Len(s) |-> s[j].fix][i] <= b
    <3> DEFINE v == [j \in 1..Len(s) |-> s[j].fix]
    <3>1. \A i \in 1..Len(s) : v[i] \in Nat
      BY <2>1
    <3>2. Len(s) \in Nat
      BY ListIs
    <3> HIDE DEF v
    <3>3. \E b \in Nat : \A i \in 1..Len(s) : v[i] <= b
      BY <3>1, <3>2, Bounded
    <3>4. QED
      BY <3>3 DEF v
  <2> DEFINE fixes == {s[i].fix : i \in I}
  <2>3. \A x \in fixes : x \in Nat /\ x \in Int /\ x <= b
    BY <1>1, <2>1, <2>2
  <2>4. fixes # {}
    BY <1>3
  <2> HIDE DEF fixes
  <2>5. Max(fixes) \in fixes
    <3>1. fixes \in SUBSET Int /\ b \in Int /\ \A x \in fixes : x <= b
      BY <2>3
    <3>2. QED
      BY <2>4, <3>1, MaxOf
  <2>6. Max(fixes) \in Nat
    BY <2>3, <2>5
  <2>7. QED
    BY <2>6 DEF fixes
<1>6. /\ UNION {s[i].cves : i \in I} \in SUBSET Cve
      /\ UNION {s[i].cwes : i \in I} \in SUBSET Cwe
  BY <1>2 DEF EntryFields
<1>7. /\ DOMAIN m = EntryDomain
      /\ m.fp = s[Min(I)].fp /\ m.at = s[Min(I)].at /\ m.kev = s[Min(I)].kev
      /\ m.sev = Max({s[i].sev : i \in I}) /\ m.conf = Max({s[i].conf : i \in I})
      /\ m.cvss = Max({s[i].cvss : i \in I}) /\ m.epss = Max({s[i].epss : i \in I})
      /\ m.cves = UNION {s[i].cves : i \in I} /\ m.cwes = UNION {s[i].cwes : i \in I}
      /\ m.fix = Max({s[i].fix : i \in I})
      /\ m.meta = [key \in MetaKey |-> FirstPresent(s, I, key)]
  <2>1. DOMAIN s[Min(I)] = EntryDomain
    BY <1>2, <1>3
  <2> HIDE DEF I
  <2>2. QED
    BY <2>1 DEF FoldedEntry, Folded, EntryDomain
<1>8. EntryFields(s[Min(I)]) /\ s[Min(I)].fp = fp
  BY <1>2, <1>3
<1>9. IsMeta(m.meta)
  <2>1. \A i \in I : IsMeta(s[i].meta)
    BY <1>2 DEF EntryFields
  <2>2. ASSUME NEW key \in {"owner", "package", "product"}
        PROVE  FirstPresent(s, I, key) \in Nat \cup {Absent}
    <3> DEFINE having == {i \in I : s[i].meta[key] # Absent}
    <3>1. having \in SUBSET Nat /\ \A i \in having : s[i].meta[key] \in Nat \cup {Absent}
      BY <1>1, <2>1 DEF IsMeta
    <3>2. FirstPresent(s, I, key) = IF having = {} THEN Absent ELSE s[Min(having)].meta[key]
      BY DEF FirstPresent
    <3> HIDE DEF having
    <3>3. having # {} => Min(having) \in having
      BY <3>1, MinOf
    <3>4. QED
      BY <3>1, <3>2, <3>3
  <2>3. {"owner", "package", "product"} \subseteq MetaKey
    BY DEF MetaKey
  <2>4. /\ DOMAIN m.meta = MetaKey
        /\ \A key \in MetaKey : m.meta[key] = FirstPresent(s, I, key)
    BY <1>7
  <2> HIDE DEF m, I
  <2>5. QED
    BY <2>2, <2>3, <2>4 DEF IsMeta
<1> HIDE DEF m, I
<1>10. EntryFields(m)
  BY <1>4, <1>5, <1>6, <1>7, <1>8, <1>9 DEF EntryFields
<1>11. IsEntry(m) /\ m.fp = fp
  BY <1>7, <1>8, <1>10, EntryIs
<1>12. QED
  BY <1>11 DEF m, I

\* The entries of a merged report: one for each fingerprint there is.
LEMMA MergedOnce ==
    ASSUME NEW s, IsList(s), IsReport(s)
    PROVE  /\ IsFiniteSet(FpsIn(s)) /\ IsFiniteSet(MergedEntries(s))
           /\ \A f \in MergedEntries(s) : IsEntry(f) /\ f.fp \in FpsIn(s)
           /\ \A f, g \in MergedEntries(s) : f.fp = g.fp => f = g
           /\ \A fp \in FpsIn(s) : \E f \in MergedEntries(s) : f.fp = fp
<1> DEFINE F(fp) == FoldedEntry(s, Sightings(s, fp))
<1>1. \A fp \in FpsIn(s) : IsEntry(F(fp)) /\ F(fp).fp = fp
  BY FoldedIsEntry
<1>2. \A f \in MergedEntries(s) : \E fp \in FpsIn(s) : f = F(fp)
  BY DEF MergedEntries
<1>3. \A fp \in FpsIn(s) : F(fp) \in MergedEntries(s)
  BY DEF MergedEntries
<1>4. IsFiniteSet(FpsIn(s))
  <2>1. IsFiniteSet(DOMAIN s)
    BY ListIs, FS_Interval
  <2>2. [i \in DOMAIN s |-> s[i].fp] \in Surjection(DOMAIN s, FpsIn(s))
    BY DEF Surjection, FpsIn
  <2>3. QED
    BY <2>1, <2>2, FS_Surjection
<1>5. IsFiniteSet(MergedEntries(s))
  <2>1. [fp \in FpsIn(s) |-> F(fp)] \in Surjection(FpsIn(s), MergedEntries(s))
    BY DEF Surjection, MergedEntries
  <2>2. QED
    BY <1>4, <2>1, FS_Surjection
<1> HIDE DEF F
<1>6. QED
  BY <1>1, <1>2, <1>3, <1>4, <1>5

\* A report that is ranked by what is known of its entries lists none before one
\* that is more actionable, and no fingerprint twice.
LEMMA RankedIsCanonical ==
    ASSUME NEW S, IsFiniteSet(S), \A f \in S : IsEntry(f),
           \A f, g \in S : f.fp = g.fp => f = g,
           NEW key, \A f \in S : /\ key[f] \in Seq(Int) /\ Len(key[f]) >= 5
                                 /\ SubSeq(key[f], 1, 4) = SubSeq(FlatKey(f), 1, 4)
                                 /\ key[f][Len(key[f])] = f.fp,
           \A f, g \in S : Len(key[f]) = Len(key[g])
    PROVE  /\ IsList(SortedBy(S, key)) /\ Len(SortedBy(S, key)) = Cardinality(S)
           /\ \A i \in DOMAIN SortedBy(S, key) : SortedBy(S, key)[i] \in S
           /\ IsReport(SortedBy(S, key))
           /\ Canonical(SortedBy(S, key))
<1> DEFINE q == SortedBy(S, key)
           n == Cardinality(S)
<1>1. \A f, g \in S : key[f] = key[g] => f = g
  OBVIOUS
<1>2. /\ n \in Nat /\ q \in [1..n -> S]
      /\ \A i, j \in 1..n : i < j => Before(key[q[i]], key[q[j]])
  BY <1>1, Sorted
<1> HIDE DEF q, n
<1>3. IsList(q) /\ Len(q) = n /\ DOMAIN q = 1..n
  BY <1>2, FunctionIsList
<1>4. \A i \in 1..n : q[i] \in S
  BY <1>2
<1>5. IsReport(q)
  BY <1>3, <1>4 DEF IsReport
<1>6. ASSUME NEW i \in 1..n, NEW j \in 1..n, i < j
      PROVE  q[i].fp # q[j].fp /\ ~MoreActionable(q[j], q[i])
  <2>1. Before(key[q[i]], key[q[j]]) /\ q[i] \in S /\ q[j] \in S
    BY <1>2, <1>4, <1>6
  <2>2. q[i].fp # q[j].fp
    <3>1. ASSUME q[i] = q[j]
          PROVE  FALSE
      BY <2>1, <3>1, BeforeNot
    <3>2. QED
      BY <2>1, <3>1
  <2>3. ~Before(SubSeq(key[q[j]], 1, 4), SubSeq(key[q[i]], 1, 4))
    <3>1. key[q[i]] \in Seq(Int) /\ key[q[j]] \in Seq(Int)
      BY <2>1
    <3>2. 4 <= Len(key[q[i]]) /\ 4 <= Len(key[q[j]])
      <4>1. Len(key[q[i]]) >= 5 /\ Len(key[q[j]]) >= 5
        BY <2>1
      <4>2. Len(key[q[i]]) \in Nat /\ Len(key[q[j]]) \in Nat
        BY <3>1
      <4>3. QED
        BY <4>1, <4>2
    <3>3. QED
      BY <2>1, <3>1, <3>2, PrefixOrder
  <2>4. /\ SubSeq(key[q[j]], 1, 4) = SubSeq(FlatKey(q[j]), 1, 4)
        /\ SubSeq(key[q[i]], 1, 4) = SubSeq(FlatKey(q[i]), 1, 4)
    BY <2>1
  <2>5. QED
    BY <2>2, <2>3, <2>4 DEF MoreActionable
<1>7. Canonical(q)
  BY <1>3, <1>6 DEF Canonical
<1>8. QED
  BY <1>3, <1>4, <1>5, <1>7 DEF q, n

\* Whatever is merged comes to a canonical report with the same fingerprints.
THEOREM CombinedIsCanonical ==
    ASSUME NEW s, IsList(s), IsReport(s)
    PROVE  /\ IsList(Combined(s)) /\ IsReport(Combined(s)) /\ Canonical(Combined(s))
           /\ FpsIn(Combined(s)) = FpsIn(s)
<1> DEFINE S == MergedEntries(s)
           key == [f \in S |-> FlatKey(f)]
<1>1. /\ IsFiniteSet(S) /\ \A f \in S : IsEntry(f) /\ f.fp \in FpsIn(s)
      /\ \A f, g \in S : f.fp = g.fp => f = g
      /\ \A fp \in FpsIn(s) : \E f \in S : f.fp = fp
  BY MergedOnce
<1>2. \A f \in S : /\ key[f] \in Seq(Int) /\ Len(key[f]) = 5
                   /\ key[f] = FlatKey(f) /\ key[f][5] = f.fp
  BY <1>1, FlatKeyIs
<1>3. Combined(s) = SortedBy(S, key)
  BY DEF Combined
<1> HIDE DEF S, key
<1>4. \A f \in S : /\ key[f] \in Seq(Int) /\ Len(key[f]) >= 5
                   /\ SubSeq(key[f], 1, 4) = SubSeq(FlatKey(f), 1, 4)
                   /\ key[f][Len(key[f])] = f.fp
  BY <1>2
<1>5. \A f, g \in S : Len(key[f]) = Len(key[g])
  BY <1>2
<1>6. /\ IsList(SortedBy(S, key)) /\ IsReport(SortedBy(S, key))
      /\ \A i \in DOMAIN SortedBy(S, key) : SortedBy(S, key)[i] \in S
      /\ Canonical(SortedBy(S, key))
  BY <1>1, <1>4, <1>5, RankedIsCanonical
<1>7. \A f \in S : \E i \in DOMAIN SortedBy(S, key) : SortedBy(S, key)[i] = f
  <2>1. /\ SortedBy(S, key) \in [1..Cardinality(S) -> S]
        /\ \A x \in S : \E m \in 1..Cardinality(S) : SortedBy(S, key)[m] = x
    <3>1. \A f, g \in S : key[f] = key[g] => f = g
      BY <1>1, <1>2
    <3>2. \A f \in S : key[f] \in Seq(Int)
      BY <1>2
    <3>3. QED
      BY <1>1, <3>1, <3>2, Sorted
  <2>2. QED
    BY <2>1
<1>8. FpsIn(Combined(s)) = FpsIn(s)
  <2>1. FpsIn(Combined(s)) \subseteq FpsIn(s)
    BY <1>1, <1>3, <1>6 DEF FpsIn
  <2>2. ASSUME NEW fp \in FpsIn(s)
        PROVE  fp \in FpsIn(Combined(s))
    <3>1. PICK f \in S : f.fp = fp
      BY <1>1
    <3>2. PICK i \in DOMAIN Combined(s) : Combined(s)[i] = f
      BY <1>3, <1>7, <3>1
    <3>3. QED
      BY <3>1, <3>2 DEF FpsIn
  <2>3. QED
    BY <2>1, <2>2
<1>9. QED
  BY <1>3, <1>6, <1>8

-----------------------------------------------------------------------------
(***************************************************************************)
(* What a merge keeps                                                       *)
(***************************************************************************)
LEMMA MaxOfValues ==
    ASSUME NEW I, I # {}, NEW v, NEW b \in Int, \A i \in I : v[i] \in Int /\ v[i] <= b
    PROVE  /\ \E i \in I : Max({v[j] : j \in I}) = v[i]
           /\ \A i \in I : v[i] <= Max({v[j] : j \in I})
<1> DEFINE V == {v[i] : i \in I}
<1>1. V \in SUBSET Int /\ V # {} /\ \A x \in V : x <= b
  OBVIOUS
<1>2. (\A i \in I : v[i] \in V) /\ \A x \in V : \E i \in I : x = v[i]
  OBVIOUS
<1>3. Max(V) \in V /\ \A y \in V : y <= Max(V)
  <2> HIDE DEF V
  <2> QED
    BY <1>1, MaxOf
<1>4. (\E i \in I : Max(V) = v[i]) /\ \A i \in I : v[i] <= Max(V)
  <2> HIDE DEF V
  <2> QED
    BY <1>2, <1>3
<1>5. QED
  BY <1>4

LEMMA FoldedKeepsTheWorst ==
    ASSUME NEW s, IsList(s), IsReport(s), NEW fp \in FpsIn(s)
    PROVE  KeepsTheWorst(s, FoldedEntry(s, Sightings(s, fp)))
<1> DEFINE I == Sightings(s, fp)
           f == FoldedEntry(s, I)
           sevs == [i \in I |-> s[i].sev]
           confs == [i \in I |-> s[i].conf]
           cvsss == [i \in I |-> s[i].cvss]
           epsss == [i \in I |-> s[i].epss]
           fixes == [i \in I |-> s[i].fix]
<1>1. I \in SUBSET (1..Len(s)) /\ I \in SUBSET Nat /\ I # {}
  BY ListIs DEF FpsIn, Sightings
<1>2. \A i \in I : /\ IsEntry(s[i]) /\ DOMAIN s[i] = EntryDomain
                   /\ s[i].sev \in 0..4 /\ s[i].conf \in -1..4
                   /\ s[i].cvss \in -1..100 /\ s[i].epss \in -1..100 /\ s[i].fix \in Nat
  BY <1>1, EntryIs, EntryNumbers DEF IsReport
<1>3. f.fp = fp
  BY FoldedIsEntry
<1>4. DOMAIN s[Min(I)] = EntryDomain
  BY <1>1, <1>2, MinOf
<1>5. PICK b \in Nat : \A i \in I : s[i].fix <= b
  <2> DEFINE v == [j \in 1..Len(s) |-> s[j].fix]
  <2>1. \A i \in 1..Len(s) : v[i] \in Nat
    BY EntryNumbers DEF IsReport
  <2>2. Len(s) \in Nat
    BY ListIs
  <2>3. \E b \in Nat : \A i \in 1..Len(s) : v[i] <= b
    <3> HIDE DEF v
    <3> QED
      BY <2>1, <2>2, Bounded
  <2>4. QED
    BY <1>1, <2>3
<1> HIDE DEF I
<1>6. /\ f.sev = Max({s[i].sev : i \in I}) /\ f.conf = Max({s[i].conf : i \in I})
      /\ f.cvss = Max({s[i].cvss : i \in I}) /\ f.epss = Max({s[i].epss : i \in I})
      /\ f.fix = Max({s[i].fix : i \in I})
      /\ f.cves = UNION {s[i].cves : i \in I} /\ f.cwes = UNION {s[i].cwes : i \in I}
  BY <1>4 DEF FoldedEntry, Folded, EntryDomain
<1>7. /\ f.sev = Max({sevs[j] : j \in I}) /\ f.conf = Max({confs[j] : j \in I})
      /\ f.cvss = Max({cvsss[j] : j \in I}) /\ f.epss = Max({epsss[j] : j \in I})
      /\ f.fix = Max({fixes[j] : j \in I})
  <2>1. /\ {sevs[j] : j \in I} = {s[i].sev : i \in I}
        /\ {confs[j] : j \in I} = {s[i].conf : i \in I}
        /\ {cvsss[j] : j \in I} = {s[i].cvss : i \in I}
        /\ {epsss[j] : j \in I} = {s[i].epss : i \in I}
        /\ {fixes[j] : j \in I} = {s[i].fix : i \in I}
    OBVIOUS
  <2> HIDE DEF sevs, confs, cvsss, epsss, fixes, f
  <2>2. QED
    BY <1>6, <2>1, Zenon
<1>8. /\ \A i \in I : sevs[i] \in Int /\ sevs[i] <= 100
      /\ \A i \in I : confs[i] \in Int /\ confs[i] <= 100
      /\ \A i \in I : cvsss[i] \in Int /\ cvsss[i] <= 100
      /\ \A i \in I : epsss[i] \in Int /\ epsss[i] <= 100
      /\ \A i \in I : fixes[i] \in Int /\ fixes[i] <= b
  BY SMTT(30), <1>2, <1>5
<1>9. \A i \in I : /\ sevs[i] = s[i].sev /\ confs[i] = s[i].conf /\ cvsss[i] = s[i].cvss
                   /\ epsss[i] = s[i].epss /\ fixes[i] = s[i].fix
  OBVIOUS
<1> HIDE DEF f, sevs, confs, cvsss, epsss, fixes
<1>10. 100 \in Int /\ b \in Int
  OBVIOUS
<1>11. /\ (\E i \in I : f.sev = sevs[i]) /\ \A i \in I : sevs[i] <= f.sev
       /\ (\E i \in I : f.conf = confs[i]) /\ \A i \in I : confs[i] <= f.conf
       /\ (\E i \in I : f.cvss = cvsss[i]) /\ \A i \in I : cvsss[i] <= f.cvss
       /\ (\E i \in I : f.epss = epsss[i]) /\ \A i \in I : epsss[i] <= f.epss
       /\ (\E i \in I : f.fix = fixes[i]) /\ \A i \in I : fixes[i] <= f.fix
  <2>1. (\E i \in I : f.sev = sevs[i]) /\ \A i \in I : sevs[i] <= f.sev
    <3>1. \A i \in I : sevs[i] \in Int /\ sevs[i] <= 100
      BY <1>8
    <3>2. /\ \E i \in I : Max({sevs[j] : j \in I}) = sevs[i]
          /\ \A i \in I : sevs[i] <= Max({sevs[j] : j \in I})
      BY <1>1, <1>10, <3>1, MaxOfValues
    <3>3. QED
      BY <1>7, <3>2, Zenon
  <2>2. (\E i \in I : f.conf = confs[i]) /\ \A i \in I : confs[i] <= f.conf
    <3>1. \A i \in I : confs[i] \in Int /\ confs[i] <= 100
      BY <1>8
    <3>2. /\ \E i \in I : Max({confs[j] : j \in I}) = confs[i]
          /\ \A i \in I : confs[i] <= Max({confs[j] : j \in I})
      BY <1>1, <1>10, <3>1, MaxOfValues
    <3>3. QED
      BY <1>7, <3>2, Zenon
  <2>3. (\E i \in I : f.cvss = cvsss[i]) /\ \A i \in I : cvsss[i] <= f.cvss
    <3>1. \A i \in I : cvsss[i] \in Int /\ cvsss[i] <= 100
      BY <1>8
    <3>2. /\ \E i \in I : Max({cvsss[j] : j \in I}) = cvsss[i]
          /\ \A i \in I : cvsss[i] <= Max({cvsss[j] : j \in I})
      BY <1>1, <1>10, <3>1, MaxOfValues
    <3>3. QED
      BY <1>7, <3>2, Zenon
  <2>4. (\E i \in I : f.epss = epsss[i]) /\ \A i \in I : epsss[i] <= f.epss
    <3>1. \A i \in I : epsss[i] \in Int /\ epsss[i] <= 100
      BY <1>8
    <3>2. /\ \E i \in I : Max({epsss[j] : j \in I}) = epsss[i]
          /\ \A i \in I : epsss[i] <= Max({epsss[j] : j \in I})
      BY <1>1, <1>10, <3>1, MaxOfValues
    <3>3. QED
      BY <1>7, <3>2, Zenon
  <2>5. (\E i \in I : f.fix = fixes[i]) /\ \A i \in I : fixes[i] <= f.fix
    <3>1. \A i \in I : fixes[i] \in Int /\ fixes[i] <= b
      BY <1>8
    <3>2. /\ \E i \in I : Max({fixes[j] : j \in I}) = fixes[i]
          /\ \A i \in I : fixes[i] <= Max({fixes[j] : j \in I})
      BY <1>1, <1>10, <3>1, MaxOfValues
    <3>3. QED
      BY <1>7, <3>2, Zenon
  <2>6. QED
    BY <2>1, <2>2, <2>3, <2>4, <2>5
<1>12. I = Sightings(s, f.fp)
  BY <1>3 DEF I
<1>13. KeepsTheWorst(s, f)
  <2>1. \A i \in I : s[i].cves \subseteq f.cves /\ s[i].cwes \subseteq f.cwes
    BY <1>6
  <2>2. /\ f.cves \subseteq UNION {s[i].cves : i \in I}
        /\ f.cwes \subseteq UNION {s[i].cwes : i \in I}
    BY <1>6
  <2>3. /\ \A i \in I : /\ s[i].sev <= f.sev /\ s[i].conf <= f.conf
                        /\ s[i].cvss <= f.cvss /\ s[i].epss <= f.epss /\ s[i].fix <= f.fix
        /\ \E i \in I : s[i].sev = f.sev
        /\ \E i \in I : s[i].conf = f.conf
        /\ \E i \in I : s[i].cvss = f.cvss
        /\ \E i \in I : s[i].epss = f.epss
        /\ \E i \in I : s[i].fix = f.fix
    BY <1>9, <1>11
  <2>4. QED
    BY <1>12, <2>1, <2>2, <2>3, Zenon DEF KeepsTheWorst
<1>14. QED
  BY <1>13 DEF f, I

\* However many reports are merged in whatever order, the entry of a finding is as
\* severe, as sure, as likely to be exploited and as well referenced as the worst of
\* its sightings, and no worse.
THEOREM CombinedKeepsTheWorst ==
    ASSUME NEW s, IsList(s), IsReport(s)
    PROVE  \A n \in DOMAIN Combined(s) : KeepsTheWorst(s, Combined(s)[n])
<1> DEFINE S == MergedEntries(s)
           key == [f \in S |-> FlatKey(f)]
<1>1. /\ IsFiniteSet(S) /\ \A f \in S : IsEntry(f)
      /\ \A f, g \in S : f.fp = g.fp => f = g
  BY MergedOnce
<1>2. \A f \in S : key[f] \in Seq(Int) /\ key[f][5] = f.fp
  BY <1>1, FlatKeyIs
<1>3. \A f \in S : KeepsTheWorst(s, f)
  <2> TAKE f \in S
  <2>1. PICK fp \in FpsIn(s) : f = FoldedEntry(s, Sightings(s, fp))
    BY DEF MergedEntries
  <2>2. QED
    BY <2>1, FoldedKeepsTheWorst, Zenon
<1>4. Combined(s) = SortedBy(S, key)
  BY DEF Combined
<1> HIDE DEF S, key
<1>5. \A f, g \in S : key[f] = key[g] => f = g
  BY <1>1, <1>2
<1>6. \A f \in S : key[f] \in Seq(Int)
  BY <1>2
<1>7. SortedBy(S, key) \in [1..Cardinality(S) -> S]
  BY <1>1, <1>5, <1>6, Sorted
<1>8. QED
  BY <1>3, <1>4, <1>7

-----------------------------------------------------------------------------
(***************************************************************************)
(* Picking and joining                                                      *)
(***************************************************************************)
\* A selection of a report is a report, and canonical if it was.
LEMMA PickedIsCanonical ==
    ASSUME NEW s, IsList(s), IsReport(s), Canonical(s), NEW I \in SUBSET DOMAIN s
    PROVE  IsList(At(s, I)) /\ IsReport(At(s, I)) /\ Canonical(At(s, I))
<1> DEFINE q == At(s, I)
           place == InOrder(I)
<1>1. /\ IsList(q)
      /\ \A n \in DOMAIN q : place[n] \in I /\ q[n] = s[place[n]]
      /\ \A m, n \in DOMAIN q : m < n => place[m] < place[n]
  BY Picked
<1> HIDE DEF q, place
<1>2. DOMAIN q = 1..Len(q) /\ DOMAIN s = 1..Len(s)
  BY <1>1, ListIs
<1>3. IsReport(q)
  BY <1>1, <1>2 DEF IsReport
<1>4. Canonical(q)
  BY <1>1 DEF Canonical
<1>5. QED
  BY <1>1, <1>3, <1>4 DEF q

\* Of two lists behind each other, the places of the second follow the first's.
LEMMA TwoJoined ==
    ASSUME NEW a, IsList(a), NEW b, IsList(b)
    PROVE  /\ IsList(a \o b) /\ Len(a \o b) = Len(a) + Len(b)
           /\ \A i \in 1..Len(a) : (a \o b)[i] = a[i]
           /\ \A i \in DOMAIN (a \o b) : i \notin 1..Len(a) =>
                 i - Len(a) \in DOMAIN b /\ (a \o b)[i] = b[i - Len(a)]
<1> DEFINE T == Elements(a) \cup Elements(b)
<1>1. a \in Seq(Elements(a)) /\ b \in Seq(Elements(b))
  BY ListIs
<1>2. a \in Seq(T) /\ b \in Seq(T)
  BY <1>1
<1> HIDE DEF T
<1>3. /\ a \o b \in Seq(T) /\ Len(a \o b) = Len(a) + Len(b)
      /\ \A i \in 1..(Len(a) + Len(b)) :
            (a \o b)[i] = IF i <= Len(a) THEN a[i] ELSE b[i - Len(a)]
  BY <1>2
<1>4. Len(a) \in Nat /\ Len(b) \in Nat /\ DOMAIN b = 1..Len(b)
  BY ListIs
<1>5. IsList(a \o b) /\ DOMAIN (a \o b) = 1..(Len(a) + Len(b))
  BY <1>3, SeqIsList, ListIs
<1>6. \A i \in 1..Len(a) : (a \o b)[i] = a[i]
  <2>1. \A i \in 1..Len(a) : i \in 1..(Len(a) + Len(b)) /\ i <= Len(a)
    BY <1>4
  <2>2. QED
    BY <1>3, <2>1
<1>7. ASSUME NEW i \in DOMAIN (a \o b), i \notin 1..Len(a)
      PROVE  i - Len(a) \in DOMAIN b /\ (a \o b)[i] = b[i - Len(a)]
  <2>1. i \in 1..(Len(a) + Len(b))
    BY <1>5, <1>7
  <2>2. ~(i <= Len(a)) /\ i - Len(a) \in 1..Len(b)
    BY <1>4, <1>7, <2>1
  <2>3. QED
    BY <1>3, <1>4, <2>1, <2>2
<1>8. QED
  BY <1>3, <1>5, <1>6, <1>7

\* FlattenSeq joins its lists one after the other.
LEMMA JoinSteps ==
    ASSUME NEW ss, Len(ss) \in Nat, Len(ss) # 0
    PROVE  \E flat : /\ FlattenSeq(ss) = flat[Len(ss)]
                     /\ \A i \in 1..Len(ss) :
                           flat[i] = IF i = 1 THEN ss[i] ELSE flat[i - 1] \o ss[i]
<1> DEFINE n == Len(ss)
           Joins(f, m) == f = [i \in 1..m |-> IF i = 1 THEN ss[i] ELSE f[i - 1] \o ss[i]]
<1> DEFINE bad == {m \in Nat : m <= n /\ ~\E f : Joins(f, m)}
<1>1. ASSUME bad # {}
      PROVE  FALSE
  <2>1. PICK m \in bad : \A k \in bad : m <= k
    <3>1. bad \in SUBSET Nat
      OBVIOUS
    <3> HIDE DEF bad
    <3>2. QED
      BY <1>1, <3>1, LeastOf
  <2>2. m \in Nat /\ m <= n /\ ~\E f : Joins(f, m)
    BY <2>1
  <2>3. m # 0
    <3>1. Joins([i \in 1..0 |-> {}], 0)
      OBVIOUS
    <3> HIDE DEF Joins
    <3>2. QED
      BY <2>2, <3>1
  <2>4. m - 1 \in Nat /\ m - 1 <= n /\ m - 1 \notin bad
    <3> HIDE DEF bad
    <3>1. QED
      BY <2>1, <2>2, <2>3
  <2>5. PICK f : Joins(f, m - 1)
    BY <2>4
  <2> DEFINE g == [i \in 1..m |-> IF i = m THEN IF m = 1 THEN ss[m] ELSE f[m - 1] \o ss[m]
                                  ELSE f[i]]
  <2>6. \A i \in 1..m : g[i] = IF i = 1 THEN ss[i] ELSE g[i - 1] \o ss[i]
    <3>1. SUFFICES ASSUME NEW i \in 1..m
                   PROVE  g[i] = IF i = 1 THEN ss[i] ELSE g[i - 1] \o ss[i]
      OBVIOUS
    <3>2. CASE i = m
      <4>1. CASE m = 1
        BY <3>2, <4>1
      <4>2. CASE m # 1
        <5>1. m - 1 \in 1..m /\ m - 1 # m
          BY <2>2, <2>3, <4>2
        <5>2. g[m - 1] = f[m - 1]
          BY <5>1
        <5>3. g[m] = f[m - 1] \o ss[m]
          BY <3>2, <4>2
        <5>4. QED
          BY <3>2, <4>2, <5>2, <5>3
      <4>3. QED
        BY <4>1, <4>2
    <3>3. CASE i # m
      <4>1. i \in 1..(m - 1) /\ g[i] = f[i]
        BY <2>2, <3>3
      <4>2. f[i] = IF i = 1 THEN ss[i] ELSE f[i - 1] \o ss[i]
        BY <2>5, <4>1
      <4>3. CASE i = 1
        BY <4>1, <4>2, <4>3
      <4>4. CASE i # 1
        <5>1. i - 1 \in 1..m /\ i - 1 # m
          BY <2>2, <4>1, <4>4
        <5>2. g[i - 1] = f[i - 1]
          BY <5>1
        <5>3. QED
          BY <4>1, <4>2, <4>4, <5>2
      <4>5. QED
        BY <4>3, <4>4
    <3>4. QED
      BY <3>2, <3>3
  <2>7. Joins(g, m)
    <3>1. g = [i \in 1..m |-> g[i]]
      OBVIOUS
    <3> HIDE DEF g
    <3>2. QED
      BY <2>6, <3>1
  <2> HIDE DEF Joins, g
  <2>8. QED
    BY <2>2, <2>7
<1>2. \E f : Joins(f, n)
  <2>1. n \notin bad
    BY <1>1
  <2>2. n \in Nat /\ n <= n
    OBVIOUS
  <2> HIDE DEF Joins, n
  <2>3. QED
    BY <2>1, <2>2
<1> DEFINE flat == CHOOSE f : Joins(f, n)
<1>3. FlattenSeq(ss) = flat[n]
  BY DEF FlattenSeq
<1>4. Joins(flat, n)
  <2> HIDE DEF Joins
  <2>1. QED
    BY <1>2
<1> HIDE DEF flat
<1>5. \A i \in 1..n : flat[i] = IF i = 1 THEN ss[i] ELSE flat[i - 1] \o ss[i]
  BY <1>4
<1>6. QED
  BY <1>3, <1>5

\* Lists are joined to a list of their elements.
LEMMA JoinedIs ==
    ASSUME NEW T, NEW ss \in Seq(Seq(T))
    PROVE  FlattenSeq(ss) \in Seq(T)
<1> DEFINE n == Len(ss)
<1>1. n \in Nat /\ \A i \in 1..n : ss[i] \in Seq(T)
  OBVIOUS
<1>2. CASE n = 0
  <2>1. FlattenSeq(ss) = ss /\ ss = <<>>
    BY <1>2 DEF FlattenSeq
  <2>2. QED
    BY <2>1
<1>3. CASE n # 0
  <2>1. PICK flat : /\ FlattenSeq(ss) = flat[n]
                    /\ \A i \in 1..n : flat[i] = IF i = 1 THEN ss[i] ELSE flat[i - 1] \o ss[i]
    BY <1>1, <1>3, JoinSteps
  <2> DEFINE worse == {m \in Nat : m \in 1..n /\ flat[m] \notin Seq(T)}
  <2>2. ASSUME worse # {}
        PROVE  FALSE
    <3>1. PICK m \in worse : \A k \in worse : m <= k
      <4>1. worse \in SUBSET Nat
        OBVIOUS
      <4> HIDE DEF worse
      <4>2. QED
        BY <2>2, <4>1, LeastOf
    <3>2. m \in 1..n /\ flat[m] \notin Seq(T)
      BY <3>1
    <3>3. m # 1
      BY <1>1, <2>1, <3>2
    <3>4. flat[m - 1] \in Seq(T)
      <4>1. m - 1 \in Nat /\ m - 1 \in 1..n /\ m - 1 < m
        BY <1>1, <3>2, <3>3
      <4>2. m - 1 \notin worse
        <5> HIDE DEF worse
        <5>1. m \in Nat
          BY <1>1, <3>2
        <5>2. QED
          BY <3>1, <4>1, <5>1
      <4>3. QED
        BY <4>1, <4>2
    <3>5. flat[m] = flat[m - 1] \o ss[m]
      BY <2>1, <3>2, <3>3
    <3>6. ss[m] \in Seq(T)
      BY <1>1, <3>2
    <3>7. flat[m - 1] \o ss[m] \in Seq(T)
      BY <3>4, <3>6
    <3>8. QED
      BY <3>2, <3>5, <3>7
  <2>3. n \in Nat /\ n \in 1..n /\ n \notin worse
    <3>1. n \in Nat /\ n \in 1..n
      BY <1>1, <1>3
    <3>2. QED
      BY <2>2, <3>1
  <2>4. QED
    BY <2>1, <2>3
<1>4. QED
  BY <1>2, <1>3

\* A list of lists is a sequence of sequences of what is in them.
LEMMA ListsAre ==
    ASSUME NEW ss, IsList(ss), \A i \in DOMAIN ss : IsList(ss[i])
    PROVE  ss \in Seq(Seq(UNION {Elements(ss[i]) : i \in DOMAIN ss}))
<1> DEFINE T == UNION {Elements(ss[i]) : i \in DOMAIN ss}
<1>1. \A i \in DOMAIN ss : ss[i] \in Seq(T)
  <2>1. ASSUME NEW i \in DOMAIN ss
        PROVE  ss[i] \in Seq(T)
    <3>1. ss[i] \in Seq(Elements(ss[i]))
      BY ListIs
    <3>2. Elements(ss[i]) \subseteq T
      OBVIOUS
    <3> HIDE DEF T
    <3>3. QED
      BY <3>1, <3>2
  <2>2. QED
    BY <2>1
<1> HIDE DEF T
<1>2. Len(ss) \in Nat /\ ss = [i \in 1..Len(ss) |-> ss[i]] /\ DOMAIN ss = 1..Len(ss)
  BY DEF IsList
<1>3. ss \in [1..Len(ss) -> Seq(T)]
  BY <1>1, <1>2
<1>4. ss \in Seq(Seq(T))
  BY <1>2, <1>3
<1>5. QED
  BY <1>4 DEF T

\* So reports are joined to a report.
LEMMA JoinedIsReport ==
    ASSUME NEW ss, IsList(ss), \A i \in DOMAIN ss : IsList(ss[i]) /\ IsReport(ss[i])
    PROVE  IsList(FlattenSeq(ss)) /\ IsReport(FlattenSeq(ss))
<1> DEFINE T == UNION {Elements(ss[i]) : i \in DOMAIN ss}
<1>1. \A x \in T : IsEntry(x)
  <2>1. ASSUME NEW i \in DOMAIN ss, NEW x \in Elements(ss[i])
        PROVE  IsEntry(x)
    <3>1. DOMAIN ss[i] = 1..Len(ss[i])
      BY ListIs
    <3>2. QED
      BY <3>1 DEF Elements, IsReport
  <2>2. QED
    BY <2>1
<1>2. ss \in Seq(Seq(T))
  BY ListsAre
<1> HIDE DEF T
<1>3. FlattenSeq(ss) \in Seq(T)
  BY <1>2, JoinedIs
<1>4. IsList(FlattenSeq(ss))
  BY <1>3, SeqIsList
<1>5. IsReport(FlattenSeq(ss))
  BY <1>1, <1>3 DEF IsReport
<1>6. QED
  BY <1>4, <1>5

\* What is in one of the lists is in the join.
LEMMA JoinedHas ==
    ASSUME NEW T, NEW ss \in Seq(Seq(T)), NEW a \in DOMAIN ss, NEW k \in DOMAIN ss[a]
    PROVE  \E j \in DOMAIN FlattenSeq(ss) : FlattenSeq(ss)[j] = ss[a][k]
<1> DEFINE n == Len(ss)
           x == ss[a][k]
<1>1. n \in Nat /\ n # 0 /\ a \in 1..n /\ \A i \in 1..n : ss[i] \in Seq(T)
  OBVIOUS
<1>2. PICK flat : /\ FlattenSeq(ss) = flat[n]
                  /\ \A i \in 1..n : flat[i] = IF i = 1 THEN ss[i] ELSE flat[i - 1] \o ss[i]
  BY <1>1, JoinSteps
<1> DEFINE Fine(m) == flat[m] \in Seq(T) /\ (m >= a => \E j \in DOMAIN flat[m] : flat[m][j] = x)
           worse == {m \in Nat : m \in 1..n /\ ~Fine(m)}
<1>3. ASSUME NEW m \in 1..n, m # 1 => Fine(m - 1)
      PROVE  Fine(m)
  <2>1. ss[m] \in Seq(T) /\ m \in Nat /\ a \in Nat
    BY <1>1
  <2>2. CASE m = 1
    <3>1. flat[m] = ss[m]
      BY <1>2, <2>2
    <3>2. m >= a => m = a
      BY <1>1, <2>1, <2>2
    <3>3. QED
      BY <2>1, <3>1, <3>2
  <2>3. CASE m # 1
    <3> DEFINE p == flat[m - 1]
               q == ss[m]
    <3>1. flat[m] = p \o q /\ p \in Seq(T) /\ q \in Seq(T)
      BY <1>2, <1>3, <2>1, <2>3
    <3>2. /\ p \o q \in Seq(T) /\ DOMAIN (p \o q) = 1..(Len(p) + Len(q))
          /\ DOMAIN p = 1..Len(p) /\ DOMAIN q = 1..Len(q) /\ Len(p) \in Nat /\ Len(q) \in Nat
          /\ \A i \in 1..Len(p) : (p \o q)[i] = p[i]
          /\ \A i \in 1..Len(q) : (p \o q)[Len(p) + i] = q[i]
      <4> HIDE DEF p, q
      <4>1. QED
        BY <3>1
    <3>3. ASSUME m >= a
          PROVE  \E j \in DOMAIN (p \o q) : (p \o q)[j] = x
      <4>1. CASE m = a
        <5>1. k \in 1..Len(q) /\ q[k] = x
          BY <3>2, <4>1
        <5> HIDE DEF p, q, x
        <5>2. Len(p) + k \in DOMAIN (p \o q) /\ (p \o q)[Len(p) + k] = x
          BY <3>2, <5>1
        <5>3. QED
          BY <5>2
      <4>2. CASE m # a
        <5>1. m - 1 >= a
          BY <1>1, <2>1, <3>3, <4>2
        <5>2. PICK j \in DOMAIN p : p[j] = x
          BY <1>3, <2>3, <5>1
        <5> HIDE DEF p, q, x
        <5>3. j \in DOMAIN (p \o q) /\ (p \o q)[j] = x
          BY <3>2, <5>2
        <5>4. QED
          BY <5>3
      <4>3. QED
        BY <4>1, <4>2
    <3> HIDE DEF p, q, x
    <3>4. QED
      BY <3>1, <3>2, <3>3
  <2>4. QED
    BY <2>2, <2>3
<1> HIDE DEF Fine
<1>4. ASSUME worse # {}
      PROVE  FALSE
  <2>1. PICK m \in worse : \A i \in worse : m <= i
    <3>1. worse \in SUBSET Nat
      OBVIOUS
    <3> HIDE DEF worse
    <3>2. QED
      BY <1>4, <3>1, LeastOf
  <2>2. m \in 1..n /\ ~Fine(m) /\ m \in Nat
    BY <2>1
  <2>3. m # 1 => m - 1 \in Nat /\ m - 1 \in 1..n /\ ~(m <= m - 1)
    BY <1>1, <2>2
  <2>4. m # 1 => Fine(m - 1)
    BY <2>1, <2>3
  <2>5. QED
    BY <1>3, <2>2, <2>4
<1>5. Fine(n)
  <2>1. n \in 1..n /\ n \in Nat
    BY <1>1
  <2> HIDE DEF n
  <2>2. QED
    BY <1>4, <2>1
<1>6. \E j \in DOMAIN flat[n] : flat[n][j] = x
  <2>1. n >= a
    BY <1>1
  <2> HIDE DEF n, x
  <2>2. QED
    BY <1>5, <2>1 DEF Fine
<1>7. QED
  BY <1>2, <1>6, Zenon

-----------------------------------------------------------------------------
(***************************************************************************)
(* A merge that is run again                                                *)
(***************************************************************************)
\* A greatest member is the maximum, whatever else there is.
LEMMA MaxIs ==
    ASSUME NEW I, NEW v, NEW m \in I, v[m] \in Int, \A i \in I : v[i] \in Int /\ v[i] <= v[m]
    PROVE  Max({v[i] : i \in I}) = v[m]
<1> DEFINE V == {v[i] : i \in I}
           x == v[m]
<1>1. V \in SUBSET Int /\ x \in V /\ x \in Int /\ \A y \in V : y <= x
  OBVIOUS
<1>2. V # {}
  BY <1>1
<1> HIDE DEF V, x
<1>3. Max(V) \in V /\ \A y \in V : y <= Max(V)
  BY <1>1, <1>2, MaxOf
<1>4. Max(V) = x
  <2> DEFINE z == Max(V)
  <2>1. z \in Int /\ x <= z /\ z <= x
    BY <1>1, <1>3
  <2> HIDE DEF z
  <2>2. z = x
    BY <1>1, <2>1
  <2>3. QED
    BY <2>2 DEF z
<1>5. QED
  BY <1>4 DEF V, x

\* An entry that is first, and weighs what all the others do at least, is what the
\* others are folded into.
LEMMA FoldedAgain ==
    ASSUME NEW s, IsList(s), IsReport(s), NEW fp \in FpsIn(s),
           NEW t, IsList(t), IsReport(t), NEW m \in DOMAIN t,
           t[m] = FoldedEntry(s, Sightings(s, fp)),
           \A i \in Sightings(t, fp) : m <= i,
           \A i \in Sightings(t, fp) : i # m => \E j \in DOMAIN s : t[i] = s[j]
    PROVE  FoldedEntry(t, Sightings(t, fp)) = FoldedEntry(s, Sightings(s, fp))
<1> DEFINE I == Sightings(s, fp)
           J == Sightings(t, fp)
           f == FoldedEntry(s, I)
           g == FoldedEntry(t, J)
<1>1. IsEntry(f) /\ f.fp = fp /\ KeepsTheWorst(s, f)
  BY FoldedIsEntry, FoldedKeepsTheWorst
<1>2. /\ I \in SUBSET DOMAIN s /\ I \in SUBSET Nat /\ I # {}
      /\ \A i \in I : s[i].fp = fp /\ DOMAIN s[i] = EntryDomain
  <2>1. I \in SUBSET DOMAIN s /\ I \in SUBSET Nat /\ I # {} /\ \A i \in I : s[i].fp = fp
    BY ListIs DEF FpsIn, Sightings
  <2>2. \A i \in DOMAIN s : IsEntry(s[i])
    BY ListIs DEF IsReport
  <2>3. \A i \in DOMAIN s : DOMAIN s[i] = EntryDomain
    BY <2>2, EntryIs
  <2>4. QED
    BY <2>1, <2>3
<1>3. J \in SUBSET DOMAIN t /\ J \in SUBSET Nat /\ m \in J
      /\ \A i \in J : t[i].fp = fp /\ IsEntry(t[i])
  BY <1>1, ListIs DEF Sightings, IsReport
<1>4. Min(J) = m
  <2>1. J # {}
    BY <1>3
  <2> HIDE DEF J
  <2>2. Min(J) \in J /\ \A i \in J : Min(J) <= i
    BY <1>3, <2>1, MinOf
  <2>3. \A i \in J : m <= i
    BY DEF J
  <2>4. QED
    BY <1>3, <2>2, <2>3
<1>5. Min(I) \in I
  BY <1>2, MinOf
<1>6. t[m] = f
  OBVIOUS
<1>7. /\ f = [k \in EntryDomain |-> f[k]]
      /\ f.meta = [key \in MetaKey |-> FirstPresent(s, I, key)]
  <2>1. DOMAIN s[Min(I)] = EntryDomain
    BY <1>2, <1>5
  <2> HIDE DEF I
  <2>2. QED
    BY <2>1 DEF FoldedEntry, Folded, EntryDomain
<1>8. DOMAIN t[Min(J)] = EntryDomain
  BY <1>1, <1>4, <1>6, EntryIs
<1>9. /\ g = [k \in EntryDomain |-> g[k]]
      /\ g.fp = f.fp /\ g.at = f.at /\ g.kev = f.kev
      /\ g.sev = Max({t[i].sev : i \in J}) /\ g.conf = Max({t[i].conf : i \in J})
      /\ g.cvss = Max({t[i].cvss : i \in J}) /\ g.epss = Max({t[i].epss : i \in J})
      /\ g.fix = Max({t[i].fix : i \in J})
      /\ g.cves = UNION {t[i].cves : i \in J} /\ g.cwes = UNION {t[i].cwes : i \in J}
      /\ g.meta = [key \in MetaKey |-> FirstPresent(t, J, key)]
  <2> HIDE DEF f, J
  <2>1. g.fp = t[Min(J)].fp /\ g.at = t[Min(J)].at /\ g.kev = t[Min(J)].kev
    BY <1>8 DEF FoldedEntry, Folded, EntryDomain
  <2>2. t[Min(J)] = f
    BY <1>4, <1>6
  <2>3. g.fp = f.fp /\ g.at = f.at /\ g.kev = f.kev
    BY <2>1, <2>2, Zenon
  <2>4. QED
    BY <1>8, <2>3 DEF FoldedEntry, Folded, EntryDomain
<1>10. \A i \in J : i = m \/ \E j \in I : t[i] = s[j]
  <2> SUFFICES ASSUME NEW i \in J, i # m
               PROVE  \E j \in I : t[i] = s[j]
    OBVIOUS
  <2>1. PICK j \in DOMAIN s : t[i] = s[j]
    OBVIOUS
  <2>2. j \in I
    BY <1>3, <2>1 DEF Sightings
  <2>3. QED
    BY <2>1, <2>2
<1>11. Sightings(s, f.fp) = I
  BY <1>1
<1> HIDE DEF f, g, I, J
<1>12. \A j \in I : /\ s[j].sev <= f.sev /\ s[j].conf <= f.conf /\ s[j].cvss <= f.cvss
                    /\ s[j].epss <= f.epss /\ s[j].fix <= f.fix
                    /\ s[j].cves \subseteq f.cves /\ s[j].cwes \subseteq f.cwes
  BY <1>1, <1>11 DEF KeepsTheWorst
<1>13. /\ f.sev \in Int /\ f.conf \in Int /\ f.cvss \in Int /\ f.epss \in Int /\ f.fix \in Int
       /\ \A i \in J : /\ t[i].sev \in Int /\ t[i].conf \in Int /\ t[i].cvss \in Int
                       /\ t[i].epss \in Int /\ t[i].fix \in Int
  <2>1. ASSUME NEW h, IsEntry(h)
        PROVE  h.sev \in Int /\ h.conf \in Int /\ h.cvss \in Int /\ h.epss \in Int /\ h.fix \in Int
    BY <2>1, EntryNumbers
  <2>2. QED
    BY <1>1, <1>3, <2>1
<1>14. \A i \in J : /\ t[i].sev <= f.sev /\ t[i].conf <= f.conf /\ t[i].cvss <= f.cvss
                    /\ t[i].epss <= f.epss /\ t[i].fix <= f.fix
                    /\ t[i].cves \subseteq f.cves /\ t[i].cwes \subseteq f.cwes
  <2> TAKE i \in J
  <2>1. CASE i = m
    BY <1>6, <1>13, <2>1
  <2>2. CASE i # m
    <3>1. PICK j \in I : t[i] = s[j]
      BY <1>10, <2>2
    <3>2. QED
      BY <1>12, <3>1, Zenon
  <2>3. QED
    BY <2>1, <2>2
<1>15. /\ g.sev = f.sev /\ g.conf = f.conf /\ g.cvss = f.cvss /\ g.epss = f.epss
       /\ g.fix = f.fix
  <2>1. ASSUME NEW name \in {"sev", "conf", "cvss", "epss", "fix"}
        PROVE  Max({t[i][name] : i \in J}) = f[name]
    <3> DEFINE v == [i \in J |-> t[i][name]]
    <3>1. /\ \A i \in J : t[i][name] \in Int /\ t[i][name] <= f[name]
          /\ t[m][name] = f[name] /\ f[name] \in Int
      BY <1>6, <1>13, <1>14
    <3>2. /\ \A i \in J : v[i] = t[i][name]
          /\ {t[i][name] : i \in J} = {v[i] : i \in J}
      OBVIOUS
    <3> HIDE DEF v
    <3>3. /\ v[m] \in Int /\ v[m] = f[name]
          /\ \A i \in J : v[i] \in Int /\ v[i] <= v[m]
      BY <1>3, <3>1, <3>2
    <3>4. Max({v[i] : i \in J}) = v[m]
      <4>1. m \in J /\ v[m] \in Int
        BY <1>3, <3>3
      <4>2. \A i \in J : v[i] \in Int /\ v[i] <= v[m]
        BY <3>3
      <4>3. QED
        BY <4>1, <4>2, MaxIs
    <3>5. QED
      BY <3>2, <3>3, <3>4, Zenon
  <2>2. /\ Max({t[i].sev : i \in J}) = f.sev /\ Max({t[i].conf : i \in J}) = f.conf
        /\ Max({t[i].cvss : i \in J}) = f.cvss /\ Max({t[i].epss : i \in J}) = f.epss
        /\ Max({t[i].fix : i \in J}) = f.fix
    BY <2>1
  <2>3. QED
    BY <1>9, <2>2, Zenon
<1>16. g.cves = f.cves /\ g.cwes = f.cwes
  <2>1. UNION {t[i].cves : i \in J} = f.cves /\ UNION {t[i].cwes : i \in J} = f.cwes
    BY <1>3, <1>6, <1>14
  <2>2. QED
    BY <1>9, <2>1, Zenon
<1>17. \A key \in MetaKey : FirstPresent(t, J, key) = FirstPresent(s, I, key)
  <2> SUFFICES ASSUME NEW key \in MetaKey
               PROVE  FirstPresent(t, J, key) = FirstPresent(s, I, key)
    OBVIOUS
  <2> DEFINE hadS == {i \in I : s[i].meta[key] # Absent}
             hadT == {i \in J : t[i].meta[key] # Absent}
             first == FirstPresent(s, I, key)
  <2>1. /\ first = (IF hadS = {} THEN Absent ELSE s[Min(hadS)].meta[key])
        /\ FirstPresent(t, J, key) = (IF hadT = {} THEN Absent ELSE t[Min(hadT)].meta[key])
    BY DEF FirstPresent
  <2>2. t[m].meta[key] = first
    BY <1>6, <1>7
  <2>3. hadS \in SUBSET Nat /\ hadT \in SUBSET Nat
    BY <1>2, <1>3
  <2>4. CASE first = Absent
    <3>1. hadS = {}
      <4>1. ASSUME hadS # {}
            PROVE  FALSE
        <5>1. Min(hadS) \in hadS
          <6> HIDE DEF hadS
          <6>1. QED
            BY <2>3, <4>1, MinOf
        <5>2. s[Min(hadS)].meta[key] # Absent
          BY <5>1
        <5>3. QED
          BY <2>1, <2>4, <4>1, <5>2
      <4>2. QED
        BY <4>1
    <3>2. \A j \in I : s[j].meta[key] = Absent
      BY <3>1
    <3>3. \A i \in J : t[i].meta[key] = Absent
      BY <1>10, <2>2, <2>4, <3>2
    <3>4. hadT = {}
      BY <3>3
    <3> HIDE DEF hadS, hadT, first
    <3>5. FirstPresent(t, J, key) = first
      BY <2>1, <2>4, <3>4
    <3>6. QED
      BY <3>5 DEF first
  <2>5. CASE first # Absent
    <3>1. m \in hadT
      BY <1>3, <2>2, <2>5
    <3>2. \A i \in hadT : m <= i
      BY DEF J
    <3> HIDE DEF hadT, hadS, first
    <3>3. Min(hadT) \in hadT /\ \A i \in hadT : Min(hadT) <= i
      BY <2>3, <3>1, MinOf
    <3>4. Min(hadT) = m
      <4> DEFINE z == Min(hadT)
      <4>1. z \in Nat /\ m \in Nat /\ z <= m /\ m <= z
        BY <2>3, <3>1, <3>2, <3>3
      <4> HIDE DEF z
      <4>2. z = m
        BY <4>1
      <4>3. QED
        BY <4>2 DEF z
    <3>5. FirstPresent(t, J, key) = t[m].meta[key]
      BY <2>1, <3>1, <3>4
    <3>6. QED
      BY <2>2, <3>5 DEF first
  <2>6. QED
    BY <2>4, <2>5
<1>18. g.meta = f.meta
  BY <1>7, <1>9, <1>17
<1>19. \A k \in EntryDomain : g[k] = f[k]
  BY <1>9, <1>15, <1>16, <1>18 DEF EntryDomain
<1>20. g = f
  BY <1>7, <1>9, <1>19
<1>21. QED
  BY <1>20 DEF f, g, I, J

\* What is merged is somewhere in the merge.
LEMMA CombinedHas ==
    ASSUME NEW s, IsList(s), IsReport(s), NEW f \in MergedEntries(s)
    PROVE  \E m \in DOMAIN Combined(s) : Combined(s)[m] = f
<1> DEFINE S == MergedEntries(s)
           key == [x \in S |-> FlatKey(x)]
<1>1. /\ IsFiniteSet(S) /\ \A x \in S : IsEntry(x)
      /\ \A x, y \in S : x.fp = y.fp => x = y
  BY MergedOnce
<1>2. \A x \in S : key[x] \in Seq(Int) /\ key[x][5] = x.fp
  BY <1>1, FlatKeyIs
<1>3. Combined(s) = SortedBy(S, key)
  BY DEF Combined
<1>4. f \in S
  OBVIOUS
<1> HIDE DEF S, key
<1>5. \A x, y \in S : key[x] = key[y] => x = y
  BY <1>1, <1>2
<1>6. \A x \in S : key[x] \in Seq(Int)
  BY <1>2
<1>7. /\ SortedBy(S, key) \in [1..Cardinality(S) -> S]
      /\ \A x \in S : \E n \in 1..Cardinality(S) : SortedBy(S, key)[n] = x
  BY <1>1, <1>5, <1>6, Sorted
<1>8. QED
  BY <1>3, <1>4, <1>7

\* A merge of a merge with what was merged into it is the merge.
THEOREM MergedAgain ==
    ASSUME NEW s, IsList(s), IsReport(s), NEW l, IsList(l), IsReport(l),
           \A i \in DOMAIN l : \E j \in DOMAIN s : l[i] = s[j]
    PROVE  Combined(Combined(s) \o l) = Combined(s)
<1> DEFINE c == Combined(s)
           t == c \o l
           F(fp) == FoldedEntry(s, Sightings(s, fp))
           G(fp) == FoldedEntry(t, Sightings(t, fp))
<1>1. IsList(c) /\ IsReport(c) /\ Canonical(c) /\ FpsIn(c) = FpsIn(s)
  BY CombinedIsCanonical
<1>2. \A fp \in FpsIn(s) : F(fp) \in MergedEntries(s) /\ F(fp).fp = fp
  BY FoldedIsEntry DEF MergedEntries
<1>3. ASSUME NEW fp \in FpsIn(s)
      PROVE  \E n \in DOMAIN c : c[n] = F(fp)
  BY <1>2, CombinedHas
<1> HIDE DEF c
<1>4. /\ DOMAIN c = 1..Len(c) /\ Len(c) \in Nat /\ c \in Seq(Elements(c))
      /\ DOMAIN l = 1..Len(l) /\ Len(l) \in Nat /\ l \in Seq(Elements(l))
  BY <1>1, ListIs
<1>5. /\ IsList(t) /\ DOMAIN t = 1..(Len(c) + Len(l)) /\ Len(t) = Len(c) + Len(l)
      /\ \A i \in 1..Len(c) : t[i] = c[i]
      /\ \A i \in 1..Len(l) : t[Len(c) + i] = l[i]
  <2> DEFINE T == Elements(c) \cup Elements(l)
  <2>1. c \in Seq(T) /\ l \in Seq(T)
    BY <1>4
  <2> HIDE DEF T
  <2>2. /\ t \in Seq(T) /\ Len(t) = Len(c) + Len(l)
        /\ \A i \in 1..Len(c) : t[i] = c[i]
        /\ \A i \in 1..Len(l) : t[Len(c) + i] = l[i]
    BY <2>1
  <2> HIDE DEF t
  <2>3. IsList(t)
    BY <2>2, SeqIsList
  <2>4. QED
    BY <2>2, <2>3, ListIs
<1> HIDE DEF t
<1>6. \A i \in DOMAIN t : i \in 1..Len(c) \/ \E k \in 1..Len(l) : i = Len(c) + k
  <2> TAKE i \in DOMAIN t
  <2>1. i \in 1..Len(c) \/ (i - Len(c) \in 1..Len(l) /\ i = Len(c) + (i - Len(c)))
    BY <1>4, <1>5
  <2>2. QED
    BY <2>1
<1>7. \A i \in DOMAIN t : i \in 1..Len(c) \/ (i > Len(c) /\ \E j \in DOMAIN s : t[i] = s[j])
  <2> TAKE i \in DOMAIN t
  <2>1. CASE i \in 1..Len(c)
    BY <2>1
  <2>2. CASE \E k \in 1..Len(l) : i = Len(c) + k
    <3>1. PICK k \in 1..Len(l) : i = Len(c) + k
      BY <2>2
    <3>2. t[i] = l[k] /\ i > Len(c) /\ k \in DOMAIN l
      BY <1>4, <1>5, <3>1
    <3>3. QED
      BY <3>2
  <2>3. QED
    BY <1>6, <2>1, <2>2
<1>8. IsReport(t)
  <2>1. \A i \in DOMAIN c : IsEntry(c[i])
    BY <1>1, <1>4 DEF IsReport
  <2>2. \A j \in DOMAIN s : IsEntry(s[j])
    BY ListIs DEF IsReport
  <2>3. \A i \in DOMAIN t : IsEntry(t[i])
    BY <1>4, <1>5, <1>7, <2>1, <2>2
  <2>4. QED
    BY <1>5, <2>3 DEF IsReport
<1>9. FpsIn(t) = FpsIn(s)
  <2>1. ASSUME NEW i \in DOMAIN t
        PROVE  t[i].fp \in FpsIn(s)
    <3>1. CASE i \in 1..Len(c)
      <4>1. c[i].fp \in FpsIn(c)
        BY <1>4, <3>1 DEF FpsIn
      <4>2. QED
        BY <1>1, <1>5, <3>1, <4>1
    <3>2. CASE \E j \in DOMAIN s : t[i] = s[j]
      BY <3>2 DEF FpsIn
    <3>3. QED
      BY <1>7, <3>1, <3>2
  <2>2. ASSUME NEW fp \in FpsIn(c)
        PROVE  fp \in FpsIn(t)
    <3>1. PICK i \in DOMAIN c : c[i].fp = fp
      BY DEF FpsIn
    <3>2. i \in DOMAIN t /\ t[i] = c[i]
      BY <1>4, <1>5
    <3>3. QED
      BY <3>1, <3>2 DEF FpsIn
  <2>3. FpsIn(t) \subseteq FpsIn(s)
    BY <2>1 DEF FpsIn
  <2>4. QED
    BY <1>1, <2>2, <2>3
<1>10. ASSUME NEW fp \in FpsIn(s)
       PROVE  G(fp) = F(fp)
  <2>1. PICK n \in DOMAIN c : c[n] = F(fp)
    BY <1>3
  <2>2. n \in DOMAIN t /\ t[n] = F(fp) /\ n \in 1..Len(c) /\ c[n].fp = fp
    BY <1>2, <1>4, <1>5, <2>1
  <2>3. ASSUME NEW i \in Sightings(t, fp)
        PROVE  n <= i /\ (i # n => \E j \in DOMAIN s : t[i] = s[j])
    <3>1. i \in DOMAIN t /\ t[i].fp = fp
      BY DEF Sightings
    <3>2. CASE i \in 1..Len(c)
      <4>1. c[i].fp = c[n].fp /\ i \in DOMAIN c
        BY <1>4, <1>5, <2>2, <3>1, <3>2
      <4>2. ~(i < n) /\ ~(n < i)
        BY <1>1, <4>1 DEF Canonical
      <4>3. i = n
        BY <1>4, <2>2, <3>2, <4>2
      <4>4. QED
        BY <1>4, <2>2, <4>3
    <3>3. CASE i > Len(c) /\ \E j \in DOMAIN s : t[i] = s[j]
      <4>1. n <= i
        BY <1>4, <1>5, <2>2, <3>1, <3>3
      <4>2. QED
        BY <3>3, <4>1
    <3>4. QED
      BY <1>7, <3>1, <3>2, <3>3
  <2>4. /\ \A i \in Sightings(t, fp) : n <= i
        /\ \A i \in Sightings(t, fp) : i # n => \E j \in DOMAIN s : t[i] = s[j]
    BY <2>3
  <2>5. QED
    BY <1>5, <1>8, <2>2, <2>4, FoldedAgain
<1>11. MergedEntries(t) = MergedEntries(s)
  <2>1. MergedEntries(s) = {F(fp) : fp \in FpsIn(s)}
    BY DEF MergedEntries
  <2>2. MergedEntries(t) = {G(fp) : fp \in FpsIn(s)}
    BY <1>9, Zenon DEF MergedEntries
  <2> HIDE DEF F, G
  <2>3. {G(fp) : fp \in FpsIn(s)} = {F(fp) : fp \in FpsIn(s)}
    BY <1>10
  <2>4. QED
    BY <2>1, <2>2, <2>3, Zenon
<1>12. Combined(t) = Combined(s)
  BY <1>11, Zenon DEF Combined
<1>13. QED
  BY <1>12 DEF t, c

-----------------------------------------------------------------------------
(***************************************************************************)
(* Sums and counts                                                          *)
(***************************************************************************)
\* A sum over a finite set is what adds up element by element.
LEMMA SumIs ==
    ASSUME NEW D, IsFiniteSet(D), NEW fun, NEW val, val[{}] = 0,
           \A t \in SUBSET D : \A x \in t : val[t] = fun[x] + val[t \ {x}]
    PROVE  SumFunctionOnSet(fun, D) = val[D]
<1> DEFINE pick(t) == CHOOSE x \in t : TRUE
           Iterates(g) == g = [t \in SUBSET D |->
                                  IF t = {} THEN 0 ELSE fun[pick(t)] + g[t \ {pick(t)}]]
           h == CHOOSE g : Iterates(g)
<1>1. \A t \in SUBSET D : t # {} => pick(t) \in t /\ t \ {pick(t)} \in SUBSET D
  OBVIOUS
<1>2. SumFunctionOnSet(fun, D) = h[D]
  BY DEF SumFunctionOnSet, FoldFunctionOnSet, MapThenFoldSet
<1> HIDE DEF pick
<1>3. Iterates([t \in SUBSET D |-> val[t]])
  <2> DEFINE g == [t \in SUBSET D |-> val[t]]
  <2>1. \A t \in SUBSET D : val[t] = IF t = {} THEN 0 ELSE fun[pick(t)] + g[t \ {pick(t)}]
    BY <1>1
  <2>2. QED
    BY <2>1
<1>4. Iterates(h)
  <2> HIDE DEF Iterates
  <2>1. QED
    BY <1>3
<1>5. \A t \in SUBSET D : h[t] = IF t = {} THEN 0 ELSE fun[pick(t)] + h[t \ {pick(t)}]
  <2> HIDE DEF h
  <2>1. QED
    BY <1>4
<1> HIDE DEF h, Iterates
<1> DEFINE bad == {n \in Nat : \E t \in SUBSET D : Cardinality(t) = n /\ h[t] # val[t]}
<1>6. ASSUME bad # {}
      PROVE  FALSE
  <2>1. PICK n \in bad : \A m \in bad : n <= m
    <3>1. bad \in SUBSET Nat
      OBVIOUS
    <3> HIDE DEF bad
    <3>2. QED
      BY <1>6, <3>1, LeastOf
  <2>2. PICK t \in SUBSET D : Cardinality(t) = n /\ h[t] # val[t]
    BY <2>1
  <2>3. t # {}
    BY <1>5, <2>2
  <2> DEFINE u == t \ {pick(t)}
  <2>4. pick(t) \in t /\ u \in SUBSET D
    BY <1>1, <2>3
  <2>5. Cardinality(u) = n - 1 /\ Cardinality(u) \in Nat
    <3>1. IsFiniteSet(t)
      BY FS_Subset
    <3>2. IsFiniteSet(u) /\ Cardinality(u) = Cardinality(t) - 1
      BY <2>4, <3>1, FS_RemoveElement
    <3>3. QED
      BY <2>2, <3>2, FS_CardinalityType
  <2>6. h[u] = val[u]
    <3>1. ASSUME h[u] # val[u]
          PROVE  FALSE
      <4>1. Cardinality(u) \in bad
        BY <2>4, <2>5, <3>1
      <4>2. n \in Nat
        BY <2>1
      <4> HIDE DEF bad, u
      <4>3. QED
        BY <2>1, <2>5, <4>1, <4>2
    <3>2. QED
      BY <3>1
  <2>7. h[t] = fun[pick(t)] + h[u] /\ val[t] = fun[pick(t)] + val[u]
    <3>1. h[t] = fun[pick(t)] + h[u]
      BY <1>5, <2>3
    <3>2. val[t] = fun[pick(t)] + val[u]
      BY <2>4
    <3>3. QED
      BY <3>1, <3>2
  <2>8. QED
    BY <2>2, <2>6, <2>7
<1>7. h[D] = val[D]
  <2>1. Cardinality(D) \in Nat /\ D \in SUBSET D /\ Cardinality(D) \notin bad
    BY <1>6, FS_CardinalityType
  <2>2. QED
    BY <2>1
<1>8. QED
  BY <1>2, <1>7

LEMMA CountTo ==
    ASSUME NEW n \in Nat
    PROVE  IsFiniteSet(1..n) /\ Cardinality(1..n) = n
<1>1. 1 \in Int /\ n \in Int
  OBVIOUS
<1>2. IsFiniteSet(1..n) /\ Cardinality(1..n) = IF 1 > n THEN 0 ELSE n - 1 + 1
  BY <1>1, FS_Interval
<1>3. QED
  BY <1>2

LEMMA DisjointCount ==
    ASSUME NEW A, NEW B, IsFiniteSet(A), IsFiniteSet(B), A \cap B = {}
    PROVE  Cardinality(A \cup B) = Cardinality(A) + Cardinality(B)
<1>1. Cardinality(A) \in Nat /\ Cardinality(B) \in Nat
  BY FS_CardinalityType
<1>2. Cardinality(A \cup B) = Cardinality(A) + Cardinality(B) - Cardinality(A \cap B)
  BY FS_Union
<1>3. Cardinality({}) = 0
  BY FS_EmptySet
<1>4. Cardinality(A \cap B) = 0
  BY <1>3, Zenon
<1>5. QED
  BY <1>1, <1>2, <1>4

\* Two sets of places that split a list count its entries.
LEMMA SplitPlaces ==
    ASSUME NEW s, IsList(s), NEW I \in SUBSET DOMAIN s, NEW J \in SUBSET DOMAIN s,
           I \cup J = DOMAIN s, I \cap J = {}
    PROVE  Cardinality(I) + Cardinality(J) = Len(s)
<1>1. IsFiniteSet(I) /\ IsFiniteSet(J) /\ Cardinality(I) \in Nat /\ Cardinality(J) \in Nat
  BY ListPlaces
<1>2. Cardinality(I \cup J) = Cardinality(I) + Cardinality(J)
  BY <1>1, DisjointCount
<1>3. DOMAIN s = 1..Len(s) /\ Len(s) \in Nat
  BY ListIs
<1>4. Cardinality(1..Len(s)) = Len(s)
  BY <1>3, CountTo
<1>5. Cardinality(I \cup J) = Cardinality(1..Len(s))
  BY <1>3, Zenon
<1>6. QED
  BY <1>2, <1>4, <1>5

\* Counting the places of a list class by class counts all places with a class.
LEMMA CountByClass ==
    ASSUME NEW P, IsFiniteSet(P), NEW class, NEW D, IsFiniteSet(D),
           NEW size, DOMAIN size = D,
           \A k \in D : size[k] = Cardinality({i \in P : class[i] = k})
    PROVE  SumFunction(size) = Cardinality({i \in P : class[i] \in D})
<1> DEFINE In(t) == {i \in P : class[i] \in t}
           val == [t \in SUBSET D |-> Cardinality(In(t))]
<1>1. \A t : In(t) \in SUBSET P /\ IsFiniteSet(In(t)) /\ Cardinality(In(t)) \in Nat
  BY FS_Subset, FS_CardinalityType
<1>2. val[{}] = 0
  <2>1. In({}) = {} /\ {} \in SUBSET D
    OBVIOUS
  <2>2. QED
    BY <2>1, FS_EmptySet
<1>3. ASSUME NEW t \in SUBSET D, NEW x \in t
      PROVE  val[t] = size[x] + val[t \ {x}]
  <2> DEFINE A == {i \in P : class[i] = x}
             B == In(t \ {x})
  <2>1. IsFiniteSet(A) /\ IsFiniteSet(B) /\ Cardinality(A) \in Nat /\ Cardinality(B) \in Nat
    BY <1>1, FS_Subset, FS_CardinalityType
  <2>2. In(t) = A \cup B /\ A \cap B = {}
    OBVIOUS
  <2>3. Cardinality(A \cup B) = Cardinality(A) + Cardinality(B)
    BY <2>1, <2>2, DisjointCount
  <2>4. size[x] = Cardinality(A)
    OBVIOUS
  <2>5. val[t] = Cardinality(In(t)) /\ val[t \ {x}] = Cardinality(B)
    OBVIOUS
  <2> HIDE DEF A, B, In, val
  <2>6. Cardinality(In(t)) = Cardinality(A) + Cardinality(B)
    <3>1. Cardinality(In(t)) = Cardinality(A \cup B)
      BY <2>2, Zenon
    <3>2. QED
      BY <2>3, <3>1
  <2>7. QED
    BY <2>4, <2>5, <2>6
<1>4. val[D] = Cardinality(In(D))
  OBVIOUS
<1> HIDE DEF val, In
<1>5. SumFunction(size) = val[D]
  <2>1. \A t \in SUBSET D : \A x \in t : val[t] = size[x] + val[t \ {x}]
    BY <1>3
  <2>2. SumFunctionOnSet(size, D) = val[D]
    BY <1>2, <2>1, SumIs
  <2>3. QED
    BY <2>2 DEF SumFunction
<1>6. QED
  BY <1>4, <1>5 DEF In

\* A canonical report has as many entries as fingerprints.
LEMMA FpsCount ==
    ASSUME NEW s, IsList(s), Canonical(s)
    PROVE  IsFiniteSet(FpsIn(s)) /\ Cardinality(FpsIn(s)) = Len(s)
<1> DEFINE fps == [i \in 1..Len(s) |-> s[i].fp]
<1>1. Len(s) \in Nat /\ DOMAIN s = 1..Len(s)
  BY ListIs
<1>2. IsFiniteSet(1..Len(s)) /\ Cardinality(1..Len(s)) = Len(s)
  BY <1>1, CountTo
<1>3. fps \in Surjection(1..Len(s), FpsIn(s))
  BY <1>1 DEF Surjection, FpsIn
<1>4. fps \in Injection(1..Len(s), FpsIn(s))
  <2>1. \A i, j \in 1..Len(s) : i # j => s[i].fp # s[j].fp
    <3>1. \A i, j \in 1..Len(s) : i < j => s[i].fp # s[j].fp
      BY <1>1 DEF Canonical
    <3>2. \A i, j \in 1..Len(s) : i # j => i < j \/ j < i
      BY <1>1
    <3>3. QED
      BY <3>1, <3>2
  <2>2. fps \in [1..Len(s) -> FpsIn(s)]
    BY <1>1 DEF FpsIn
  <2>3. QED
    BY <2>1, <2>2 DEF Injection, IsInjective
<1>5. ExistsBijection(1..Len(s), FpsIn(s))
  BY <1>3, <1>4 DEF ExistsBijection, Bijection
<1>6. QED
  BY <1>2, <1>5, FS_Bijection

-----------------------------------------------------------------------------
(***************************************************************************)
(* The trend                                                                *)
(***************************************************************************)
\* The total of a report is that of the one before it, with what was introduced
\* and without what was resolved, as long as no fingerprint is listed twice.
LEMMA TrendStep ==
    ASSUME NEW series, IsList(series),
           \A i \in DOMAIN series : IsList(series[i]) /\ Canonical(series[i]),
           NEW i \in DOMAIN series
    PROVE  Len(series[i]) = (IF i = 1 THEN 0 ELSE Len(series[i - 1]))
                            + Cardinality(Introduced(series, i))
                            - Cardinality(ResolvedSince(series, i))
<1>1. \A j \in DOMAIN series : /\ IsFiniteSet(FpsIn(series[j]))
                               /\ Cardinality(FpsIn(series[j])) = Len(series[j])
                               /\ Len(series[j]) \in Nat
  BY FpsCount, ListIs
<1>2. DOMAIN series = 1..Len(series) /\ Len(series) \in Nat
  BY ListIs
<1>3. CASE i = 1
  <2>1. Introduced(series, i) = FpsIn(series[i]) /\ ResolvedSince(series, i) = {}
    BY <1>3 DEF Introduced, ResolvedSince
  <2>2. Cardinality({}) = 0
    BY FS_EmptySet
  <2>3. Cardinality(FpsIn(series[i])) = Len(series[i]) /\ Len(series[i]) \in Nat
    BY <1>1
  <2> DEFINE n == Len(series[i])
             new == Cardinality(Introduced(series, i))
             old == Cardinality(ResolvedSince(series, i))
  <2>4. n \in Nat /\ new = n /\ old = 0
    BY <2>1, <2>2, <2>3
  <2> HIDE DEF n, new, old
  <2>5. n = 0 + new - old
    BY <2>4
  <2>6. QED
    BY <1>3, <2>5 DEF n, new, old
<1>4. CASE i # 1
  <2> DEFINE A == FpsIn(series[i])
             B == FpsIn(series[i - 1])
  <2>1. i - 1 \in DOMAIN series
    BY <1>2, <1>4
  <2>2. Introduced(series, i) = A \ B /\ ResolvedSince(series, i) = B \ A
    BY <1>4 DEF Introduced, ResolvedSince
  <2>3. /\ IsFiniteSet(A) /\ Cardinality(A) = Len(series[i]) /\ Len(series[i]) \in Nat
        /\ IsFiniteSet(B) /\ Cardinality(B) = Len(series[i - 1]) /\ Len(series[i - 1]) \in Nat
    BY <1>1, <2>1
  <2> HIDE DEF A, B
  <2>4. /\ Cardinality(A \ B) = Cardinality(A) - Cardinality(A \cap B)
        /\ Cardinality(B \ A) = Cardinality(B) - Cardinality(B \cap A)
    BY <2>3, FS_Difference
  <2>5. A \cap B = B \cap A /\ IsFiniteSet(A \cap B)
    BY <2>3, FS_Subset
  <2>6. Cardinality(A \cap B) \in Nat
    BY <2>5, FS_CardinalityType
  <2>7. Cardinality(A) = Cardinality(B) + Cardinality(A \ B) - Cardinality(B \ A)
    <3> DEFINE a == Cardinality(A)
               b == Cardinality(B)
               c == Cardinality(A \cap B)
    <3>1. a \in Nat /\ b \in Nat /\ c \in Nat
      BY <2>3, <2>6
    <3>2. Cardinality(A \ B) = a - c /\ Cardinality(B \ A) = b - c
      BY <2>4, <2>5
    <3> HIDE DEF a, b, c
    <3>3. a = b + (a - c) - (b - c)
      BY <3>1
    <3>4. QED
      BY <3>2, <3>3 DEF a, b
  <2>8. Len(series[i]) = Len(series[i - 1]) + Cardinality(Introduced(series, i))
                         - Cardinality(ResolvedSince(series, i))
    BY <2>2, <2>3, <2>7
  <2>9. QED
    BY <1>4, <2>8
<1>5. QED
  BY <1>3, <1>4

\* Pairs of an element of a family and a number up to its size: as many as the
\* sizes add up to.
Pairs(size, b) == {p \in (DOMAIN size) \X (1..b) : p[2] <= size[p[1]]}

LEMMA PairsCount ==
    ASSUME NEW size, IsFiniteSet(DOMAIN size), NEW b \in Nat,
           \A k \in DOMAIN size : size[k] \in 0..b
    PROVE  /\ IsFiniteSet(Pairs(size, b))
           /\ \A k \in DOMAIN size :
                 Cardinality({p \in Pairs(size, b) : p[1] = k}) = size[k]
           /\ SumFunction(size) = Cardinality(Pairs(size, b))
<1> DEFINE D == DOMAIN size
           P == Pairs(size, b)
           class == [p \in P |-> p[1]]
<1>1. IsFiniteSet(P)
  <2>1. IsFiniteSet(D \X (1..b))
    BY CountTo, FS_Product
  <2>2. P \in SUBSET (D \X (1..b))
    BY DEF Pairs
  <2> HIDE DEF P
  <2>3. QED
    BY <2>1, <2>2, FS_Subset
<1>2. ASSUME NEW k \in D
      PROVE  Cardinality({p \in P : p[1] = k}) = size[k]
  <2> DEFINE n == size[k]
             fibre == {p \in P : p[1] = k}
             g == [j \in 1..n |-> <<k, j>>]
  <2>1. n \in Nat /\ n <= b
    OBVIOUS
  <2>2. \A p : p \in fibre <=> p \in D \X (1..b) /\ p[2] <= n /\ p[1] = k
    BY DEF Pairs
  <2>3. \A j \in 1..n : <<k, j>> \in fibre
    <3>1. ASSUME NEW j \in 1..n
          PROVE  j \in 1..b /\ j <= n
      BY <2>1
    <3> HIDE DEF n
    <3>2. QED
      BY <2>2, <3>1
  <2>4. \A p \in fibre : p[2] \in 1..n /\ p = <<k, p[2]>>
    BY <2>1, <2>2
  <2> HIDE DEF n, fibre
  <2>5. g \in Injection(1..n, fibre)
    BY <2>3 DEF Injection, IsInjective
  <2>6. g \in Surjection(1..n, fibre)
    BY <2>3, <2>4 DEF Surjection
  <2>7. ExistsBijection(1..n, fibre)
    BY <2>5, <2>6 DEF ExistsBijection, Bijection
  <2>8. IsFiniteSet(1..n) /\ Cardinality(1..n) = n
    BY <2>1, CountTo
  <2>9. Cardinality(fibre) = n
    BY <2>7, <2>8, FS_Bijection
  <2>10. QED
    BY <2>9 DEF n, fibre
<1>3. SumFunction(size) = Cardinality(P)
  <2>1. \A k \in D : {p \in P : class[p] = k} = {p \in P : p[1] = k}
    OBVIOUS
  <2>2. {p \in P : class[p] \in D} = P
    BY DEF Pairs
  <2> HIDE DEF P, class
  <2>3. \A k \in D : size[k] = Cardinality({p \in P : class[p] = k})
    BY <1>2, <2>1, Zenon
  <2>4. SumFunction(size) = Cardinality({p \in P : class[p] \in D})
    BY <1>1, <2>3, CountByClass
  <2>5. QED
    BY <2>2, <2>4, Zenon
<1>4. QED
  BY <1>1, <1>2, <1>3

\* Joined lists are as long as they are together, and hold the same elements.
LEMMA JoinedLength ==
    ASSUME NEW ss, IsList(ss), \A i \in DOMAIN ss : IsList(ss[i])
    PROVE  /\ Len(FlattenSeq(ss)) = SumFunction([i \in DOMAIN ss |-> Len(ss[i])])
           /\ ToSet(FlattenSeq(ss)) = UNION {ToSet(ss[i]) : i \in DOMAIN ss}
<1> DEFINE n == Len(ss)
           size == [i \in DOMAIN ss |-> Len(ss[i])]
<1>1. n \in Nat /\ DOMAIN ss = 1..n
  BY ListIs
<1>2. \A i \in 1..n : IsList(ss[i]) /\ Len(ss[i]) \in Nat /\ size[i] = Len(ss[i])
  BY <1>1, ListIs
<1>3. PICK b \in Nat : \A i \in 1..n : size[i] <= b
  <2>1. \A i \in 1..n : size[i] \in Nat
    BY <1>2
  <2> HIDE DEF n, size
  <2>2. QED
    BY <1>1, <2>1, Bounded
<1> DEFINE P == Pairs(size, b)
           upTo(m) == {p \in P : p[1] \in 1..m}
<1>4. /\ IsFiniteSet(P) /\ SumFunction(size) = Cardinality(P)
      /\ \A i \in 1..n : Cardinality({p \in P : p[1] = i}) = Len(ss[i])
  <2>1. DOMAIN size = 1..n /\ IsFiniteSet(DOMAIN size)
    BY <1>1, CountTo
  <2>2. \A i \in DOMAIN size : size[i] \in 0..b
    BY <1>1, <1>2, <1>3
  <2>3. \A i \in DOMAIN size : Cardinality({p \in P : p[1] = i}) = size[i]
    BY <2>1, <2>2, PairsCount
  <2>4. IsFiniteSet(P) /\ SumFunction(size) = Cardinality(P)
    BY <2>1, <2>2, PairsCount
  <2>5. QED
    BY <1>2, <2>1, <2>3, <2>4
<1>5. upTo(n) = P /\ upTo(0) = {}
  BY <1>1 DEF Pairs
<1>6. ASSUME NEW m \in 1..n
      PROVE  Cardinality(upTo(m)) = Cardinality(upTo(m - 1)) + Len(ss[m])
  <2> DEFINE A == upTo(m - 1)
             B == {p \in P : p[1] = m}
  <2>1. upTo(m) = A \cup B /\ A \cap B = {}
    <3>1. \A p \in P : p[1] \in 1..n
      BY <1>1 DEF Pairs
    <3>2. m \in 1..m /\ m \notin 1..(m - 1) /\ \A i \in 1..n : i \in 1..m <=> i \in 1..(m - 1) \/ i = m
      BY <1>1
    <3> HIDE DEF P, n
    <3>3. QED
      BY <3>1, <3>2
  <2>2. IsFiniteSet(A) /\ IsFiniteSet(B)
    <3> HIDE DEF P
    <3>1. QED
      BY <1>4, FS_Subset
  <2>3. Cardinality(B) = Len(ss[m])
    BY <1>4
  <2> HIDE DEF A, B, upTo
  <2>4. Cardinality(A \cup B) = Cardinality(A) + Cardinality(B)
    BY <2>1, <2>2, DisjointCount
  <2>5. Cardinality(upTo(m)) = Cardinality(A \cup B)
    BY <2>1, Zenon
  <2>6. QED
    BY <2>3, <2>4, <2>5 DEF A
<1>7. CASE n = 0
  <2>1. FlattenSeq(ss) = ss /\ DOMAIN ss = {}
    BY <1>1, <1>7 DEF FlattenSeq
  <2>2. ToSet(FlattenSeq(ss)) = {} /\ UNION {ToSet(ss[i]) : i \in DOMAIN ss} = {}
    BY <2>1 DEF ToSet
  <2>3. Cardinality(P) = 0
    <3>1. P = {}
      BY <1>5, <1>7
    <3> HIDE DEF P
    <3>2. QED
      BY <3>1, FS_EmptySet
  <2>4. Len(FlattenSeq(ss)) = 0
    BY <1>7, <2>1
  <2> HIDE DEF P, size
  <2>5. Len(FlattenSeq(ss)) = SumFunction(size)
    BY <1>4, <2>3, <2>4
  <2>6. QED
    BY <2>2, <2>5 DEF size
<1>8. CASE n # 0
  <2>1. PICK flat : /\ FlattenSeq(ss) = flat[n]
                    /\ \A i \in 1..n : flat[i] = IF i = 1 THEN ss[i] ELSE flat[i - 1] \o ss[i]
    BY <1>1, <1>8, JoinSteps
  <2> DEFINE Good(m) == /\ IsList(flat[m]) /\ Len(flat[m]) = Cardinality(upTo(m))
                        /\ \A x : x \in ToSet(flat[m]) <=> \E i \in 1..m : x \in ToSet(ss[i])
             worse == {m \in Nat : m \in 1..n /\ ~Good(m)}
  <2>2. ASSUME worse # {}
        PROVE  FALSE
    <3>1. PICK m \in worse : \A k \in worse : m <= k
      <4>1. worse \in SUBSET Nat
        OBVIOUS
      <4> HIDE DEF worse
      <4>2. QED
        BY <2>2, <4>1, LeastOf
    <3>2. m \in Nat /\ m \in 1..n /\ ~Good(m)
      BY <3>1
    <3>3. CASE m = 1
      <4>1. flat[m] = ss[m] /\ IsList(ss[m])
        BY <1>2, <2>1, <3>2, <3>3
      <4>2. Cardinality(upTo(0)) = 0
        <5> HIDE DEF upTo
        <5>1. QED
          BY <1>5, FS_EmptySet
      <4>3. Cardinality(upTo(m)) = Cardinality(upTo(0)) + Len(ss[m])
        <5>1. m - 1 = 0
          BY <3>3
        <5> HIDE DEF upTo
        <5>2. QED
          BY <1>6, <3>2, <5>1
      <4>4. Len(ss[m]) \in Nat
        BY <1>2, <3>2
      <4>5. \A x : x \in ToSet(ss[m]) <=> \E i \in 1..m : x \in ToSet(ss[i])
        BY <3>3
      <4> HIDE DEF upTo
      <4>6. QED
        BY <3>2, <4>1, <4>2, <4>3, <4>4, <4>5
    <3>4. CASE m # 1
      <4> DEFINE k == m - 1
      <4>1. k \in Nat /\ k \in 1..n /\ k < m
        BY <1>1, <3>2, <3>4
      <4>2. Good(k)
        <5>1. k \notin worse
          <6> HIDE DEF worse, k
          <6>1. QED
            BY <3>1, <3>2, <4>1
        <5> HIDE DEF Good, k
        <5>2. QED
          BY <4>1, <5>1
      <4>3. flat[m] = flat[k] \o ss[m] /\ IsList(ss[m]) /\ Len(ss[m]) \in Nat
        BY <1>2, <2>1, <3>2, <3>4
      <4> DEFINE u == flat[k]
                 v == ss[m]
      <4>4. /\ IsList(u \o v) /\ Len(u \o v) = Len(u) + Len(v)
            /\ ToSet(u \o v) = ToSet(u) \cup ToSet(v)
        <5>1. IsList(u) /\ IsList(v)
          BY <4>2, <4>3
        <5> HIDE DEF u, v
        <5>2. /\ IsList(u \o v) /\ Len(u \o v) = Len(u) + Len(v)
              /\ \A i \in 1..Len(u) : (u \o v)[i] = u[i]
              /\ \A i \in DOMAIN (u \o v) : i \notin 1..Len(u) =>
                    i - Len(u) \in DOMAIN v /\ (u \o v)[i] = v[i - Len(u)]
          BY <5>1, TwoJoined
        <5>3. /\ DOMAIN u = 1..Len(u) /\ Len(u) \in Nat /\ DOMAIN v = 1..Len(v) /\ Len(v) \in Nat
              /\ DOMAIN (u \o v) = 1..(Len(u) + Len(v))
          BY <5>1, <5>2, ListIs
        <5>4. \A i \in DOMAIN u : i \in DOMAIN (u \o v) /\ (u \o v)[i] = u[i]
          BY <5>2, <5>3
        <5>5. \A j \in DOMAIN v : \E i \in DOMAIN (u \o v) : (u \o v)[i] = v[j]
          <6>1. SUFFICES ASSUME NEW j \in DOMAIN v
                         PROVE  \E i \in DOMAIN (u \o v) : (u \o v)[i] = v[j]
            OBVIOUS
          <6>2. j + Len(u) \in DOMAIN (u \o v) /\ j + Len(u) \notin 1..Len(u)
                /\ (j + Len(u)) - Len(u) = j
            BY <5>3
          <6>3. QED
            BY <5>2, <6>2
        <5>6. \A i \in DOMAIN (u \o v) : (i \in DOMAIN u /\ (u \o v)[i] = u[i])
                                         \/ (\E j \in DOMAIN v : (u \o v)[i] = v[j])
          <6>1. TAKE i \in DOMAIN (u \o v)
          <6>2. CASE i \in 1..Len(u)
            BY <5>2, <5>3, <6>2
          <6>3. CASE i \notin 1..Len(u)
            BY <5>2, <6>3
          <6>4. QED
            BY <6>2, <6>3
        <5>7. \A x : (\E i \in DOMAIN (u \o v) : (u \o v)[i] = x)
                     <=> (\E i \in DOMAIN u : u[i] = x) \/ (\E j \in DOMAIN v : v[j] = x)
          BY <5>4, <5>5, <5>6, Zenon
        <5>8. ToSet(u \o v) = ToSet(u) \cup ToSet(v)
          BY SMTT(30), <5>7 DEF ToSet
        <5>9. QED
          BY <5>2, <5>8
      <4>5. Cardinality(upTo(m)) = Cardinality(upTo(k)) + Len(v)
        BY <1>6, <3>2
      <4>6. \A x : x \in ToSet(u) \cup ToSet(v) <=> \E i \in 1..m : x \in ToSet(ss[i])
        <5>1. \A i : i \in 1..m <=> i \in 1..k \/ i = m
          BY <3>2, <4>1
        <5>2. \A x : x \in ToSet(u) <=> \E i \in 1..k : x \in ToSet(ss[i])
          BY <4>2
        <5> HIDE DEF u, k
        <5>3. QED
          BY <5>1, <5>2
      <4>7. Len(u) = Cardinality(upTo(k))
        BY <4>2
      <4> HIDE DEF u, v, k, upTo
      <4>8. flat[m] = u \o v
        BY <4>3 DEF u, v, k
      <4>9. Good(m)
        BY <4>4, <4>5, <4>6, <4>7, <4>8
      <4>10. QED
        BY <3>2, <4>9
    <3>5. QED
      BY <3>3, <3>4
  <2>3. Good(n)
    <3>1. n \in Nat /\ n \in 1..n
      BY <1>1, <1>8
    <3>2. n \notin worse
      <4> HIDE DEF worse
      <4>1. QED
        BY <2>2
    <3> HIDE DEF Good, n
    <3>3. QED
      BY <3>1, <3>2
  <2>4. Len(flat[n]) = SumFunction(size)
    <3> HIDE DEF P, upTo, size
    <3>1. QED
      BY <1>4, <1>5, <2>3
  <2>5. ToSet(flat[n]) = UNION {ToSet(ss[i]) : i \in DOMAIN ss}
    BY <1>1, <2>3
  <2> HIDE DEF size
  <2>6. QED
    BY <2>1, <2>4, <2>5 DEF size
<1>9. QED
  BY <1>7, <1>8

-----------------------------------------------------------------------------
(***************************************************************************)
(* Risk and the remediation plan                                            *)
(***************************************************************************)
\* Rounding to the nearest adds at most half of the divisor.
LEMMA RoundedDivBound ==
    ASSUME NEW n \in Nat, NEW d \in Nat \ {0}
    PROVE  /\ RoundedDiv(n, d) \in Nat
           /\ 2 * (d * RoundedDiv(n, d)) <= 2 * n + d
<1> DEFINE q == n \div d
           r == n % d
<1>1. q \in Nat /\ r \in 0..(d - 1)
  OBVIOUS
<1>2. n = d * q + r
  OBVIOUS
<1>3. d * q \in Nat /\ d * (q + 1) = d * q + d
  BY <1>1
<1>4. CASE 2 * r > d \/ (2 * r = d /\ q % 2 = 1)
  <2>1. RoundedDiv(n, d) = q + 1
    BY <1>4 DEF RoundedDiv
  <2>2. 2 * r >= d
    <3> HIDE DEF q, r
    <3> QED
      BY <1>1, <1>4
  <2> HIDE DEF q, r
  <2> QED
    BY <1>1, <1>2, <1>3, <2>1, <2>2
<1>5. CASE ~(2 * r > d \/ (2 * r = d /\ q % 2 = 1))
  <2>1. RoundedDiv(n, d) = q
    BY <1>5 DEF RoundedDiv
  <2> HIDE DEF q, r
  <2> QED
    BY <1>1, <1>2, <1>3, <2>1
<1> QED
  BY <1>4, <1>5

\* The composite risk score of an entry is a score, for any severity and scores.
THEOREM RiskIsScore ==
    ASSUME NEW f, IsEntry(f)
    PROVE  RiskScore(f) \in Score
<1> DEFINE impact == IF f.cvss # None THEN f.cvss ELSE SeverityImpact[f.sev]
           likelihood == IF f.kev THEN 100 ELSE IF f.epss # None THEN f.epss ELSE 0
<1>1. /\ f.sev \in 0..4 /\ f.cvss \in -1..100 /\ f.epss \in -1..100
  BY EntryNumbers
<1>2. impact \in 0..100
  <2>1. CASE f.cvss # None
    BY <1>1, <2>1 DEF None
  <2>2. CASE f.cvss = None
    <3>1. \A v \in 0..4 : <<0, 20, 50, 80, 95>>[v + 1] \in 0..100
      OBVIOUS
    <3>2. SeverityImpact[f.sev] = <<0, 20, 50, 80, 95>>[f.sev + 1]
      BY <1>1 DEF SeverityImpact, Severity
    <3>3. QED
      BY <1>1, <2>2, <3>1, <3>2
  <2>3. QED
    BY <2>1, <2>2
<1>3. likelihood \in 0..100
  BY <1>1 DEF None
<1>4. RiskScore(f) = RoundedDiv(impact * (700 + 3 * likelihood), 1000)
  BY DEF RiskScore
<1> HIDE DEF impact, likelihood
<1>5. \A a, l \in 0..100 : a * (700 + 3 * l) \in Nat /\ a * (700 + 3 * l) <= 100000
  <2>1. SUFFICES ASSUME NEW a \in 0..100, NEW l \in 0..100
                 PROVE  a * (700 + 3 * l) \in Nat /\ a * (700 + 3 * l) <= 100000
    OBVIOUS
  <2>2. \A c \in 0..1000 : a * c \in Nat /\ a * c <= 100 * c
    OBVIOUS
  <2>3. 700 + 3 * l \in 0..1000
    OBVIOUS
  <2>4. \A c \in 0..1000 : 100 * c <= 100000
    OBVIOUS
  <2> DEFINE c == 700 + 3 * l
  <2>5. c \in 0..1000
    BY <2>3
  <2> HIDE DEF c
  <2>6. a * c \in Nat /\ a * c <= 100 * c /\ 100 * c <= 100000
    BY <2>2, <2>4, <2>5
  <2>7. a * c \in Nat /\ a * c <= 100000
    BY <2>5, <2>6
  <2>8. QED
    BY <2>7 DEF c
<1> DEFINE n == impact * (700 + 3 * likelihood)
           q == RoundedDiv(n, 1000)
<1>6. n \in Nat /\ n <= 100000
  BY <1>2, <1>3, <1>5
<1> HIDE DEF n
<1>7. q \in Nat /\ 2 * (1000 * q) <= 2 * n + 1000
  <2>1. 1000 \in Nat \ {0}
    OBVIOUS
  <2>2. QED
    BY <1>6, <2>1, RoundedDivBound
<1> HIDE DEF q
<1>8. q \in 0..100
  BY <1>6, <1>7
<1>9. QED
  BY <1>4, <1>8 DEF q, n, Score

\* The risk of a report, point by point.
RiskPoints(s) == Pairs([i \in DOMAIN s |-> RiskScore(s[i])], 100)

LEMMA RiskCount ==
    ASSUME NEW s, IsList(s), IsReport(s)
    PROVE  /\ IsFiniteSet(RiskPoints(s))
           /\ TotalRisk(s) = Cardinality(RiskPoints(s))
           /\ TotalRisk(s) \in Nat
<1> DEFINE size == [i \in DOMAIN s |-> RiskScore(s[i])]
<1>1. DOMAIN s = 1..Len(s) /\ IsFiniteSet(DOMAIN s)
  BY ListIs, ListPlaces
<1>2. \A i \in DOMAIN s : RiskScore(s[i]) \in 0..100
  BY <1>1, RiskIsScore DEF IsReport, Score
<1>3. DOMAIN size = DOMAIN s /\ \A i \in DOMAIN size : size[i] \in 0..100
  BY <1>2
<1>4. TotalRisk(s) = SumFunction(size) /\ RiskPoints(s) = Pairs(size, 100)
  BY DEF TotalRisk, RiskPoints
<1> HIDE DEF size
<1>5. IsFiniteSet(Pairs(size, 100)) /\ SumFunction(size) = Cardinality(Pairs(size, 100))
  <2>1. 100 \in Nat
    OBVIOUS
  <2>2. IsFiniteSet(DOMAIN size)
    BY <1>1, <1>3
  <2>3. QED
    BY <1>3, <2>1, <2>2, PairsCount
<1>6. QED
  BY <1>4, <1>5, FS_CardinalityType

\* What is picked from a report has the risk of its places there.
LEMMA PickedRisk ==
    ASSUME NEW s, IsList(s), IsReport(s), Canonical(s), NEW I \in SUBSET DOMAIN s
    PROVE  TotalRisk(At(s, I)) = Cardinality({p \in RiskPoints(s) : p[1] \in I})
<1> DEFINE q == At(s, I)
           place == InOrder(I)
           A == RiskPoints(q)
           B == {p \in RiskPoints(s) : p[1] \in I}
           g == [p \in A |-> <<place[p[1]], p[2]>>]
<1>1. /\ IsList(q) /\ IsReport(q)
      /\ \A n \in DOMAIN q : place[n] \in I /\ q[n] = s[place[n]]
      /\ \A m, n \in DOMAIN q : m < n => place[m] < place[n]
      /\ \A i \in I : \E n \in DOMAIN q : place[n] = i
  BY Picked, PickedIsCanonical
<1>2. TotalRisk(q) = Cardinality(A) /\ IsFiniteSet(A)
  BY <1>1, RiskCount
<1>3. /\ \A p : p \in A <=> /\ p \in (DOMAIN q) \X (1..100)
                            /\ p[2] <= RiskScore(q[p[1]])
      /\ \A p : p \in B <=> /\ p \in (DOMAIN s) \X (1..100)
                            /\ p[2] <= RiskScore(s[p[1]]) /\ p[1] \in I
  BY DEF RiskPoints, Pairs
<1>4. \A m, n \in DOMAIN q : place[m] = place[n] => m = n
  <2>1. DOMAIN q = 1..Len(q) /\ Len(q) \in Nat
    BY <1>1, ListIs
  <2>2. I \in SUBSET Nat
    BY ListPlaces
  <2>3. \A m, n \in DOMAIN q : m = n \/ m < n \/ n < m
    BY <2>1
  <2> HIDE DEF q, place
  <2>4. \A n \in DOMAIN q : place[n] \in Nat
    BY <1>1, <2>2
  <2>5. \A a, b \in Nat : a < b => a # b
    OBVIOUS
  <2>6. QED
    BY <1>1, <2>3, <2>4, <2>5
<1> HIDE DEF q, place, A, B
<1>5. \A p \in A : g[p] \in B
  BY <1>1, <1>3
<1>6. \A x, y \in A : g[x] = g[y] => x = y
  BY <1>3, <1>4
<1>7. ASSUME NEW p \in B
      PROVE  \E x \in A : g[x] = p
  <2>1. p = <<p[1], p[2]>> /\ p[2] \in 1..100 /\ p[2] <= RiskScore(s[p[1]]) /\ p[1] \in I
    BY <1>3
  <2>2. PICK n \in DOMAIN q : place[n] = p[1]
    BY <1>1, <2>1
  <2>3. q[n] = s[p[1]]
    BY <1>1, <2>2
  <2>4. <<n, p[2]>> \in A
    BY <1>3, <2>1, <2>3
  <2>5. g[<<n, p[2]>>] = p
    BY <2>1, <2>2, <2>4
  <2>6. QED
    BY <2>4, <2>5
<1>8. g \in Injection(A, B) /\ g \in Surjection(A, B)
  <2>1. g \in [A -> B]
    BY <1>5
  <2> HIDE DEF g
  <2>2. QED
    BY <1>6, <1>7, <2>1 DEF Injection, IsInjective, Surjection
<1>9. ExistsBijection(A, B)
  BY <1>8 DEF ExistsBijection, Bijection
<1>10. Cardinality(B) = Cardinality(A)
  BY <1>2, <1>9, FS_Bijection
<1>11. QED
  BY <1>2, <1>10 DEF q, B

\* The places of a report whose entries one action clears.
Cleared(s, k) == {i \in DOMAIN s : PlanKey(s[i]) = k}

Actions(s) == Grouped(s, PlanKey)

LEMMA PlanKeyIs ==
    ASSUME NEW f, IsEntry(f)
    PROVE  PlanKey(f) \in Seq(Int)
<1>1. f.fp \in Fingerprint /\ IsMeta(f.meta)
  BY EntryIs DEF EntryFields
<1>2. /\ f.meta.package \in Nat \cup {Absent} /\ f.meta.product \in Nat \cup {Absent}
  BY <1>1 DEF IsMeta
<1>3. HostOf[f.fp] \in Nat /\ SourceOf[f.fp] \in Nat /\ TitleOf[f.fp] \in Seq(Nat)
  BY <1>1, ReportsAssumption
<1>4. \A t \in Seq(Nat) : \A m \in Nat : <<0, m>> \o t \in Seq(Int)
  OBVIOUS
<1>5. \A m, n \in Nat : <<1, m>> \in Seq(Int) /\ <<2, m, n>> \in Seq(Int)
  OBVIOUS
<1>6. QED
  BY <1>2, <1>3, <1>4, <1>5 DEF PlanKey

\* Every entry is cleared by one action, and an action is known by its key.
LEMMA ActionsAre ==
    ASSUME NEW s, IsList(s), IsReport(s)
    PROVE  /\ IsFiniteSet(Actions(s))
           /\ \A a \in Actions(s) : /\ a.key \in Seq(Int)
                                    /\ a.members = At(s, Cleared(s, a.key))
                                    /\ Cleared(s, a.key) # {}
           /\ \A i \in DOMAIN s : \E a \in Actions(s) : a.key = PlanKey(s[i])
           /\ \A a, b \in Actions(s) : a.key = b.key => a = b
<1> DEFINE act == [i \in DOMAIN s |-> [key |-> PlanKey(s[i]),
                                       members |-> At(s, Cleared(s, PlanKey(s[i])))]]
<1>1. Actions(s) = {[key |-> k, members |-> At(s, Cleared(s, k))] :
                       k \in {PlanKey(s[i]) : i \in DOMAIN s}}
  BY DEF Actions, Grouped, Cleared
<1>2. \A a : a \in Actions(s) <=> \E i \in DOMAIN s : a = act[i]
  BY <1>1
<1>3. DOMAIN s = 1..Len(s) /\ IsFiniteSet(DOMAIN s)
  BY ListIs, ListPlaces
<1>4. IsFiniteSet(Actions(s))
  <2>1. act \in [DOMAIN s -> Actions(s)]
    BY <1>2
  <2>2. \A a \in Actions(s) : \E i \in DOMAIN s : act[i] = a
    BY <1>2
  <2>3. act \in Surjection(DOMAIN s, Actions(s))
    <3> HIDE DEF act
    <3>1. QED
      BY <2>1, <2>2 DEF Surjection
  <2>4. QED
    BY <1>3, <2>3, FS_Surjection
<1>5. \A i \in DOMAIN s : /\ act[i].key = PlanKey(s[i]) /\ act[i].key \in Seq(Int)
                          /\ act[i].members = At(s, Cleared(s, act[i].key))
                          /\ i \in Cleared(s, act[i].key)
  BY <1>3, PlanKeyIs DEF IsReport, Cleared
<1>6. \A i, j \in DOMAIN s : act[i].key = act[j].key => act[i] = act[j]
  OBVIOUS
<1> HIDE DEF act
<1>7. QED
  BY <1>2, <1>4, <1>5, <1>6

LEMMA ActionRankIs ==
    ASSUME NEW s, IsList(s), IsReport(s), Canonical(s), NEW a \in Actions(s)
    PROVE  /\ ActionRank(a) \in Seq(Int) /\ Len(ActionRank(a)) = 4 + Len(a.key)
           /\ ActionRank(a)[1] = IF ActionKev(a) THEN -1 ELSE 0
           /\ \A i \in 1..Len(a.key) : ActionRank(a)[4 + i] = a.key[i]
<1> DEFINE q == a.members
           w == -Worst(a.members)
           r == -TotalRisk(a.members)
           l == -Len(a.members)
           e == IF ActionKev(a) THEN -1 ELSE 0
<1>1. /\ a.key \in Seq(Int) /\ q = At(s, Cleared(s, a.key)) /\ Cleared(s, a.key) # {}
  BY ActionsAre
<1>2. Cleared(s, a.key) \in SUBSET DOMAIN s
  BY DEF Cleared
<1>3. IsList(q) /\ IsReport(q) /\ DOMAIN q # {} /\ Len(q) \in Nat
  <2>1. /\ IsList(q) /\ IsReport(q)
        /\ \A i \in Cleared(s, a.key) : \E n \in DOMAIN q : InOrder(Cleared(s, a.key))[n] = i
    BY <1>1, <1>2, Picked, PickedIsCanonical
  <2>2. DOMAIN q # {}
    BY <1>1, <2>1
  <2>3. QED
    BY <2>1, <2>2, ListIs
<1>4. w \in Int
  <2>1. DOMAIN q = 1..Len(q) /\ \A i \in DOMAIN q : q[i].sev \in 0..4
    BY <1>3, ListIs, EntryNumbers DEF IsReport
  <2>2. DOMAIN q # {}
    BY <1>3
  <2> HIDE DEF q
  <2> DEFINE S == {q[i].sev : i \in DOMAIN q}
  <2>3. S \in SUBSET Int /\ S # {} /\ \A x \in S : x <= 4
    <3>1. \A v \in 0..4 : v \in Int /\ v <= 4
      OBVIOUS
    <3>2. QED
      BY <2>1, <2>2, <3>1
  <2>4. Worst(q) = Max(S)
    BY DEF Worst
  <2> HIDE DEF S
  <2>5. 4 \in Int
    OBVIOUS
  <2>6. Max(S) \in Int
    BY <2>3, <2>5, MaxOf
  <2>7. Worst(a.members) \in Int
    BY <2>4, <2>6 DEF q
  <2>8. QED
    BY <2>7
<1>5. r \in Int /\ l \in Int
  BY <1>3, RiskCount
<1>6. e \in Int
  OBVIOUS
<1>7. ActionRank(a) = <<e, w, r, l>> \o a.key
  BY DEF ActionRank
<1> HIDE DEF e, w, r, l
<1> DEFINE t == a.key
           z == <<e, w, r, l>> \o t
<1>8. /\ z \in Seq(Int) /\ Len(z) = 4 + Len(t) /\ z[1] = e
      /\ \A i \in 1..Len(t) : z[4 + i] = t[i]
  <2>1. t \in Seq(Int)
    BY <1>1
  <2> HIDE DEF t
  <2>2. <<e, w, r, l>> \in Seq(Int) /\ Len(<<e, w, r, l>>) = 4 /\ <<e, w, r, l>>[1] = e
    BY <1>4, <1>5, <1>6
  <2>3. Len(t) \in Nat
    BY <2>1
  <2>4. z \in Seq(Int) /\ Len(z) = 4 + Len(t)
    BY <2>1, <2>2
  <2>5. z[1] = e
    BY <2>1, <2>2, <2>3
  <2>6. \A i \in 1..Len(t) : z[4 + i] = t[i]
    BY <2>1, <2>2, <2>3
  <2>7. QED
    BY <2>4, <2>5, <2>6
<1> HIDE DEF z
<1>9. ActionRank(a) = z
  BY <1>7 DEF z
<1>10. QED
  BY <1>8, <1>9 DEF e, t

\* The plan lists every action once, in the order of their ranks.
LEMMA PlanIs ==
    ASSUME NEW s, IsList(s), IsReport(s), Canonical(s)
    PROVE  /\ IsList(Plan(s))
           /\ \A n \in DOMAIN Plan(s) : Plan(s)[n] \in Actions(s)
           /\ \A a \in Actions(s) : \E n \in DOMAIN Plan(s) : Plan(s)[n] = a
           /\ \A m, n \in DOMAIN Plan(s) : m < n =>
                 Before(ActionRank(Plan(s)[m]), ActionRank(Plan(s)[n]))
<1> DEFINE S == Actions(s)
           key == [a \in S |-> ActionRank(a)]
           q == SortedBy(S, key)
<1>1. IsFiniteSet(S) /\ \A a \in S : key[a] \in Seq(Int)
  BY ActionsAre, ActionRankIs
<1>2. \A a, b \in S : key[a] = key[b] => a = b
  <2>1. SUFFICES ASSUME NEW a \in S, NEW b \in S, ActionRank(a) = ActionRank(b)
                 PROVE  a = b
    OBVIOUS
  <2>2. /\ Len(ActionRank(a)) = 4 + Len(a.key)
        /\ \A i \in 1..Len(a.key) : ActionRank(a)[4 + i] = a.key[i]
        /\ Len(ActionRank(b)) = 4 + Len(b.key)
        /\ \A i \in 1..Len(b.key) : ActionRank(b)[4 + i] = b.key[i]
    BY ActionRankIs
  <2>3. a.key \in Seq(Int) /\ b.key \in Seq(Int) /\ (a.key = b.key => a = b)
    BY ActionsAre
  <2>4. Len(a.key) \in Nat /\ Len(b.key) \in Nat
    BY <2>3
  <2>5. Len(a.key) = Len(b.key)
    BY <2>1, <2>2, <2>4
  <2>6. \A i \in 1..Len(a.key) : a.key[i] = b.key[i]
    BY <2>1, <2>2, <2>5
  <2>7. a.key = b.key
    BY <2>3, <2>5, <2>6, SeqEqual
  <2>8. QED
    BY <2>3, <2>7
<1>3. Plan(s) = q
  BY DEF Plan, Actions
<1> HIDE DEF S
<1>4. /\ Cardinality(S) \in Nat /\ q \in [1..Cardinality(S) -> S]
      /\ \A x \in S : \E n \in 1..Cardinality(S) : q[n] = x
      /\ \A i, j \in 1..Cardinality(S) : i < j => Before(key[q[i]], key[q[j]])
  <2> HIDE DEF key
  <2>1. QED
    BY <1>1, <1>2, Sorted
<1>5. \A a \in S : key[a] = ActionRank(a)
  OBVIOUS
<1> HIDE DEF q, key
<1>6. IsList(q) /\ DOMAIN q = 1..Cardinality(S)
  BY <1>4, FunctionIsList
<1>7. QED
  BY <1>3, <1>4, <1>5, <1>6 DEF S

\* The place in the plan of the action that clears an entry.
PlaceInPlan(s) ==
    [i \in DOMAIN s |-> CHOOSE n \in DOMAIN Plan(s) : Plan(s)[n].key = PlanKey(s[i])]

LEMMA PlacesAre ==
    ASSUME NEW s, IsList(s), IsReport(s), Canonical(s)
    PROVE  /\ \A i \in DOMAIN s : PlaceInPlan(s)[i] \in DOMAIN Plan(s)
           /\ \A n \in DOMAIN Plan(s) :
                 /\ Plan(s)[n].members = At(s, Cleared(s, Plan(s)[n].key))
                 /\ \A i \in DOMAIN s :
                       PlaceInPlan(s)[i] = n <=> i \in Cleared(s, Plan(s)[n].key)
<1> DEFINE plan == Plan(s)
<1>1. /\ IsList(plan)
      /\ \A n \in DOMAIN plan : plan[n] \in Actions(s)
      /\ \A a \in Actions(s) : \E n \in DOMAIN plan : plan[n] = a
      /\ \A m, n \in DOMAIN plan : m < n => Before(ActionRank(plan[m]), ActionRank(plan[n]))
  BY PlanIs
<1>2. \A i \in DOMAIN s : \E n \in DOMAIN plan : plan[n].key = PlanKey(s[i])
  <2> HIDE DEF plan
  <2>1. QED
    BY <1>1, ActionsAre
<1>3. \A m, n \in DOMAIN plan : plan[m].key = plan[n].key => m = n
  <2> HIDE DEF plan
  <2>1. SUFFICES ASSUME NEW m \in DOMAIN plan, NEW n \in DOMAIN plan, m < n,
                        plan[m].key = plan[n].key
                 PROVE  FALSE
    <3>1. DOMAIN plan = 1..Len(plan) /\ Len(plan) \in Nat
      BY <1>1, ListIs
    <3>2. \A m, n \in DOMAIN plan : m = n \/ m < n \/ n < m
      BY <3>1
    <3>3. QED
      BY <3>2
  <2>2. plan[m] = plan[n]
    BY <1>1, <2>1, ActionsAre
  <2>3. Before(ActionRank(plan[m]), ActionRank(plan[m])) /\ ActionRank(plan[m]) \in Seq(Int)
    BY <1>1, <2>1, <2>2, ActionRankIs
  <2>4. QED
    BY <2>3, BeforeNot
<1> HIDE DEF plan
<1>4. \A i \in DOMAIN s : /\ PlaceInPlan(s)[i] \in DOMAIN plan
                          /\ plan[PlaceInPlan(s)[i]].key = PlanKey(s[i])
  <2>1. \A i \in DOMAIN s :
           PlaceInPlan(s)[i] = CHOOSE n \in DOMAIN plan : plan[n].key = PlanKey(s[i])
    BY DEF PlaceInPlan, plan
  <2>2. QED
    BY <1>2, <2>1
<1>5. \A n \in DOMAIN plan : \A i \in DOMAIN s :
         PlaceInPlan(s)[i] = n <=> i \in Cleared(s, plan[n].key)
  BY <1>3, <1>4 DEF Cleared
<1>6. \A n \in DOMAIN plan : plan[n].members = At(s, Cleared(s, plan[n].key))
  BY <1>1, ActionsAre
<1>7. QED
  BY <1>4, <1>5, <1>6 DEF plan

PlannedLengths(s) == [n \in DOMAIN Plan(s) |-> Len(Plan(s)[n].members)]
PlannedRisks(s) == [n \in DOMAIN Plan(s) |-> TotalRisk(Plan(s)[n].members)]

\* The actions of a plan clear every entry once, and what they clear carries the
\* risk of the report.
LEMMA PlanCounts ==
    ASSUME NEW s, IsList(s), IsReport(s), Canonical(s)
    PROVE  /\ SumFunction(PlannedLengths(s)) = Len(s)
           /\ SumFunction(PlannedRisks(s)) = TotalRisk(s)
<1> DEFINE plan == Plan(s)
           D == DOMAIN plan
           place == PlaceInPlan(s)
           P == RiskPoints(s)
           class == [p \in P |-> place[p[1]]]
<1>1. DOMAIN s = 1..Len(s) /\ Len(s) \in Nat /\ IsFiniteSet(DOMAIN s)
  BY ListIs, ListPlaces
<1>2. IsFiniteSet(D)
  BY PlanIs, ListPlaces
<1>3. /\ \A i \in DOMAIN s : place[i] \in D
      /\ \A n \in D : /\ plan[n].members = At(s, Cleared(s, plan[n].key))
                      /\ \A i \in DOMAIN s : place[i] = n <=> i \in Cleared(s, plan[n].key)
  BY PlacesAre
<1>4. \A k : Cleared(s, k) \in SUBSET DOMAIN s
  BY DEF Cleared
<1>5. P \subseteq (DOMAIN s) \X (1..100) /\ IsFiniteSet(P) /\ TotalRisk(s) = Cardinality(P)
  BY RiskCount DEF RiskPoints, Pairs
<1>6. DOMAIN PlannedLengths(s) = D /\ DOMAIN PlannedRisks(s) = D
      /\ \A n \in D : /\ PlannedLengths(s)[n] = Len(plan[n].members)
                      /\ PlannedRisks(s)[n] = TotalRisk(plan[n].members)
  BY DEF PlannedLengths, PlannedRisks
<1> DEFINE lens == PlannedLengths(s)
           risks == PlannedRisks(s)
<1> HIDE DEF plan, D, place, P, lens, risks
<1>7. ASSUME NEW n \in D
      PROVE  lens[n] = Cardinality({i \in DOMAIN s : place[i] = n})
  <2>1. {i \in DOMAIN s : place[i] = n} = Cleared(s, plan[n].key)
    BY <1>3, <1>4
  <2>2. Len(At(s, Cleared(s, plan[n].key))) = Cardinality(Cleared(s, plan[n].key))
    BY <1>4, Picked
  <2>3. lens[n] = Len(At(s, Cleared(s, plan[n].key)))
    BY <1>3, <1>6 DEF lens
  <2>4. QED
    BY <2>1, <2>2, <2>3, Zenon
<1>8. ASSUME NEW n \in D
      PROVE  risks[n] = Cardinality({p \in P : class[p] = n})
  <2>1. {p \in P : class[p] = n} = {p \in P : p[1] \in Cleared(s, plan[n].key)}
    <3>1. \A p \in P : p[1] \in DOMAIN s /\ class[p] = place[p[1]]
      BY <1>5
    <3> HIDE DEF class
    <3>2. QED
      BY <1>3, <3>1
  <2>2. TotalRisk(At(s, Cleared(s, plan[n].key)))
        = Cardinality({p \in P : p[1] \in Cleared(s, plan[n].key)})
    BY <1>4, PickedRisk DEF P
  <2>3. risks[n] = TotalRisk(At(s, Cleared(s, plan[n].key)))
    BY <1>3, <1>6 DEF risks
  <2>4. QED
    BY <2>1, <2>2, <2>3, Zenon
<1>9. SumFunction(lens) = Len(s)
  <2>1. DOMAIN lens = D
    BY <1>6 DEF lens
  <2>2. SumFunction(lens) = Cardinality({i \in DOMAIN s : place[i] \in D})
    BY SMTT(30), <1>1, <1>2, <1>7, <2>1, CountByClass
  <2>3. {i \in DOMAIN s : place[i] \in D} = 1..Len(s)
    BY <1>1, <1>3
  <2>4. Cardinality(1..Len(s)) = Len(s)
    BY <1>1, CountTo
  <2>5. QED
    BY <2>2, <2>3, <2>4, Zenon
<1>10. SumFunction(risks) = TotalRisk(s)
  <2>1. DOMAIN risks = D
    BY <1>6 DEF risks
  <2>2. \A p \in P : class[p] \in D
    BY <1>3, <1>5
  <2> HIDE DEF class
  <2>3. SumFunction(risks) = Cardinality({p \in P : class[p] \in D})
    BY <1>2, <1>5, <1>8, <2>1, CountByClass
  <2>4. {p \in P : class[p] \in D} = P
    BY <2>2
  <2>5. QED
    BY <1>5, <2>3, <2>4, Zenon
<1>11. QED
  BY <1>9, <1>10 DEF lens, risks

Planned(s) == FlattenSeq([i \in DOMAIN Plan(s) |-> Plan(s)[i].members])

\* No entry of a report is left out of its plan, and none is in it twice.
LEMMA PlannedIs ==
    ASSUME NEW s, IsList(s), IsReport(s), Canonical(s)
    PROVE  Len(Planned(s)) = Len(s) /\ ToSet(Planned(s)) = ToSet(s)
<1> DEFINE plan == Plan(s)
           ss == [i \in DOMAIN plan |-> plan[i].members]
           place == PlaceInPlan(s)
<1>1. /\ \A i \in DOMAIN s : place[i] \in DOMAIN plan
      /\ \A n \in DOMAIN plan :
            /\ plan[n].members = At(s, Cleared(s, plan[n].key))
            /\ \A i \in DOMAIN s : place[i] = n <=> i \in Cleared(s, plan[n].key)
  BY PlacesAre
<1>2. \A k : Cleared(s, k) \in SUBSET DOMAIN s
  BY DEF Cleared
<1>3. DOMAIN plan = 1..Len(plan) /\ Len(plan) \in Nat
  BY PlanIs, ListIs
<1>4. Planned(s) = FlattenSeq(ss)
  BY DEF Planned
<1>5. PlannedLengths(s) = [i \in DOMAIN plan |-> Len(ss[i])]
  BY DEF PlannedLengths
<1> HIDE DEF plan, place
<1>6. IsList(ss) /\ DOMAIN ss = DOMAIN plan
  <2>1. \A n \in Nat : \A q : q = [i \in 1..n |-> plan[i].members] =>
           IsList(q) /\ DOMAIN q = 1..n
    BY DEF IsList
  <2>2. QED
    BY <1>3, <2>1
<1>7. \A n \in DOMAIN ss : ss[n] = At(s, Cleared(s, plan[n].key))
  BY <1>1, <1>6
<1> HIDE DEF ss
<1>8. \A n \in DOMAIN ss : IsList(ss[n])
  BY <1>2, <1>7, Picked
<1>9. /\ Len(FlattenSeq(ss)) = SumFunction([i \in DOMAIN ss |-> Len(ss[i])])
      /\ ToSet(FlattenSeq(ss)) = UNION {ToSet(ss[i]) : i \in DOMAIN ss}
  BY <1>6, <1>8, JoinedLength
<1>10. Len(FlattenSeq(ss)) = Len(s)
  <2>1. SumFunction(PlannedLengths(s)) = Len(s)
    BY PlanCounts
  <2>2. PlannedLengths(s) = [i \in DOMAIN ss |-> Len(ss[i])]
    BY <1>5, <1>6
  <2>3. QED
    BY <1>9, <2>1, <2>2, Zenon
<1>11. ASSUME NEW n \in DOMAIN ss
       PROVE  \A x : x \in ToSet(ss[n]) <=> \E i \in Cleared(s, plan[n].key) : s[i] = x
  <2> DEFINE I == Cleared(s, plan[n].key)
             q == At(s, I)
             order == InOrder(I)
  <2>1. /\ \A m \in DOMAIN q : order[m] \in I /\ q[m] = s[order[m]]
        /\ \A i \in I : \E m \in DOMAIN q : order[m] = i
    BY <1>2, Picked
  <2>2. \A x : x \in ToSet(q) <=> \E m \in DOMAIN q : q[m] = x
    BY DEF ToSet
  <2> HIDE DEF I, q, order
  <2>3. \A x : x \in ToSet(q) <=> \E i \in I : s[i] = x
    BY <2>1, <2>2
  <2>4. ss[n] = q
    BY <1>7 DEF q, I
  <2>5. QED
    BY <2>3, <2>4 DEF I
<1>12. \A x : x \in ToSet(FlattenSeq(ss)) <=> x \in ToSet(s)
  <2>1. \A x : x \in ToSet(FlattenSeq(ss)) <=> \E n \in DOMAIN ss : x \in ToSet(ss[n])
    BY <1>9
  <2>2. \A x : x \in ToSet(s) <=> \E i \in DOMAIN s : s[i] = x
    BY DEF ToSet
  <2>3. \A i \in DOMAIN s : \E n \in DOMAIN ss : i \in Cleared(s, plan[n].key)
    BY <1>1, <1>6
  <2>4. QED
    BY <1>2, <1>11, <2>1, <2>2, <2>3
<1>13. ToSet(FlattenSeq(ss)) = ToSet(s)
  BY <1>12
<1>14. QED
  BY <1>4, <1>10, <1>13, Zenon

\* Of two ranks the first cannot be that of an action for something not known to
\* be exploited if the second is that of one for something that is.
LEMMA ExploitedFirst ==
    ASSUME NEW s, IsList(s), IsReport(s), Canonical(s),
           NEW a \in Actions(s), NEW b \in Actions(s), ActionKev(b),
           Before(ActionRank(a), ActionRank(b))
    PROVE  ActionKev(a)
<1> DEFINE u == ActionRank(a)
           v == ActionRank(b)
<1>1. SUFFICES ASSUME ~ActionKev(a)
               PROVE  FALSE
  OBVIOUS
<1>2. u \in Seq(Int) /\ u[1] = 0 /\ v \in Seq(Int) /\ v[1] = -1
  BY <1>1, ActionRankIs
<1>3. Len(u) >= 4 /\ Len(u) \in Nat
  <2>1. Len(u) = 4 + Len(a.key) /\ Len(a.key) \in Nat
    BY ActionRankIs, ActionsAre
  <2> HIDE DEF u
  <2>2. QED
    BY <2>1
<1>4. Before(u, v)
  OBVIOUS
<1> HIDE DEF u, v
<1>5. PICK k \in 1..Len(v) : /\ \A j \in 1..(k - 1) : j <= Len(u) /\ u[j] = v[j]
                             /\ k > Len(u) \/ u[k] < v[k]
  BY <1>4 DEF Before
<1>6. k = 1 \/ 1 \in 1..(k - 1)
  OBVIOUS
<1>7. QED
  BY SMTT(30), <1>2, <1>3, <1>5, <1>6

LEMMA PickedThere ==
    ASSUME NEW s, IsList(s), NEW I \in SUBSET DOMAIN s, NEW i \in I
    PROVE  \E x \in DOMAIN At(s, I) : At(s, I)[x] = s[i]
<1>1. /\ \A x \in DOMAIN At(s, I) : At(s, I)[x] = s[InOrder(I)[x]]
      /\ \E x \in DOMAIN At(s, I) : InOrder(I)[x] = i
  BY Picked
<1>2. QED
  BY <1>1

\* Of a plan that is cut every entry known to be exploited is shown, if anything is
\* shown that is not.
LEMMA TopKeepsExploited ==
    ASSUME NEW s, IsList(s), IsReport(s), Canonical(s), NEW top \in Int,
           NEW i \in DOMAIN s, s[i].kev,
           NEW m \in DOMAIN Limited(Plan(s), top), ~ActionKev(Limited(Plan(s), top)[m])
    PROVE  \E n \in DOMAIN Limited(Plan(s), top) :
               \E j \in DOMAIN Limited(Plan(s), top)[n].members :
                   Limited(Plan(s), top)[n].members[j] = s[i]
<1> DEFINE plan == Plan(s)
           cut == Limited(plan, top)
           n == PlaceInPlan(s)[i]
           I == Cleared(s, plan[n].key)
<1>1. /\ IsList(plan)
      /\ \A k \in DOMAIN plan : plan[k] \in Actions(s)
      /\ \A j, k \in DOMAIN plan : j < k => Before(ActionRank(plan[j]), ActionRank(plan[k]))
  BY PlanIs
<1>2. n \in DOMAIN plan /\ plan[n].members = At(s, I) /\ i \in I
  BY PlacesAre
<1>3. I \in SUBSET DOMAIN s
  BY DEF Cleared
<1> HIDE DEF plan, n, I
<1>4. DOMAIN plan = 1..Len(plan) /\ Len(plan) \in Nat /\ plan \in Seq(Elements(plan))
  BY <1>1, ListIs
<1>5. \E l \in 0..Len(plan) : DOMAIN cut = 1..l /\ \A k \in 1..l : cut[k] = plan[k]
  <2>1. CASE top <= 0
    <3>1. cut = plan
      BY <2>1 DEF Limited
    <3> HIDE DEF cut
    <3>2. Len(plan) \in 0..Len(plan)
      BY <1>4
    <3>3. DOMAIN cut = 1..Len(plan) /\ \A k \in 1..Len(plan) : cut[k] = plan[k]
      BY <1>4, <3>1, Zenon
    <3>4. QED
      BY <3>2, <3>3
  <2>2. CASE ~(top <= 0)
    <3> DEFINE l == Min({top, Len(plan)})
    <3>1. l \in 0..Len(plan)
      <4>1. {top, Len(plan)} \in SUBSET Nat /\ {top, Len(plan)} # {}
        BY <1>4, <2>2
      <4>2. l \in {top, Len(plan)} /\ \A y \in {top, Len(plan)} : l <= y
        BY <4>1, MinOf
      <4> HIDE DEF l
      <4>3. l \in Nat /\ l <= Len(plan)
        BY <4>1, <4>2
      <4>4. QED
        BY <1>4, <4>3
    <3>2. cut = SubSeq(plan, 1, l)
      BY <2>2, Zenon DEF Limited
    <3> HIDE DEF l, cut
    <3>3. DOMAIN cut = 1..l /\ \A k \in 1..l : cut[k] = plan[k]
      BY <1>4, <3>1, <3>2
    <3>4. QED
      BY <3>1, <3>3
  <2>3. QED
    BY <2>1, <2>2
<1>6. m \in DOMAIN cut /\ ~ActionKev(cut[m])
  BY DEF plan
<1> HIDE DEF cut
<1>7. PICK l \in 0..Len(plan) : DOMAIN cut = 1..l /\ \A k \in 1..l : cut[k] = plan[k]
  BY <1>5
<1> DEFINE q == plan[n].members
<1> HIDE DEF q
<1>8. PICK j \in DOMAIN q : q[j] = s[i]
  <2>1. \E x \in DOMAIN At(s, I) : At(s, I)[x] = s[i]
    BY <1>2, <1>3, PickedThere
  <2>2. q = At(s, I)
    BY <1>2 DEF q
  <2>3. QED
    BY <2>1, <2>2, Zenon
<1>9. ActionKev(plan[n])
  <2>1. IsList(q)
    BY <1>2, <1>3, Picked DEF q
  <2> DEFINE K == {k \in DOMAIN q : q[k].kev}
  <2>2. j \in K
    BY <1>8
  <2>3. IsFiniteSet(K)
    <3>1. K \in SUBSET DOMAIN q
      OBVIOUS
    <3> HIDE DEF K
    <3>2. QED
      BY <2>1, <3>1, ListPlaces
  <2>4. Cardinality(K) \in Nat /\ Cardinality(K) # 0
    <3> HIDE DEF K
    <3>1. QED
      BY <2>2, <2>3, FS_CardinalityType, FS_EmptySet
  <2>5. KevCount(plan[n].members) = Cardinality(K)
    BY DEF KevCount, q
  <2> HIDE DEF K
  <2>6. QED
    BY <2>4, <2>5 DEF ActionKev
<1>10. n \in 1..l
  <2>1. SUFFICES ASSUME n \notin 1..l
                 PROVE  FALSE
    OBVIOUS
  <2>2. m \in DOMAIN plan /\ m < n /\ cut[m] = plan[m]
    BY <1>2, <1>4, <1>6, <1>7, <2>1
  <2>3. Before(ActionRank(plan[m]), ActionRank(plan[n]))
    BY <1>1, <1>2, <2>2
  <2>4. plan[m] \in Actions(s) /\ plan[n] \in Actions(s)
    BY <1>1, <1>2, <2>2
  <2>5. ActionKev(plan[m])
    BY <1>9, <2>3, <2>4, ExploitedFirst
  <2>6. QED
    BY <1>6, <2>2, <2>5
<1>11. n \in DOMAIN cut /\ cut[n].members = q
  BY <1>7, <1>10 DEF q
<1>12. QED
  BY <1>8, <1>11 DEF cut, plan

-----------------------------------------------------------------------------
(***************************************************************************)
(* The trend chart                                                          *)
(***************************************************************************)
\* However a scan's entries spread over the bands, and although every segment is
\* rounded for itself, a bar of the chart ends below the upper edge of the page,
\* its label included.
THEOREM ChartFits ==
    ASSUME NEW bands \in [Severity -> Nat], NEW maxTotal \in Nat \ {0},
           bands[0] + bands[1] + bands[2] + bands[3] + bands[4] <= maxTotal
    PROVE  LabelY(bands, maxTotal) >= 4
<1> DEFINE h(v) == SegmentHeight(bands[v], maxTotal)
           sum == h(0) + h(1) + h(2) + h(3) + h(4)
<1>1. \A v \in Severity : /\ bands[v] \in Nat
                          /\ h(v) \in Nat
                          /\ 2 * (maxTotal * h(v)) <= 440 * bands[v] + maxTotal
  <2> TAKE v \in Severity
  <2>1. bands[v] \in Nat /\ PlotHeight * bands[v] \in Nat
    BY DEF PlotHeight
  <2>2. /\ h(v) \in Nat
        /\ 2 * (maxTotal * h(v)) <= 2 * (PlotHeight * bands[v]) + maxTotal
    BY <2>1, RoundedDivBound DEF SegmentHeight
  <2> QED
    BY <2>1, <2>2 DEF PlotHeight
<1>2. /\ 0 \in Severity /\ 1 \in Severity /\ 2 \in Severity /\ 3 \in Severity /\ 4 \in Severity
  BY DEF Severity
<1>3. /\ h(0) \in Nat /\ h(1) \in Nat /\ h(2) \in Nat /\ h(3) \in Nat /\ h(4) \in Nat
      /\ sum \in Nat
  BY <1>1, <1>2
<1>4. 2 * (maxTotal * sum) <= 445 * maxTotal
  <2> HIDE DEF h
  <2> DEFINE p(v) == maxTotal * h(v)
  <2>1. maxTotal * sum = p(0) + p(1) + p(2) + p(3) + p(4)
    BY <1>3
  <2>2. /\ p(0) \in Nat /\ p(1) \in Nat /\ p(2) \in Nat /\ p(3) \in Nat /\ p(4) \in Nat
    BY <1>3
  <2>3. /\ 2 * p(0) <= 440 * bands[0] + maxTotal
        /\ 2 * p(1) <= 440 * bands[1] + maxTotal
        /\ 2 * p(2) <= 440 * bands[2] + maxTotal
        /\ 2 * p(3) <= 440 * bands[3] + maxTotal
        /\ 2 * p(4) <= 440 * bands[4] + maxTotal
    BY <1>1, <1>2
  <2>4. /\ bands[0] \in Nat /\ bands[1] \in Nat /\ bands[2] \in Nat
        /\ bands[3] \in Nat /\ bands[4] \in Nat
    BY <1>1, <1>2
  <2> HIDE DEF p, sum
  <2> QED
    BY <2>1, <2>2, <2>3, <2>4
<1>5. sum <= 222
  <2> SUFFICES ASSUME sum >= 223 PROVE FALSE
    BY <1>3
  <2> HIDE DEF sum
  <2>1. PICK k \in Nat : sum = 223 + k
    <3>1. sum - 223 \in Nat /\ sum = 223 + (sum - 223)
      BY <1>3
    <3> QED
      BY <3>1
  <2>2. maxTotal * sum = 223 * maxTotal + maxTotal * k /\ maxTotal * k \in Nat
    BY <2>1
  <2> QED
    BY <1>4, <2>2
<1>6. SegmentY(bands, 4, maxTotal) = BaselineY - sum
  BY DEF SegmentY
<1> HIDE DEF sum
<1> QED
  BY <1>3, <1>5, <1>6 DEF LabelY, BaselineY, TopPad, PlotHeight

=============================================================================
