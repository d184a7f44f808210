------------------------------ MODULE LoopsProofs ------------------------------
(* What a sum is, for sequences of any length: the least-number principle,  *)
(* that a running sum exists and obeys its recurrence, and how sums follow  *)
(* changes of the sequence.                                                 *)
EXTENDS Loops, FiniteSetTheorems, TLAPS

----------------------------------------------------------------------------
(* The least-number principle, from the well-founded order of finite sets,  *)
(* and induction on a set of numbers.                                       *)

LEMMA LeastNatural ==
    ASSUME NEW S, S \subseteq Nat, S # {}
    PROVE  \E m \in S : \A k \in S : m <= k
<1> DEFINE T == {0..k : k \in S}
<1>1. T \subseteq FiniteSubsetsOf(Nat)
  <2>1. \A k \in S : 0..k \subseteq Nat /\ IsFiniteSet(0..k)
    BY FS_Interval
  <2> QED
    BY <2>1 DEF FiniteSubsetsOf
<1>2. PICK I \in T : \A J \in T : <<J, I>> \notin StrictSubsetOrdering(Nat)
  <2>1. IsWellFoundedOn(StrictSubsetOrdering(Nat), FiniteSubsetsOf(Nat))
    BY FS_StrictSubsetOrderingWellFounded
  <2>2. T # {}
    OBVIOUS
  <2> HIDE DEF T
  <2> QED
    BY <1>1, <2>1, <2>2, WFMin
<1>3. PICK m \in S : I = 0..m
  OBVIOUS
<1>4. ASSUME NEW k \in S, k < m
      PROVE  FALSE
  <2>1. 0..k \subseteq 0..m /\ 0..k # 0..m /\ 0..k \in SUBSET Nat /\ 0..m \in SUBSET Nat
    BY <1>4
  <2>2. <<0..k, 0..m>> \in StrictSubsetOrdering(Nat)
    BY <2>1 DEF StrictSubsetOrdering
  <2> QED
    BY <1>2, <1>3, <2>2
<1> QED
  BY <1>3, <1>4

\* A set that has 0, and with each number up to n the next one, has them all.
LEMMA UpTo ==
    ASSUME NEW n \in Nat, NEW S, 0 \in S,
           \A k \in 0..n : k \in S /\ k < n => k + 1 \in S
    PROVE  \A k \in 0..n : k \in S
<1> DEFINE missing == {k \in 0..n : k \notin S}
<1> SUFFICES ASSUME missing # {} PROVE FALSE
  OBVIOUS
<1>1. PICK m \in missing : \A k \in missing : m <= k
  <2>1. missing \subseteq Nat
    OBVIOUS
  <2> QED
    BY <2>1, LeastNatural
<1>2. m \in 0..n /\ m \notin S /\ m # 0
  OBVIOUS
<1>3. m - 1 \in 0..n /\ m - 1 < n /\ m - 1 \notin missing
  BY <1>1, <1>2
<1>4. m - 1 \in S
  BY <1>3
<1> QED
  BY <1>2, <1>3, <1>4

----------------------------------------------------------------------------
(* The recurrence of the running sum.                                       *)

IsPartial(f, w, n) ==
    /\ f \in [0..n -> Int]
    /\ f[0] = 0
    /\ \A k \in 1..n : f[k] = f[k - 1] + w[k]

LEMMA PartialSums ==
    ASSUME NEW w \in Seq(Int)
    PROVE  /\ Partial(w)[0] = 0
           /\ \A k \in 0..Len(w) : Partial(w)[k] \in Int
           /\ \A k \in 0..Len(w) : k < Len(w) => Partial(w)[k + 1] = Partial(w)[k] + w[k + 1]
<1> DEFINE n == Len(w)
           S == {k \in 0..n : \E f : IsPartial(f, w, k)}
<1>1. n \in Nat /\ \A k \in 1..n : w[k] \in Int
  OBVIOUS
<1>2. 0 \in S
  <2>1. IsPartial([k \in 0..0 |-> 0], w, 0)
    BY DEF IsPartial
  <2> QED
    BY <1>1, <2>1
<1>3. ASSUME NEW k \in 0..n, k \in S, k < n
      PROVE  k + 1 \in S
  <2>1. PICK f : IsPartial(f, w, k)
    BY <1>3
  <2> DEFINE g == [i \in 0..(k + 1) |-> IF i <= k THEN f[i] ELSE f[k] + w[k + 1]]
  <2>2. IsPartial(g, w, k + 1)
    <3>1. g \in [0..(k + 1) -> Int]
      BY <1>1, <1>3, <2>1 DEF IsPartial
    <3>2. g[0] = 0
      BY <2>1 DEF IsPartial
    <3>3. ASSUME NEW i \in 1..(k + 1)
          PROVE  g[i] = g[i - 1] + w[i]
      <4>1. CASE i <= k
        <5>1. i \in 1..k /\ i - 1 \in 0..(k + 1) /\ i \in 0..(k + 1) /\ i - 1 <= k
          BY <4>1
        <5>2. g[i] = f[i] /\ g[i - 1] = f[i - 1]
          BY <4>1, <5>1
        <5> QED
          BY <2>1, <5>1, <5>2 DEF IsPartial
      <4>2. CASE i = k + 1
        <5>1. g[i] = f[k] + w[k + 1] /\ g[i - 1] = f[k]
          BY <4>2
        <5> QED
          BY <4>2, <5>1
      <4> QED
        BY <4>1, <4>2
    <3> QED
      BY <3>1, <3>2, <3>3 DEF IsPartial
  <2> QED
    BY <1>1, <1>3, <2>2
<1>4. n \in S
  <2> HIDE DEF S
  <2>1. \A k \in 0..n : k \in S
    BY <1>1, <1>2, <1>3, UpTo
  <2> QED
    BY <1>1, <2>1
<1>5. PICK f : IsPartial(f, w, n)
  BY <1>4
<1>6. f = [k \in 0..n |-> IF k = 0 THEN 0 ELSE f[k - 1] + w[k]]
  BY <1>5 DEF IsPartial
<1> DEFINE sum == Partial(w)
<1>7. sum = [k \in 0..n |-> IF k = 0 THEN 0 ELSE sum[k - 1] + w[k]]
  BY <1>6 DEF Partial
<1> HIDE DEF sum
<1>8. sum[0] = 0 /\ \A k \in 1..n : sum[k] = sum[k - 1] + w[k]
  BY <1>1, <1>7
<1>9. sum \in [0..n -> Int]
  <2> DEFINE V == {k \in 0..n : sum[k] \in Int}
  <2>1. 0 \in V
    BY <1>1, <1>8
  <2>2. ASSUME NEW k \in 0..n, k \in V, k < n
        PROVE  k + 1 \in V
    <3>1. k + 1 \in 1..n /\ sum[k + 1] = sum[k] + w[k + 1]
      BY <1>8, <2>2
    <3> QED
      BY <1>1, <2>2, <3>1
  <2>3. \A k \in 0..n : k \in V
    <3> HIDE DEF V
    <3> QED
      BY <1>1, <2>1, <2>2, UpTo
  <2>4. \A k \in 0..n : sum[k] \in Int
    BY <2>3
  <2> QED
    BY <1>7, <2>4
<1>10. ASSUME NEW k \in 0..n, k < n
       PROVE  sum[k + 1] = sum[k] + w[k + 1]
  <2>1. k + 1 \in 1..n /\ k + 1 - 1 = k
    BY <1>1, <1>10
  <2> QED
    BY <1>8, <2>1
<1> QED
  BY <1>8, <1>9, <1>10 DEF sum

\* The n elements of v after the first a are the first n of w.
Stretch(w, v, a, n) == \A i \in 1..n : v[a + i] = w[i]

\* Sums of equal stretches are equal, wherever the stretches stand.
LEMMA EqualStretches ==
    ASSUME NEW w \in Seq(Int), NEW v \in Seq(Int), NEW a \in Nat, NEW n \in Nat,
           n <= Len(w), a + n <= Len(v), Stretch(w, v, a, n)
    PROVE  Partial(v)[a + n] = Partial(v)[a] + Partial(w)[n]
<1> DEFINE f == Partial(w)
           g == Partial(v)
           S == {k \in 0..n : g[a + k] = g[a] + f[k]}
<1> DEFINE Follows(h, u) == /\ h[0] = 0
                            /\ \A k \in 0..Len(u) : h[k] \in Int
                            /\ \A k \in 0..Len(u) : k < Len(u) => h[k + 1] = h[k] + u[k + 1]
<1>0. Len(w) \in Nat /\ Len(v) \in Nat
  OBVIOUS
<1>1. /\ Follows(f, w) /\ Follows(g, v)
      /\ Len(w) \in Nat /\ Len(v) \in Nat
      /\ \A k \in 1..Len(w) : w[k] \in Int
      /\ a \in 0..Len(v)
  BY PartialSums
<1> HIDE DEF f, g
<1>2. 0 \in S
  <2>1. f[0] = 0 /\ g[a] \in Int /\ a + 0 = a
    BY <1>1
  <2> QED
    BY <2>1
<1>3. ASSUME NEW k \in 0..n, k \in S, k < n
      PROVE  k + 1 \in S
  <2>1. k + 1 \in 1..n /\ k + 1 \in 1..Len(w) /\ a + (k + 1) \in 1..Len(v)
        /\ k \in 0..Len(w) /\ k < Len(w)
    BY <1>0, <1>3
  <2>2. f[k + 1] = f[k] + w[k + 1] /\ f[k] \in Int /\ w[k + 1] \in Int
    BY <1>1, <2>1
  <2>3. g[a + (k + 1)] = g[a + k] + v[a + (k + 1)] /\ g[a] \in Int
    <3>1. a + k \in 0..Len(v) /\ a + k < Len(v) /\ a + k + 1 = a + (k + 1)
      BY <1>0, <2>1
    <3> QED
      BY <1>1, <3>1
  <2>4. v[a + (k + 1)] = w[k + 1]
    BY <2>1 DEF Stretch
  <2>5. g[a + k] = g[a] + f[k]
    BY <1>3
  <2>6. g[a + (k + 1)] = g[a] + f[k + 1]
    <3> HIDE DEF S, Follows
    <3>1. g[a + (k + 1)] = (g[a] + f[k]) + w[k + 1]
      BY <2>3, <2>4, <2>5
    <3>2. \A x, y, z \in Int : (x + y) + z = x + (y + z)
      OBVIOUS
    <3>3. (g[a] + f[k]) + w[k + 1] = g[a] + (f[k] + w[k + 1])
      BY <2>2, <2>3, <3>2
    <3> QED
      BY <2>2, <3>1, <3>3
  <2> QED
    BY <1>3, <2>1, <2>6
<1>4. n \in S
  <2> HIDE DEF S
  <2>1. \A k \in 0..n : k \in S
    BY <1>2, <1>3, UpTo
  <2> QED
    BY <2>1
<1> QED
  BY <1>4 DEF f, g

\* The sum of numbers that are not negative grows from one end to the other.
LEMMA PartialGrows ==
    ASSUME NEW w \in Seq(Nat)
    PROVE  \A n \in 0..Len(w) : Partial(w)[n] \in Nat /\ Partial(w)[n] <= Total(w)
<1> DEFINE f == Partial(w)
           S == {k \in 0..Len(w) : f[k] \in Nat}
           G == {k \in 0..Len(w) : f[Len(w) - k] <= f[Len(w)]}
<1>1. /\ f[0] = 0
      /\ \A k \in 0..Len(w) : f[k] \in Int
      /\ \A k \in 0..Len(w) : k < Len(w) => f[k + 1] = f[k] + w[k + 1]
      /\ Len(w) \in Nat /\ \A k \in 1..Len(w) : w[k] \in Nat
  <2>1. w \in Seq(Int)
    OBVIOUS
  <2> QED
    BY <2>1, PartialSums
<1> HIDE DEF f
<1>2. \A k \in 0..Len(w) : k \in S
  <2>1. 0 \in S
    BY <1>1
  <2>2. ASSUME NEW k \in 0..Len(w), k \in S, k < Len(w)
        PROVE  k + 1 \in S
    <3>1. k + 1 \in 1..Len(w) /\ k \in Nat /\ f[k + 1] = f[k] + w[k + 1]
      BY <1>1, <2>2
    <3> QED
      BY <1>1, <2>2, <3>1
  <2> HIDE DEF S
  <2> QED
    BY <1>1, <2>1, <2>2, UpTo
<1>3. \A k \in 0..Len(w) : k \in G
  <2>1. 0 \in G
    BY <1>1
  <2>2. ASSUME NEW k \in 0..Len(w), k \in G, k < Len(w)
        PROVE  k + 1 \in G
    <3> DEFINE m == Len(w) - (k + 1)
    <3>1. m \in 0..Len(w) /\ m < Len(w) /\ m + 1 = Len(w) - k /\ m + 1 \in 1..Len(w)
      BY <1>1, <2>2
    <3>3. f[Len(w) - k] <= f[Len(w)]
      BY <2>2
    <3> HIDE DEF m
    <3>2. f[m + 1] = f[m] + w[m + 1] /\ f[m] \in Int /\ f[Len(w)] \in Int /\ w[m + 1] \in Nat
      BY <1>1, <3>1
    <3>4. f[m] <= f[Len(w)]
      <4>1. f[m + 1] <= f[Len(w)]
        BY <3>1, <3>3
      <4> QED
        BY <3>2, <4>1
    <3>5. f[Len(w) - (k + 1)] <= f[Len(w)]
      BY <3>4 DEF m
    <3> QED
      BY <1>1, <2>2, <3>5
  <2> HIDE DEF G
  <2> QED
    BY <1>1, <2>1, <2>2, UpTo
<1>4. ASSUME NEW n \in 0..Len(w)
      PROVE  f[n] \in Nat /\ f[n] <= f[Len(w)]
  <2>1. Len(w) - n \in 0..Len(w) /\ Len(w) - (Len(w) - n) = n
    BY <1>1
  <2> QED
    BY <1>2, <1>3, <2>1
<1> QED
  BY <1>4 DEF Total, f

----------------------------------------------------------------------------
(* Stable sorts.                                                            *)

\* o is S without repetition, in the order of the keys.
Sorts(o, S, key) ==
    /\ Cardinality(S) \in Nat
    /\ o \in [1..Cardinality(S) -> S]
    /\ \A i \in S : \E r \in 1..Cardinality(S) : o[r] = i
    /\ \A r, s \in 1..Cardinality(S) : r < s => Before(key, o[r], o[s]) /\ o[r] # o[s]

\* The number of positions up to i tells the positions apart and orders them.
LEMMA PlacesAreOrdered ==
    ASSUME NEW S, IsFiniteSet(S), S \subseteq Int, NEW key, \A i \in S : key[i] \in Int,
           NEW a \in S, NEW b \in S, Before(key, a, b), a # b
    PROVE  Cardinality({j \in S : Before(key, j, a)}) < Cardinality({j \in S : Before(key, j, b)})
<1> DEFINE A == {j \in S : Before(key, j, a)}
           B == {j \in S : Before(key, j, b)}
<1>1. IsFiniteSet(B) /\ A \in SUBSET B /\ b \in B /\ b \notin A
  <2>1. IsFiniteSet(B)
    BY FS_Subset
  <2>2. \A j \in A : j \in B
    <3> SUFFICES ASSUME NEW j \in S, Before(key, j, a)
                 PROVE  Before(key, j, b)
      OBVIOUS
    <3>1. key[j] \in Int /\ key[a] \in Int /\ key[b] \in Int /\ j \in Int /\ a \in Int /\ b \in Int
      OBVIOUS
    <3> QED
      BY <3>1 DEF Before
  <2>3. b \in B /\ b \notin A
    <3>1. key[a] \in Int /\ key[b] \in Int /\ a \in Int /\ b \in Int
      OBVIOUS
    <3> QED
      BY <3>1 DEF Before
  <2> QED
    BY <2>1, <2>2, <2>3
<1>2. Cardinality(A) \in Nat /\ Cardinality(B) \in Nat /\ Cardinality(A) <= Cardinality(B)
      /\ Cardinality(A) # Cardinality(B)
  <2> HIDE DEF A, B
  <2>1. IsFiniteSet(A)
    BY <1>1, FS_Subset
  <2> QED
    BY <1>1, <2>1, FS_Subset, FS_CardinalityType
<1> QED
  BY <1>2

LEMMA StableOrderSorts ==
    ASSUME NEW S, IsFiniteSet(S), S \subseteq Int, NEW key, \A i \in S : key[i] \in Int
    PROVE  Sorts(StableOrder(S, key), S, key)
<1> DEFINE n == Cardinality(S)
           place == [i \in S |-> Cardinality({j \in S : Before(key, j, i)})]
           o == StableOrder(S, key)
<1>1. n \in Nat /\ IsFiniteSet(1..n) /\ Cardinality(1..n) = n
  <2>1. n \in Nat
    BY FS_CardinalityType
  <2> QED
    BY <2>1, FS_Interval
<1>2. place \in [S -> 1..n]
  <2> SUFFICES ASSUME NEW i \in S
               PROVE  Cardinality({j \in S : Before(key, j, i)}) \in 1..n
    OBVIOUS
  <2> DEFINE A == {j \in S : Before(key, j, i)}
  <2>1. A \in SUBSET S /\ i \in A
    BY DEF Before
  <2> HIDE DEF A
  <2>2. IsFiniteSet(A) /\ Cardinality(A) <= n
    BY <2>1, FS_Subset
  <2>3. Cardinality(A) \in Nat /\ Cardinality(A) # 0
    BY <2>1, <2>2, FS_CardinalityType, FS_EmptySet
  <2> QED
    BY <1>1, <2>2, <2>3 DEF A
<1>3. \A a, b \in S : a # b => Before(key, a, b) \/ Before(key, b, a)
  BY DEF Before
<1>4. ASSUME NEW a \in S, NEW b \in S, a # b, Before(key, a, b)
      PROVE  place[a] < place[b]
  <2>1. Cardinality({j \in S : Before(key, j, a)}) < Cardinality({j \in S : Before(key, j, b)})
    BY <1>4, PlacesAreOrdered
  <2> QED
    BY <2>1
<1>5. \A a, b \in S : place[a] = place[b] => a = b
  <2> SUFFICES ASSUME NEW a \in S, NEW b \in S, place[a] = place[b], a # b
               PROVE  FALSE
    OBVIOUS
  <2>1. place[a] < place[b] \/ place[b] < place[a]
    BY <1>3, <1>4
  <2>2. place[a] \in Int /\ place[b] \in Int
    BY <1>1, <1>2
  <2> HIDE DEF place
  <2> QED
    BY <2>1, <2>2
<1> HIDE DEF place
<1>6. \A r \in 1..n : \E i \in S : place[i] = r
  <2>1. place \in Injection(S, 1..n)
    BY <1>2, <1>5 DEF Injection, IsInjective
  <2>2. place \in Surjection(S, 1..n)
    BY <1>1, <2>1, FS_Injection
  <2> QED
    BY <2>2 DEF Surjection
<1>7. \A r \in 1..n : o[r] \in S /\ place[o[r]] = r
  <2> SUFFICES ASSUME NEW r \in 1..n
               PROVE  o[r] \in S /\ place[o[r]] = r
    OBVIOUS
  <2>1. o[r] = CHOOSE i \in S : Cardinality({j \in S : Before(key, j, i)}) = r
    BY DEF StableOrder
  <2>2. \E i \in S : Cardinality({j \in S : Before(key, j, i)}) = r
    BY <1>6 DEF place
  <2> QED
    BY <2>1, <2>2 DEF place
<1>8. o \in [1..n -> S]
  <2> DEFINE Ranked(r) == CHOOSE i \in S : Cardinality({j \in S : Before(key, j, i)}) = r
  <2>2. o = [r \in 1..n |-> Ranked(r)]
    BY DEF StableOrder
  <2> HIDE DEF Ranked, o
  <2>1. o = [r \in 1..n |-> o[r]]
    BY <2>2
  <2> HIDE DEF o
  <2> QED
    BY <1>7, <2>1
<1> HIDE DEF o
<1>9. \A i \in S : \E r \in 1..n : o[r] = i
  <2> SUFFICES ASSUME NEW i \in S
               PROVE  o[place[i]] = i /\ place[i] \in 1..n
    OBVIOUS
  <2> QED
    BY <1>2, <1>5, <1>7
<1>10. ASSUME NEW r \in 1..n, NEW s \in 1..n, r < s
       PROVE  Before(key, o[r], o[s]) /\ o[r] # o[s]
  <2>1. o[r] \in S /\ o[s] \in S /\ place[o[r]] = r /\ place[o[s]] = s
    BY <1>7
  <2>2. o[r] # o[s] /\ ~(place[o[s]] < place[o[r]])
    BY <1>1, <1>10, <2>1
  <2> QED
    BY <1>3, <1>4, <2>1, <2>2
<1> QED
  BY <1>1, <1>8, <1>9, <1>10 DEF Sorts, o

\* What is in order stays as it is.
LEMMA SortedStays ==
    ASSUME NEW n \in Nat, NEW key, \A i \in 1..n : key[i] \in Int,
           \A i, j \in 1..n : i < j => key[i] <= key[j]
    PROVE  StableOrder(1..n, key) = [r \in 1..n |-> r]
<1>1. IsFiniteSet(1..n) /\ Cardinality(1..n) = n
  BY FS_Interval
<1>2. ASSUME NEW i \in 1..n
      PROVE  Cardinality({j \in 1..n : Before(key, j, i)}) = i
  <2>1. ASSUME NEW j \in 1..n
        PROVE  Before(key, j, i) <=> j <= i
    <3>1. key[i] \in Int /\ key[j] \in Int
      OBVIOUS
    <3>2. i < j => key[i] <= key[j]
      OBVIOUS
    <3>3. j < i => key[j] <= key[i]
      OBVIOUS
    <3> QED
      BY <3>1, <3>2, <3>3 DEF Before
  <2>2. {j \in 1..n : Before(key, j, i)} = 1..i
    BY <2>1
  <2>3. Cardinality(1..i) = i
    BY FS_Interval
  <2> QED
    BY <2>2, <2>3
<1>3. ASSUME NEW r \in 1..n
      PROVE  StableOrder(1..n, key)[r] = r
  <2>1. StableOrder(1..n, key)[r]
          = CHOOSE i \in 1..n : Cardinality({j \in 1..n : Before(key, j, i)}) = r
    BY <1>1 DEF StableOrder
  <2>2. \A i \in 1..n : Cardinality({j \in 1..n : Before(key, j, i)}) = r <=> i = r
    BY <1>2
  <2> QED
    BY <2>1, <2>2
<1> QED
  BY <1>1, <1>3 DEF StableOrder

\* The elements at some positions of a sequence are a sequence of them.
LEMMA KeptIsASequence ==
    ASSUME NEW T, NEW w \in Seq(T), NEW S \in SUBSET DOMAIN w
    PROVE  /\ Kept(w, S) \in Seq(T)
           /\ \A r \in DOMAIN Kept(w, S) : \E i \in S : Kept(w, S)[r] = w[i]
<1> DEFINE key == [i \in S |-> i]
           o == StableOrder(S, key)
           n == Cardinality(S)
<1>1. IsFiniteSet(S) /\ S \subseteq Int /\ \A i \in S : key[i] \in Int
  <2>1. Len(w) \in Nat /\ DOMAIN w = 1..Len(w)
    OBVIOUS
  <2>2. IsFiniteSet(1..Len(w))
    BY <2>1, FS_Interval
  <2> QED
    BY <2>1, <2>2, FS_Subset
<1>2. Sorts(o, S, key)
  BY <1>1, StableOrderSorts
<1>3. n \in Nat /\ o \in [1..n -> S]
  BY <1>2 DEF Sorts
<1>4. Kept(w, S) = [r \in 1..n |-> w[o[r]]]
  BY <1>3 DEF Kept
<1> HIDE DEF o, key, n
<1>5. \A r \in 1..n : w[o[r]] \in T /\ o[r] \in S
  BY <1>3
<1>6. DOMAIN Kept(w, S) = 1..n
  BY <1>4
<1>7. Kept(w, S) \in Seq(T)
  BY <1>3, <1>4, <1>5
<1> QED
  BY <1>4, <1>5, <1>6, <1>7

\* To keep all is to keep the sequence.
LEMMA KeptAll ==
    ASSUME NEW T, NEW w \in Seq(T)
    PROVE  Kept(w, DOMAIN w) = w
<1> DEFINE n == Len(w)
           key == [i \in 1..n |-> i]
<1>1. n \in Nat /\ DOMAIN w = 1..n /\ w = [r \in 1..n |-> w[r]]
  OBVIOUS
<1> HIDE DEF n
<1>2. StableOrder(1..n, key) = [r \in 1..n |-> r]
  BY <1>1, SortedStays
<1>3. Kept(w, DOMAIN w) = [r \in 1..n |-> w[r]]
  BY <1>1, <1>2 DEF Kept
<1> QED
  BY <1>1, <1>3

----------------------------------------------------------------------------
(* Comparing sums.                                                          *)

LEMMA TotalTyped ==
    ASSUME NEW w \in Seq(Int)
    PROVE  Total(w) \in Int
<1>1. Len(w) \in 0..Len(w)
  OBVIOUS
<1> QED
  BY <1>1, PartialSums DEF Total

LEMMA TotalNatural ==
    ASSUME NEW w \in Seq(Nat)
    PROVE  Total(w) \in Nat
<1>1. Len(w) \in 0..Len(w)
  OBVIOUS
<1> QED
  BY <1>1, PartialGrows DEF Total

\* Element by element at most c times as much is at most c times as much in all.
LEMMA TotalBounded ==
    ASSUME NEW w \in Seq(Int), NEW v \in Seq(Int), Len(w) = Len(v), NEW c \in Int,
           \A i \in 1..Len(w) : w[i] <= c * v[i]
    PROVE  Total(w) <= c * Total(v)
<1> DEFINE f == Partial(w)
           g == Partial(v)
           n == Len(w)
           S == {k \in 0..n : f[k] <= c * g[k]}
<1>1. n \in Nat /\ \A k \in 1..n : w[k] \in Int /\ v[k] \in Int
  OBVIOUS
<1>2. /\ f[0] = 0 /\ g[0] = 0
      /\ \A k \in 0..n : f[k] \in Int /\ g[k] \in Int
      /\ \A k \in 0..n : k < n => f[k + 1] = f[k] + w[k + 1] /\ g[k + 1] = g[k] + v[k + 1]
  BY PartialSums
<1> HIDE DEF f, g
<1>3. 0 \in S
  BY <1>1, <1>2
<1>4. ASSUME NEW k \in 0..n, k \in S, k < n
      PROVE  k + 1 \in S
  <2>1. /\ f[k] \in Int /\ g[k] \in Int /\ w[k + 1] \in Int /\ v[k + 1] \in Int
        /\ f[k + 1] = f[k] + w[k + 1] /\ g[k + 1] = g[k] + v[k + 1]
        /\ w[k + 1] <= c * v[k + 1] /\ k + 1 \in 0..n
    BY <1>1, <1>2, <1>4
  <2>2. f[k] <= c * g[k]
    BY <1>4
  <2>3. \A x, y, a, b \in Int : x <= c * y /\ a <= c * b => x + a <= c * (y + b)
    <3>1. \A y, b \in Int : c * (y + b) = c * y + c * b /\ c * y \in Int /\ c * b \in Int
      OBVIOUS
    <3> QED
      BY <3>1
  <2>4. f[k] + w[k + 1] <= c * (g[k] + v[k + 1])
    BY <2>1, <2>2, <2>3
  <2> QED
    BY <2>1, <2>4
<1>5. n \in S
  <2> HIDE DEF S, n
  <2>1. \A k \in 0..n : k \in S
    BY <1>1, <1>3, <1>4, UpTo
  <2> QED
    BY <1>1, <2>1
<1> QED
  BY <1>5 DEF Total, f, g

LEMMA TotalBoundedBelow ==
    ASSUME NEW w \in Seq(Int), NEW v \in Seq(Int), Len(w) = Len(v), NEW c \in Int,
           \A i \in 1..Len(w) : w[i] >= c * v[i]
    PROVE  Total(w) >= c * Total(v)
<1> DEFINE f == Partial(w)
           g == Partial(v)
           n == Len(w)
           S == {k \in 0..n : f[k] >= c * g[k]}
<1>1. n \in Nat /\ \A k \in 1..n : w[k] \in Int /\ v[k] \in Int
  OBVIOUS
<1>2. /\ f[0] = 0 /\ g[0] = 0
      /\ \A k \in 0..n : f[k] \in Int /\ g[k] \in Int
      /\ \A k \in 0..n : k < n => f[k + 1] = f[k] + w[k + 1] /\ g[k + 1] = g[k] + v[k + 1]
  BY PartialSums
<1> HIDE DEF f, g
<1>3. 0 \in S
  BY <1>1, <1>2
<1>4. ASSUME NEW k \in 0..n, k \in S, k < n
      PROVE  k + 1 \in S
  <2>1. /\ f[k] \in Int /\ g[k] \in Int /\ w[k + 1] \in Int /\ v[k + 1] \in Int
        /\ f[k + 1] = f[k] + w[k + 1] /\ g[k + 1] = g[k] + v[k + 1]
        /\ w[k + 1] >= c * v[k + 1] /\ k + 1 \in 0..n
    BY <1>1, <1>2, <1>4
  <2>2. f[k] >= c * g[k]
    BY <1>4
  <2>3. \A x, y, a, b \in Int : x >= c * y /\ a >= c * b => x + a >= c * (y + b)
    <3>1. \A y, b \in Int : c * (y + b) = c * y + c * b /\ c * y \in Int /\ c * b \in Int
      OBVIOUS
    <3> QED
      BY <3>1
  <2>4. f[k] + w[k + 1] >= c * (g[k] + v[k + 1])
    BY <2>1, <2>2, <2>3
  <2> QED
    BY <2>1, <2>4
<1>5. n \in S
  <2> HIDE DEF S, n
  <2>1. \A k \in 0..n : k \in S
    BY <1>1, <1>3, <1>4, UpTo
  <2> QED
    BY <1>1, <2>1
<1> QED
  BY <1>5 DEF Total, f, g

\* In other units, every element and so the sum is another number of them.
LEMMA TotalScaled ==
    ASSUME NEW w \in Seq(Int), NEW v \in Seq(Int), Len(w) = Len(v), NEW c \in Int,
           \A i \in 1..Len(w) : w[i] = c * v[i]
    PROVE  Total(w) = c * Total(v)
<1>1. Len(w) \in Nat /\ \A i \in 1..Len(w) : w[i] \in Int /\ v[i] \in Int
  OBVIOUS
<1>2. (\A i \in 1..Len(w) : w[i] <= c * v[i]) /\ (\A i \in 1..Len(w) : w[i] >= c * v[i])
  BY <1>1
<1>3. Total(w) <= c * Total(v) /\ Total(w) >= c * Total(v)
  BY <1>2, TotalBounded, TotalBoundedBelow
<1>4. Total(w) \in Int /\ Total(v) \in Int
  BY TotalTyped
<1>5. \A x, y \in Int : x <= c * y /\ x >= c * y => x = c * y
  OBVIOUS
<1> QED
  BY <1>3, <1>4, <1>5

\* Later sums of numbers that are not negative are no smaller.
LEMMA PartialMonotone ==
    ASSUME NEW w \in Seq(Nat), NEW m \in 0..Len(w)
    PROVE  \A k \in 0..m : Partial(w)[k] <= Partial(w)[m]
<1> DEFINE f == Partial(w)
           S == {k \in 0..Len(w) : \A j \in 0..k : f[j] <= f[k]}
<1>1. /\ \A k \in 0..Len(w) : f[k] \in Int
      /\ \A k \in 0..Len(w) : k < Len(w) => f[k + 1] = f[k] + w[k + 1]
      /\ Len(w) \in Nat /\ \A k \in 1..Len(w) : w[k] \in Nat
  <2>1. w \in Seq(Int)
    OBVIOUS
  <2> QED
    BY <2>1, PartialSums
<1> HIDE DEF f
<1>2. 0 \in S
  BY <1>1
<1>3. ASSUME NEW k \in 0..Len(w), k \in S, k < Len(w)
      PROVE  k + 1 \in S
  <2>1. k \in Nat /\ k + 1 \in 1..Len(w) /\ f[k + 1] = f[k] + w[k + 1]
    BY <1>1, <1>3
  <2>2. f[k] <= f[k + 1]
    BY <1>1, <2>1
  <2>3. ASSUME NEW j \in 0..(k + 1)
        PROVE  f[j] <= f[k + 1]
    <3>1. CASE j = k + 1
      BY <1>1, <2>1, <3>1
    <3>2. CASE j # k + 1
      <4>1. j \in 0..k /\ j \in 0..Len(w)
        BY <2>1, <3>2
      <4> QED
        BY <1>1, <1>3, <2>1, <2>2, <4>1
    <3> QED
      BY <3>1, <3>2
  <2> QED
    BY <1>1, <2>1, <2>3
<1>4. \A k \in 0..Len(w) : k \in S
  <2> HIDE DEF S
  <2> QED
    BY <1>1, <1>2, <1>3, UpTo
<1> QED
  BY <1>4 DEF f

\* A stretch of equal elements adds so many times one of them.
LEMMA ConstantStretch ==
    ASSUME NEW w \in Seq(Int), NEW a \in Nat, NEW n \in Nat, a + n <= Len(w),
           NEW c \in Int, \A i \in (a + 1)..(a + n) : w[i] = c
    PROVE  Partial(w)[a + n] = Partial(w)[a] + n * c
<1> DEFINE f == Partial(w)
           S == {k \in 0..n : f[a + k] = f[a] + k * c}
<1>1. /\ \A k \in 0..Len(w) : f[k] \in Int
      /\ \A k \in 0..Len(w) : k < Len(w) => f[k + 1] = f[k] + w[k + 1]
      /\ Len(w) \in Nat
  BY PartialSums
<1> HIDE DEF f
<1>2. 0 \in S
  <2>1. a \in 0..Len(w) /\ a + 0 = a /\ 0 * c = 0
    BY <1>1
  <2> QED
    BY <1>1, <2>1
<1>3. ASSUME NEW k \in 0..n, k \in S, k < n
      PROVE  k + 1 \in S
  <2>1. /\ k \in Nat /\ a + k \in 0..Len(w) /\ a + k < Len(w)
        /\ (a + k) + 1 = a + (k + 1) /\ (a + k) + 1 \in (a + 1)..(a + n)
        /\ k + 1 \in 0..n /\ a \in 0..Len(w)
    BY <1>1, <1>3
  <2>2. f[a + (k + 1)] = f[a + k] + w[(a + k) + 1] /\ w[(a + k) + 1] = c
    BY <1>1, <2>1
  <2>3. f[a + k] = f[a] + k * c /\ f[a] \in Int
    BY <1>1, <1>3, <2>1
  <2>4. (k + 1) * c = k * c + c /\ k * c \in Int
    BY <2>1
  <2> QED
    BY <2>1, <2>2, <2>3, <2>4
<1>4. n \in S
  <2> HIDE DEF S
  <2>1. \A k \in 0..n : k \in S
    BY <1>2, <1>3, UpTo
  <2> QED
    BY <2>1
<1> QED
  BY <1>4 DEF f
===============================================================================
