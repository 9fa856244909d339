----------------------------- MODULE RatesProofs -----------------------------
(***************************************************************************)
(* Proofs about behavioural conditions, for any resolvers, traffic,         *)
(* attendance, retention, migrated readings and number of runs.             *)
(*                                                                         *)
(* The inductive invariant says of the stored runs: they are in the order   *)
(* of their times; what counters do not tell of a resolver's traffic grows  *)
(* from exact reading to exact reading; and no migrated inexact reading is  *)
(* forgotten.  What an evaluation used follows from it step by step.        *)
(***************************************************************************)
EXTENDS Rates, FiniteSetTheorems, WellFoundedInduction, TLAPS

TypeOK ==
    /\ now \in Int /\ committed \in Nat
    /\ counter \in [Member -> Counts] /\ total \in [Member -> Counts]
    /\ IsStore(runs) /\ IsStore(origin)

\* Runs are numbered in the order of their times, up to now.
InOrder ==
    /\ \A i \in DOMAIN runs : i <= committed /\ runs[i].time <= now
    /\ \A i, j \in DOMAIN runs : i <= j => runs[i].time <= runs[j].time

\* What the counters of a resolver do not tell of its traffic grows.
UntoldGrows ==
    \A t \in Member : \A i \in Exact(runs, t) :
        /\ AtLeast(Minus(total[t], counter[t]), Untold(runs, i, t))
        /\ \A j \in Exact(runs, t) : i <= j => AtLeast(Untold(runs, j, t), Untold(runs, i, t))

\* Every migrated inexact reading is still covered by a stored one.
BarriersAreKept ==
    \A t \in Member : \A i \in Inexact(origin, t) : \E j \in Inexact(runs, t) : i <= j

StoreInv == TypeOK /\ InOrder /\ UntoldGrows /\ BarriersAreKept

IInv ==
    /\ StoreInv
    /\ NeverOvercounts /\ NoWindowBridgesABarrier
    /\ VerdictsAreSupported /\ AlarmsAreExceptional

-----------------------------------------------------------------------------
(* Finite sets of numbers.                                                  *)

LEMMA LeastNumber ==
    ASSUME NEW T \in SUBSET Nat, T # {}
    PROVE  \E n \in T : \A m \in T : n <= m
<1> DEFINE Less == {p \in Nat \X Nat : p[1] < p[2]}
<1>1. IsWellFoundedOn(Less, Nat)
  BY NatLessThanWellFounded, Zenon DEF OpToRel
<1>2. \E n \in T : \A m \in T : ~(<<m, n>> \in Less)
  <2> HIDE DEF Less
  <2> QED  BY <1>1, WFMin
<1>3. \A m, n \in Nat : m < n => <<m, n>> \in Less
  OBVIOUS
<1>4. PICK n \in T : \A m \in T : ~(<<m, n>> \in Less)
  BY <1>2
<1>5. ASSUME NEW m \in T
      PROVE  n <= m
  <2> HIDE DEF Less
  <2>1. m \in Nat /\ n \in Nat /\ ~(m < n)
    BY <1>3, <1>4
  <2> QED  BY <2>1
<1> QED
  BY <1>5

(* The number of elements that satisfy less is not greater.                *)
LEMMA SmallerPart ==
    ASSUME NEW S, IsFiniteSet(S), NEW T \in SUBSET S
    PROVE  /\ IsFiniteSet(T) /\ Cardinality(T) \in Nat /\ Cardinality(S) \in Nat
           /\ Cardinality(T) <= Cardinality(S)
           /\ T # S => Cardinality(T) < Cardinality(S)
BY FS_Subset, FS_CardinalityType

(* From every element of a finite set there is a way to the newest one.    *)
LEMMA NewestCovers ==
    ASSUME NEW S \in SUBSET Int, IsFiniteSet(S), NEW i \in S
    PROVE  \E b \in Newest(S) : i <= b
<1> DEFINE Later(k) == {j \in S : j > k}
           Counted == {Cardinality(Later(k)) : k \in {k \in S : i <= k}}
<1>1. \A k \in S : IsFiniteSet(Later(k)) /\ Cardinality(Later(k)) \in Nat
  BY SmallerPart
<1>2. PICK n \in Counted : \A m \in Counted : n <= m
  <2>1. Cardinality(Later(i)) \in Counted  OBVIOUS
  <2>2. Counted \in SUBSET Nat  BY <1>1
  <2> HIDE DEF Counted
  <2> QED  BY <2>1, <2>2, LeastNumber
<1>3. PICK k \in S : i <= k /\ n = Cardinality(Later(k))
  BY <1>2
<1>4. ASSUME NEW j \in S, j > k
      PROVE  FALSE
  <2>1. Later(j) \in SUBSET Later(k) /\ j \in Later(k) /\ j \notin Later(j)
    <3>1. j \in Int /\ k \in Int /\ k < j /\ ~(j < j)  BY <1>4
    <3>2. \A l \in S : l > j => l > k  BY <3>1
    <3> QED  BY <1>4, <3>1, <3>2
  <2>2. Cardinality(Later(j)) < Cardinality(Later(k))
    <3> HIDE DEF Later
    <3> QED  BY <1>1, <2>1, SmallerPart
  <2>3. Cardinality(Later(j)) \in Counted
    <3>1. i <= j  BY <1>3, <1>4
    <3> HIDE DEF Later
    <3> QED  BY <3>1
  <2> HIDE DEF Later, Counted
  <2> QED
    BY <1>1, <1>2, <1>3, <2>2, <2>3
<1> QED
  BY <1>3, <1>4 DEF Newest

(* A finite set of numbers that is not empty has an oldest element.        *)
LEMMA OldestExists ==
    ASSUME NEW S \in SUBSET Int, IsFiniteSet(S), S # {}
    PROVE  \E b \in S : b \in Oldest(S)
<1> DEFINE N == {0 - i : i \in S}
<1>1. N \in SUBSET Int /\ N # {}
  <2>1. \A i \in S : 0 - i \in Int /\ 0 - i \in N  OBVIOUS
  <2> QED  BY <2>1
<1>2. IsFiniteSet(N)
  <2> DEFINE f == [i \in S |-> 0 - i]
  <2>1. f \in Surjection(S, N)
    BY DEF Surjection
  <2> HIDE DEF f, N
  <2> QED  BY <2>1, FS_Surjection
<1>3. PICK b \in Newest(N) : TRUE
  <2> HIDE DEF N
  <2> QED  BY <1>1, <1>2, NewestCovers
<1>4. b \in N /\ \A n \in N : n <= b
  BY DEF Newest
<1>5. PICK i \in S : b = 0 - i
  BY <1>4
<1>6. \A j \in S : 0 - j <= b
  BY <1>4
<1> QED
  BY <1>5, <1>6 DEF Oldest

-----------------------------------------------------------------------------
(* Sums.  A fold goes through the subsets of a set; that there is a function *)
(* of them that does is shown from the smallest subset for which there is   *)
(* none.                                                                    *)

LEMMA SmallestSubset ==
    ASSUME NEW S, IsFiniteSet(S), NEW B \in SUBSET (SUBSET S), B # {}
    PROVE  \E T \in B : \A U \in B : U \subseteq T => U = T
<1> DEFINE Sizes == {Cardinality(T) : T \in B}
<1>1. \A T \in B : IsFiniteSet(T) /\ Cardinality(T) \in Nat
  BY SmallerPart
<1>2. Sizes \in SUBSET Nat /\ Sizes # {}
  BY <1>1
<1>3. PICK n \in Sizes : \A m \in Sizes : n <= m
  <2> HIDE DEF Sizes
  <2> QED  BY <1>2, LeastNumber
<1>4. PICK T \in B : n = Cardinality(T)
  BY <1>3
<1>5. ASSUME NEW U \in B, U \subseteq T, U # T
      PROVE  FALSE
  <2>1. Cardinality(U) < Cardinality(T)
    BY <1>1, <1>5, SmallerPart
  <2>2. Cardinality(U) \in Sizes
    OBVIOUS
  <2> HIDE DEF Sizes
  <2> QED  BY <1>1, <1>3, <1>4, <2>1, <2>2
<1> QED
  BY <1>5

\* The element that a fold takes first, and what it makes of a subset.
First(T) == CHOOSE t \in T : TRUE

Adds(f, g, S) ==
    g = [T \in SUBSET S |-> IF T = {} THEN Zero ELSE Plus(f[First(T)], g[T \ {First(T)}])]

Adder(f, S) == CHOOSE g : Adds(f, g, S)

LEMMA FirstIsElement == ASSUME NEW T, T # {}  PROVE First(T) \in T
BY DEF First

LEMMA AddsTo ==
    ASSUME NEW f, NEW S, NEW g, Adds(f, g, S), NEW T \in SUBSET S
    PROVE  /\ T = {} => g[T] = Zero
           /\ T # {} => g[T] = Plus(f[First(T)], g[T \ {First(T)}])
<1>1. g[T] = IF T = {} THEN Zero ELSE Plus(f[First(T)], g[T \ {First(T)}])
  BY DEF Adds
<1> QED
  BY <1>1

LEMMA AddedOnce ==
    ASSUME NEW f, NEW S, IsFiniteSet(S), NEW R \in SUBSET S, NEW g, NEW h, Adds(f, g, S), Adds(f, h, R),
           NEW T \in SUBSET R
    PROVE  g[T] = h[T]
<1> DEFINE B == {U \in SUBSET R : g[U] # h[U]}
<1> SUFFICES ASSUME B # {} PROVE FALSE
  OBVIOUS
<1>1. PICK U \in B : \A V \in B : V \subseteq U => V = U
  <2>1. B \in SUBSET (SUBSET S)  OBVIOUS
  <2> HIDE DEF B
  <2> QED  BY <2>1, SmallestSubset
<1>2. U \in SUBSET R /\ U \in SUBSET S /\ g[U] # h[U]
  OBVIOUS
<1>3. U # {}
  BY <1>2, AddsTo
<1>4. First(U) \in U
  BY <1>3, FirstIsElement
<1>5. g[U \ {First(U)}] = h[U \ {First(U)}]
  <2>1. U \ {First(U)} \in SUBSET R /\ U \ {First(U)} \subseteq U /\ U \ {First(U)} # U
    BY <1>2, <1>4
  <2> QED  BY <1>1, <2>1
<1> HIDE DEF B
<1> QED
  BY <1>2, <1>3, <1>5, AddsTo

LEMMA AdderExists ==
    ASSUME NEW f, NEW S, IsFiniteSet(S)
    PROVE  Adds(f, Adder(f, S), S)
<1> DEFINE B == {T \in SUBSET S : ~\E g : Adds(f, g, T)}
<1>1. SUFFICES ASSUME B # {} PROVE FALSE
  <2>1. S \notin B => \E g : Adds(f, g, S)  OBVIOUS
  <2> HIDE DEF B
  <2> QED  BY <1>1, <2>1 DEF Adder
<1>2. PICK T \in B : \A U \in B : U \subseteq T => U = T
  <2>1. B \in SUBSET (SUBSET S)  OBVIOUS
  <2> HIDE DEF B
  <2> QED  BY <1>1, <2>1, SmallestSubset
<1>3. T \in SUBSET S /\ ~\E g : Adds(f, g, T)
  OBVIOUS
<1>4. ASSUME NEW U \in SUBSET T, U # T
      PROVE  Adds(f, Adder(f, U), U)
  <2>1. U \notin B  BY <1>2, <1>4
  <2>2. \E g : Adds(f, g, U)  BY <1>3, <2>1
  <2> QED  BY <2>2 DEF Adder
<1> DEFINE Rest(U) == U \ {First(U)}
           h == [U \in SUBSET T |-> IF U = {} THEN Zero
                                    ELSE Plus(f[First(U)], Adder(f, Rest(U))[Rest(U)])]
<1>5. ASSUME NEW U \in SUBSET T, U # {}
      PROVE  h[Rest(U)] = Adder(f, Rest(U))[Rest(U)]
  <2> DEFINE V == Rest(U)
  <2>1. V \in SUBSET T /\ V # T /\ IsFiniteSet(V)
    <3>1. First(U) \in U  BY <1>5, FirstIsElement
    <3> QED  BY <1>3, <3>1, FS_Subset
  <2>2. Adds(f, Adder(f, V), V)
    <3> HIDE DEF V
    <3> QED  BY <1>4, <2>1
  <2>3. CASE V = {}
    <3>1. Adder(f, V)[V] = Zero
      <4> HIDE DEF V
      <4> QED  BY <2>2, <2>3, AddsTo
    <3> HIDE DEF V
    <3>2. h[V] = Zero  BY <2>1, <2>3
    <3> QED  BY <3>1, <3>2 DEF V
  <2>4. CASE V # {}
    <3> HIDE DEF V
    <3>1. First(V) \in V  BY <2>4, FirstIsElement
    <3>2. Rest(V) \in SUBSET V /\ Rest(V) \in SUBSET T /\ Rest(V) # T
      BY <2>1, <3>1
    <3>3. Adds(f, Adder(f, Rest(V)), Rest(V))
      <4> HIDE DEF Rest
      <4> QED  BY <1>4, <3>2
    <3>4. Adder(f, V)[Rest(V)] = Adder(f, Rest(V))[Rest(V)]
      <4> HIDE DEF Rest
      <4> QED  BY <2>1, <2>2, <3>2, <3>3, AddedOnce
    <3>5. Adder(f, V)[V] = Plus(f[First(V)], Adder(f, V)[Rest(V)])
      BY <2>2, <2>4, AddsTo
    <3>6. h[V] = Plus(f[First(V)], Adder(f, Rest(V))[Rest(V)])
      BY <2>1, <2>4
    <3>7. h[V] = Adder(f, V)[V]
      BY <3>4, <3>5, <3>6
    <3> QED  BY <3>7 DEF V
  <2> QED  BY <2>3, <2>4
<1>6. Adds(f, h, T)
  <2>1. \A U \in SUBSET T : h[U] = IF U = {} THEN Zero ELSE Plus(f[First(U)], h[U \ {First(U)}])
    BY <1>5
  <2>2. h = [U \in SUBSET T |-> h[U]]
    OBVIOUS
  <2> HIDE DEF h
  <2>3. h = [U \in SUBSET T |-> IF U = {} THEN Zero ELSE Plus(f[First(U)], h[U \ {First(U)}])]
    BY <2>1, <2>2
  <2> QED  BY <2>3 DEF Adds
<1> QED
  BY <1>3, <1>6

LEMMA SumIsAdded == ASSUME NEW f, NEW S  PROVE Sum(f, S) = Adder(f, S)[S]
BY DEF Sum, FoldSet, MapThenFoldSet, Adder, Adds, First

(* What holds of the differences of every member holds of those of sums.   *)
LEMMA SumsCompare ==
    ASSUME NEW S, IsFiniteSet(S),
           NEW a \in [S -> Seen], NEW b \in [S -> Seen], NEW c \in [S -> Seen], NEW d \in [S -> Seen],
           \A t \in S : AtLeast(Minus(a[t], b[t]), Minus(c[t], d[t]))
    PROVE  /\ Sum(a, S) \in Seen /\ Sum(b, S) \in Seen /\ Sum(c, S) \in Seen /\ Sum(d, S) \in Seen
           /\ AtLeast(Minus(Sum(a, S), Sum(b, S)), Minus(Sum(c, S), Sum(d, S)))
<1> DEFINE A == Adder(a, S)  B == Adder(b, S)  C == Adder(c, S)  E == Adder(d, S)
           Holds(T) == /\ A[T] \in Seen /\ B[T] \in Seen /\ C[T] \in Seen /\ E[T] \in Seen
                       /\ AtLeast(Minus(A[T], B[T]), Minus(C[T], E[T]))
           Bad == {T \in SUBSET S : ~Holds(T)}
<1>1. Adds(a, A, S) /\ Adds(b, B, S) /\ Adds(c, C, S) /\ Adds(d, E, S)
  BY AdderExists
<1>2. Sum(a, S) = A[S] /\ Sum(b, S) = B[S] /\ Sum(c, S) = C[S] /\ Sum(d, S) = E[S]
  BY SumIsAdded
<1> HIDE DEF A, B, C, E
<1>3. SUFFICES ASSUME Bad # {} PROVE FALSE
  <2>1. S \in SUBSET S  OBVIOUS
  <2>2. Holds(S)  BY <1>3, <2>1
  <2> QED  BY <1>2, <2>2
<1>4. PICK T \in Bad : \A U \in Bad : U \subseteq T => U = T
  <2>1. Bad \in SUBSET (SUBSET S)  OBVIOUS
  <2> HIDE DEF Bad
  <2> QED  BY <1>3, <2>1, SmallestSubset
<1>5. T \in SUBSET S /\ ~Holds(T)
  OBVIOUS
<1>6. CASE T = {}
  <2>1. ASSUME NEW f, NEW g, Adds(f, g, S)  PROVE g[T] = Zero
    <3>1. T \in SUBSET S
      BY <1>5
    <3>2. g[T] = IF T = {} THEN Zero ELSE Plus(f[First(T)], g[T \ {First(T)}])
      BY ONLY <2>1, <3>1 DEF Adds
    <3> QED
      BY ONLY <1>6, <3>2
  <2>2. Holds(T)
    BY <1>1, <2>1 DEF Zero, Seen, AtLeast, Minus
  <2> QED  BY <1>5, <2>2
<1>7. CASE T # {}
  <2> DEFINE t == First(T)  R == T \ {t}
  <2>1. t \in T /\ t \in S
    BY <1>5, <1>7, FirstIsElement
  <2>2. R \in SUBSET S /\ R \subseteq T /\ R # T
    BY <1>5, <2>1
  <2>3. Holds(R)
    <3> HIDE DEF Holds, R
    <3> QED  BY <1>4, <2>2
  <2>4. /\ A[T] = Plus(a[t], A[R]) /\ B[T] = Plus(b[t], B[R])
        /\ C[T] = Plus(c[t], C[R]) /\ E[T] = Plus(d[t], E[R])
    <3>1. ASSUME NEW f, NEW g, Adds(f, g, S)  PROVE g[T] = Plus(f[t], g[R])
      <4> HIDE DEF Bad, Holds
      <4> QED  BY <1>5, <1>7, <3>1, AddsTo
    <3> QED  BY <1>1, <3>1
  <2>5. a[t] \in Seen /\ b[t] \in Seen /\ c[t] \in Seen /\ d[t] \in Seen
    BY <2>1
  <2>6. AtLeast(Minus(a[t], b[t]), Minus(c[t], d[t]))
    BY <2>1
  <2> HIDE DEF t, R
  <2>7. Holds(T)
    BY <2>3, <2>4, <2>5, <2>6 DEF Seen, AtLeast, Minus, Plus
  <2> QED  BY <1>5, <2>7
<1> QED
  BY <1>6, <1>7

-----------------------------------------------------------------------------
(* Order statistics.                                                        *)

LEMMA LargestValue ==
    ASSUME NEW D, IsFiniteSet(D), NEW f \in [D -> Nat], NEW E \in SUBSET D, E # {}
    PROVE  \E e \in E : \A d \in E : f[d] <= f[e]
<1> DEFINE V == {f[d] : d \in E}
           g == [d \in E |-> f[d]]
<1>1. g \in Surjection(E, V)
  BY DEF Surjection
<1>2. IsFiniteSet(V) /\ V \in SUBSET Int
  <2>1. IsFiniteSet(E)  BY FS_Subset
  <2>2. V \in SUBSET Int  OBVIOUS
  <2> HIDE DEF g, V
  <2> QED  BY <1>1, <2>1, <2>2, FS_Surjection
<1>3. PICK x \in E : TRUE
  OBVIOUS
<1>4. f[x] \in V
  OBVIOUS
<1>5. PICK b \in Newest(V) : TRUE
  <2> HIDE DEF V
  <2> QED  BY <1>2, <1>4, NewestCovers
<1>6. b \in V /\ \A v \in V : v <= b
  BY DEF Newest
<1>7. PICK e \in E : b = f[e]
  BY <1>6
<1>8. \A d \in E : f[d] <= f[e]
  BY <1>6, <1>7
<1> QED
  BY <1>8

LEMMA KthIsTaken ==
    ASSUME NEW D, IsFiniteSet(D), NEW f \in [D -> Nat], NEW k \in 1..Cardinality(D)
    PROVE  /\ KthSmallest(f, k) \in Nat
           /\ Cardinality({d \in D : f[d] < KthSmallest(f, k)}) < k
           /\ Cardinality({d \in D : f[d] <= KthSmallest(f, k)}) >= k
<1> DEFINE Upto(v) == {d \in D : f[d] <= v}
           Below(v) == {d \in D : f[d] < v}
           V == {v \in Range(f) : Cardinality(Upto(v)) >= k}
<1>0. /\ Cardinality(D) \in Nat /\ k \in Nat /\ k >= 1 /\ DOMAIN f = D
      /\ \A v : IsFiniteSet(Below(v)) /\ Cardinality(Below(v)) \in Nat
  <2>1. Cardinality(D) \in Nat  BY FS_CardinalityType
  <2>2. \A v : Below(v) \in SUBSET D  OBVIOUS
  <2>3. \A v : IsFiniteSet(Below(v)) /\ Cardinality(Below(v)) \in Nat
    <3> HIDE DEF Below
    <3> QED  BY <2>2, SmallerPart
  <2> QED  BY <2>1, <2>3
<1>1. D # {}
  BY <1>0, FS_EmptySet
<1>2. V \in SUBSET Nat /\ V # {}
  <2>1. PICK e \in D : \A d \in D : f[d] <= f[e]
    BY <1>1, LargestValue
  <2>2. Upto(f[e]) = D
    BY <2>1
  <2>3. f[e] \in V
    <3>1. Cardinality(Upto(f[e])) >= k  BY <1>0, <2>2
    <3>2. f[e] \in Range(f)  BY DEF Range
    <3> HIDE DEF Upto
    <3> QED  BY <3>1, <3>2
  <2>4. V \in SUBSET Nat
    BY DEF Range
  <2> HIDE DEF V
  <2> QED  BY <2>3, <2>4
<1>3. PICK v \in V : \A u \in V : v <= u
  <2> HIDE DEF V
  <2> QED  BY <1>2, LeastNumber
<1>4. v \in Range(f) /\ v \in Nat /\ Cardinality(Upto(v)) >= k
  BY <1>2
<1>5. Cardinality(Below(v)) < k
  <2> SUFFICES ASSUME Cardinality(Below(v)) >= k PROVE FALSE
    BY <1>0
  <2>1. Below(v) # {} /\ Below(v) \in SUBSET D
    <3>1. Cardinality(Below(v)) # 0  BY <1>0
    <3> HIDE DEF Below
    <3>2. Below(v) # {}  BY <3>1, FS_EmptySet
    <3> QED  BY <3>2 DEF Below
  <2>2. PICK e \in Below(v) : \A d \in Below(v) : f[d] <= f[e]
    <3> HIDE DEF Below
    <3> QED  BY <2>1, LargestValue
  <2>3. e \in D /\ f[e] < v /\ f[e] \in Nat
    OBVIOUS
  <2>4. Upto(f[e]) = Below(v)
    <3>1. \A d \in D : f[d] \in Nat  OBVIOUS
    <3>2. \A d \in D : f[d] <= f[e] => f[d] < v  BY <1>4, <2>3, <3>1
    <3>3. \A d \in D : f[d] < v => f[d] <= f[e]  BY <2>2
    <3> QED  BY <3>2, <3>3
  <2>5. f[e] \in V
    <3>1. f[e] \in Range(f)  BY <2>3 DEF Range
    <3>2. Cardinality(Upto(f[e])) >= k  BY <2>4
    <3> HIDE DEF Upto
    <3> QED  BY <3>1, <3>2
  <2> HIDE DEF V
  <2> QED  BY <1>3, <1>4, <2>3, <2>5
<1>6. /\ KthSmallest(f, k) \in Range(f)
      /\ Cardinality(Below(KthSmallest(f, k))) < k
      /\ Cardinality(Upto(KthSmallest(f, k))) >= k
  BY <1>0, <1>4, <1>5 DEF KthSmallest
<1>7. Range(f) \subseteq Nat
  BY DEF Range
<1> QED
  BY <1>6, <1>7

(* Between the two middle values lie no others; half of the values are at   *)
(* most the lower one, half of them at least the upper one.                 *)
LEMMA MedianHalves ==
    ASSUME NEW D, IsFiniteSet(D), D # {}, NEW f \in [D -> Nat]
    PROVE  \E l, u \in Nat :
              /\ DoubleMedian(f) = l + u /\ l <= u
              /\ 2 * Cardinality({d \in D : f[d] <= l}) >= Cardinality(D)
              /\ 2 * Cardinality({d \in D : f[d] >= u}) >= Cardinality(D)
<1> DEFINE n == Cardinality(D)
           i == (n + 1) \div 2
           j == n \div 2 + 1
           l == KthSmallest(f, i)
           u == KthSmallest(f, j)
           Upto(v) == {d \in D : f[d] <= v}
           Below(v) == {d \in D : f[d] < v}
           Above(v) == {d \in D : f[d] >= v}
<1>1. n \in Nat /\ n # 0
  BY FS_CardinalityType, FS_EmptySet
<1>2. i \in 1..n /\ j \in 1..n /\ i <= j /\ 2 * i >= n /\ 2 * (j - 1) <= n
  <2> HIDE DEF n
  <2> QED  BY <1>1
<1>3. DOMAIN f = D
  OBVIOUS
<1>4. DoubleMedian(f) = l + u
  BY <1>3 DEF DoubleMedian
<1>5. /\ l \in Nat /\ Cardinality(Below(l)) < i /\ Cardinality(Upto(l)) >= i
      /\ u \in Nat /\ Cardinality(Below(u)) < j /\ Cardinality(Upto(u)) >= j
  <2>1. i \in 1..Cardinality(D) /\ j \in 1..Cardinality(D)
    BY <1>2
  <2> HIDE DEF i, j
  <2>2. /\ KthSmallest(f, i) \in Nat
        /\ Cardinality({d \in D : f[d] < KthSmallest(f, i)}) < i
        /\ Cardinality({d \in D : f[d] <= KthSmallest(f, i)}) >= i
    BY <2>1, KthIsTaken
  <2>3. /\ KthSmallest(f, j) \in Nat
        /\ Cardinality({d \in D : f[d] < KthSmallest(f, j)}) < j
        /\ Cardinality({d \in D : f[d] <= KthSmallest(f, j)}) >= j
    BY <2>1, KthIsTaken
  <2> QED
    BY <2>2, <2>3, Zenon
<1> HIDE DEF i, j, l, u
<1>6. \A v : /\ Upto(v) \in SUBSET D /\ Below(v) \in SUBSET D /\ Above(v) \in SUBSET D
             /\ IsFiniteSet(Upto(v)) /\ Cardinality(Upto(v)) \in Nat
             /\ IsFiniteSet(Below(v)) /\ Cardinality(Below(v)) \in Nat
             /\ IsFiniteSet(Above(v)) /\ Cardinality(Above(v)) \in Nat
  <2>1. \A v : Upto(v) \in SUBSET D /\ Below(v) \in SUBSET D /\ Above(v) \in SUBSET D
    OBVIOUS
  <2> HIDE DEF Upto, Below, Above
  <2> QED  BY <2>1, SmallerPart
<1>7. l <= u
  <2> SUFFICES ASSUME u < l PROVE FALSE
    BY <1>5
  <2>1. Upto(u) \in SUBSET Below(l)
    <3>1. \A d \in D : f[d] \in Nat  OBVIOUS
    <3>2. \A d \in D : f[d] <= u => f[d] < l  BY <1>5, <3>1
    <3> QED  BY <3>2
  <2>2. Cardinality(Upto(u)) <= Cardinality(Below(l))
    <3> HIDE DEF Upto, Below
    <3> QED  BY <1>6, <2>1, SmallerPart
  <2>3. Cardinality(Upto(u)) \in Nat /\ Cardinality(Below(l)) \in Nat /\ i \in Nat /\ j \in Nat /\ i <= j
    <3>1. i \in Nat /\ j \in Nat /\ i <= j
      <4> HIDE DEF n
      <4> QED  BY <1>1, <1>2
    <3> HIDE DEF Upto, Below
    <3> QED  BY <1>6, <3>1
  <2>4. Cardinality(Below(l)) < i /\ Cardinality(Upto(u)) >= j
    BY <1>5
  <2> HIDE DEF Upto, Below, n
  <2> QED  BY <2>2, <2>3, <2>4
<1>8. Cardinality(Above(u)) = n - Cardinality(Below(u))
  <2>1. Above(u) = D \ Below(u) /\ D \cap Below(u) = Below(u)
    <3>1. \A d \in D : f[d] \in Nat  OBVIOUS
    <3>2. \A d \in D : f[d] >= u <=> ~(f[d] < u)  BY <1>5, <3>1
    <3> QED  BY <3>2
  <2> HIDE DEF Above, Below
  <2> QED  BY <2>1, FS_Difference
<1>9. 2 * Cardinality(Upto(l)) >= n /\ 2 * Cardinality(Above(u)) >= n
  <2> HIDE DEF Upto, Below, Above, n
  <2> QED  BY <1>1, <1>2, <1>5, <1>6, <1>8
<1> QED
  BY <1>4, <1>5, <1>7, <1>9

-----------------------------------------------------------------------------
(* The store.                                                               *)

LEMMA CountsAreSeen == Counts \subseteq Seen
BY DEF Counts, Seen

LEMMA Differences ==
    ASSUME NEW a \in Seen, NEW b \in Seen
    PROVE  Minus(a, b) \in Seen /\ Plus(a, b) \in Seen /\ AtLeast(a, a)
BY DEF Seen, Minus, Plus, AtLeast

LEMMA PlusCounts == ASSUME NEW a \in Counts, NEW b \in Counts  PROVE Plus(a, b) \in Counts
BY DEF Counts, Plus

LEMMA AtLeastTransitive ==
    ASSUME NEW a \in Seen, NEW b \in Seen, NEW c \in Seen, AtLeast(a, b), AtLeast(b, c)
    PROVE  AtLeast(a, c)
BY DEF Seen, AtLeast

(* What a stored exact reading is.                                         *)
LEMMA ExactReading ==
    ASSUME NEW s, IsStore(s), NEW t \in Member, NEW i \in Exact(s, t)
    PROVE  /\ i \in DOMAIN s /\ i \in Int /\ t \in DOMAIN s[i].readings /\ s[i].time \in Int
           /\ s[i].readings[t].counts \in Counts /\ s[i].seen[t] \in Seen
           /\ Untold(s, i, t) \in Seen
<1>1. i \in DOMAIN s /\ t \in DOMAIN s[i].readings
  BY DEF Exact
<1>2. i \in Int /\ s[i].time \in Int /\ s[i].seen[t] \in Seen
  BY <1>1 DEF IsStore
<1>3. s[i].readings[t] \in [counts : Counts, exact : BOOLEAN]
  BY <1>1 DEF IsStore
<1>4. s[i].readings[t].counts \in Counts
  BY <1>3
<1> QED
  BY <1>1, <1>2, <1>4, CountsAreSeen, Differences DEF Untold

LEMMA InitStore == Init => StoreInv
<1> SUFFICES ASSUME Init PROVE StoreInv
  OBVIOUS
<1>1. /\ runs \in Migrated /\ origin = runs /\ now = 0 /\ committed = 0
      /\ counter = [t \in Member |-> Zero] /\ total = [t \in Member |-> Zero]
  BY DEF Init
<1>2. IsStore(runs)
  BY <1>1, MigratedAssumption
<1>3. Zero \in Counts /\ Minus(Zero, Zero) = Zero
  BY DEF Zero, Counts, Minus
<1>4. TypeOK
  BY <1>1, <1>2, <1>3 DEF TypeOK
<1>5. InOrder
  BY <1>1, MigratedAssumption DEF InOrder
<1>6. UntoldGrows
  BY <1>1, <1>3, MigratedAssumption DEF UntoldGrows
<1>7. BarriersAreKept
  <2>1. \A t \in Member : \A i \in Inexact(runs, t) : i \in Int
    BY <1>2 DEF Inexact, IsStore
  <2> QED  BY <1>1, <2>1 DEF BarriersAreKept
<1> QED
  BY <1>4, <1>5, <1>6, <1>7 DEF StoreInv

(* Between two runs a resolver's counters tell no more than its traffic.   *)
LEMMA TrafficIsCounted ==
    ASSUME NEW a \in Counts, NEW b \in Counts, NEW c \in Counts, NEW e \in Counts,
           e \in {Plus(a, c), Zero, c}
    PROVE  AtLeast(Minus(Plus(b, c), e), Minus(b, a))
BY DEF Counts, AtLeast, Minus, Plus, Zero

Stores(attending, cutoff, evidence, stored) ==
    /\ DOMAIN stored = DOMAIN runs \cup {committed + 1}
    /\ \A i \in DOMAIN runs : stored[i] = runs[i]
    /\ stored[committed + 1] =
         [time |-> now', seen |-> total',
          readings |-> [t \in attending |-> [counts |-> counter'[t], exact |-> TRUE]]]
    /\ runs' = Restrict(stored, Retained(stored, cutoff, evidence))

Uses(attending, cutoff) ==
    used' = [s \in Evaluated(attending, cutoff, counter') |->
               IF s = "group"
               THEN Basis(GroupSeries(cutoff), Point(now', Sum(counter', Member), Sum(total', Member)))
               ELSE Basis(Series(s, cutoff), Point(now', counter'[s], total'[s]))]

(* What a step does to the store, and to what was used: the new run is      *)
(* added before old ones are pruned, but what it is compared with was       *)
(* stored before.                                                           *)
LEMMA CommitStores ==
    ASSUME StoreInv, CommitRun
    PROVE  /\ now' \in Int /\ now <= now' /\ committed' = committed + 1 /\ origin' = origin
           /\ counter' \in [Member -> Counts] /\ total' \in [Member -> Counts]
           /\ \A t \in Member : AtLeast(Minus(total'[t], counter'[t]), Minus(total[t], counter[t]))
           /\ \E attending, cutoff, evidence, stored :
                /\ attending \in SUBSET Member /\ cutoff \in Int
                /\ Stores(attending, cutoff, evidence, stored) /\ Uses(attending, cutoff)
                /\ \E step \in Steps : now' = now + step
                /\ \E retention \in Retention : cutoff = now' - retention
<1>0. TypeOK /\ InOrder
  BY DEF StoreInv
<1>1. PICK step \in Steps, traffic \in Traffic, attending \in Attendance, retention \in Retention :
         LET time == now + step
             cutoff == time - retention
             counters == [t \in Member |-> CounterAfter(t, time, traffic)]
             totals == [t \in Member |-> Plus(total[t], traffic.counts[t])]
             run == [time |-> time, seen |-> totals,
                     readings |-> [t \in attending |-> [counts |-> counters[t], exact |-> TRUE]]]
             stored == [i \in DOMAIN runs \cup {committed + 1} |->
                            IF i = committed + 1 THEN run ELSE runs[i]]
         IN  /\ now' = time
             /\ counter' = counters
             /\ total' = totals
             /\ used' = [s \in Evaluated(attending, cutoff, counters) |->
                  IF s = "group"
                  THEN Basis(GroupSeries(cutoff), Point(time, Sum(counters, Member), Sum(totals, Member)))
                  ELSE Basis(Series(s, cutoff), Point(time, counters[s], totals[s]))]
             /\ \E evidence \in SUBSET {i \in DOMAIN runs : runs[i].time < cutoff} :
                  runs' = Restrict(stored, Retained(stored, cutoff, evidence))
  BY DEF CommitRun
<1> DEFINE time == now + step
           cutoff == time - retention
           counters == [t \in Member |-> CounterAfter(t, time, traffic)]
           totals == [t \in Member |-> Plus(total[t], traffic.counts[t])]
           run(n, c, s) == [time |-> n, seen |-> s,
                            readings |-> [t \in attending |-> [counts |-> c[t], exact |-> TRUE]]]
           extended(r) == [i \in DOMAIN runs \cup {committed + 1} |-> IF i = committed + 1 THEN r ELSE runs[i]]
           uses(n, c, s) == [x \in Evaluated(attending, cutoff, c) |->
                               IF x = "group"
                               THEN Basis(GroupSeries(cutoff), Point(n, Sum(c, Member), Sum(s, Member)))
                               ELSE Basis(Series(x, cutoff), Point(n, c[x], s[x]))]
           stored == extended(run(now', counter', total'))
<1>2. /\ now' = now + step
      /\ counter' = [t \in Member |-> CounterAfter(t, now', traffic)]
      /\ total' = [t \in Member |-> Plus(total[t], traffic.counts[t])]
      /\ used' = uses(now', counter', total')
      /\ \E evidence : runs' = Restrict(stored, Retained(stored, cutoff, evidence))
  <2>1. now' = time /\ counter' = counters /\ total' = totals
    BY <1>1
  <2>2. used' = uses(time, counters, totals)
    BY <1>1, Zenon
  <2>3. \E evidence : runs' = Restrict(extended(run(time, counters, totals)),
                                      Retained(extended(run(time, counters, totals)), cutoff, evidence))
    BY <1>1, Zenon
  <2>4. uses(time, counters, totals) = uses(now', counter', total')
        /\ stored = extended(run(time, counters, totals))
    <3> HIDE DEF time, counters, totals, uses, extended, run
    <3> QED  BY <2>1
  <2>5. counters = [t \in Member |-> CounterAfter(t, now', traffic)]
    BY <2>1
  <2> HIDE DEF uses, extended, run
  <2> QED  BY <2>1, <2>2, <2>3, <2>4, <2>5
<1>3. PICK evidence : runs' = Restrict(stored, Retained(stored, cutoff, evidence))
  BY <1>2
<1>4. /\ now \in Int /\ step \in Nat /\ retention \in Nat /\ committed \in Nat
      /\ attending \in SUBSET Member /\ traffic \in Traffics
  BY <1>0, TimesAssumption, AttendanceAssumption, TrafficAssumption DEF TypeOK
<1>5. traffic.counts \in [Member -> Counts]
  BY <1>4 DEF Traffics
<1>6. now' \in Int /\ now <= now' /\ cutoff \in Int
  BY <1>2, <1>4
<1>7. ASSUME NEW t \in Member
      PROVE  /\ counter'[t] \in Counts /\ total'[t] \in Counts
             /\ AtLeast(Minus(total'[t], counter'[t]), Minus(total[t], counter[t]))
  <2>1. counter[t] \in Counts /\ total[t] \in Counts /\ traffic.counts[t] \in Counts /\ Zero \in Counts
    BY <1>0, <1>5 DEF TypeOK, Zero, Counts
  <2>2. counter'[t] \in {Plus(counter[t], traffic.counts[t]), Zero, traffic.counts[t]}
    BY <1>2 DEF CounterAfter
  <2>3. total'[t] = Plus(total[t], traffic.counts[t])
    BY <1>2
  <2>4. counter'[t] \in Counts /\ total'[t] \in Counts
    BY <2>1, <2>2, <2>3, PlusCounts
  <2> QED  BY <2>1, <2>2, <2>3, <2>4, TrafficIsCounted
<1>8. counter' \in [Member -> Counts] /\ total' \in [Member -> Counts]
  BY <1>2, <1>7
<1>9. /\ DOMAIN stored = DOMAIN runs \cup {committed + 1}
      /\ \A i \in DOMAIN runs : stored[i] = runs[i]
      /\ stored[committed + 1] = run(now', counter', total')
  <2>1. committed + 1 \notin DOMAIN runs
    BY <1>0, <1>4 DEF InOrder, TypeOK, IsStore
  <2> HIDE DEF run
  <2> QED  BY <2>1
<1>10. committed' = committed + 1 /\ origin' = origin
  BY DEF CommitRun
<1>11. Uses(attending, cutoff)
  BY <1>2 DEF Uses
<1>12. Stores(attending, cutoff, evidence, stored)
  <2> HIDE DEF stored
  <2> QED  BY <1>3, <1>9 DEF Stores
<1>13. now' = now + step /\ cutoff = now' - retention
  BY <1>2
<1> HIDE DEF cutoff, stored
<1> QED
  BY <1>4, <1>6, <1>7, <1>8, <1>10, <1>11, <1>12, <1>13

LEMMA CommitKeepsStore == ASSUME StoreInv, CommitRun  PROVE StoreInv'
<1>0. /\ TypeOK /\ InOrder /\ UntoldGrows /\ BarriersAreKept
      /\ now' \in Int /\ now \in Int /\ now <= now' /\ committed' = committed + 1 /\ origin' = origin
      /\ committed \in Nat
      /\ counter' \in [Member -> Counts] /\ total' \in [Member -> Counts]
      /\ \A t \in Member : AtLeast(Minus(total'[t], counter'[t]), Minus(total[t], counter[t]))
  BY CommitStores DEF StoreInv, TypeOK
<1>1. PICK attending, cutoff, evidence, stored :
        /\ attending \in SUBSET Member /\ cutoff \in Int
        /\ Stores(attending, cutoff, evidence, stored)
  BY CommitStores
<1> DEFINE n == committed + 1
           keep == Retained(stored, cutoff, evidence)
<1>2. /\ n \in Int /\ n \notin DOMAIN runs /\ \A i \in DOMAIN runs : i \in Int /\ i < n /\ runs[i].time \in Int
      /\ IsStore(runs) /\ committed' = n
  BY <1>0 DEF TypeOK, InOrder, IsStore
<1>3. /\ keep \subseteq DOMAIN runs \cup {n} /\ DOMAIN runs' = keep
      /\ \A i \in keep : runs'[i] = stored[i]
  BY <1>1 DEF Retained, Restrict, Stores
<1>4. ASSUME n \in keep
      PROVE  /\ runs'[n].time = now' /\ runs'[n].seen = total' /\ DOMAIN runs'[n].readings = attending
             /\ \A t \in attending : /\ runs'[n].readings[t].counts = counter'[t]
                                     /\ runs'[n].readings[t].exact = TRUE
                                     /\ runs'[n].readings[t] \in [counts : Counts, exact : BOOLEAN]
  <2>1. runs'[n] = [time |-> now', seen |-> total',
                    readings |-> [t \in attending |-> [counts |-> counter'[t], exact |-> TRUE]]]
    BY <1>1, <1>3, <1>4 DEF Stores
  <2>2. \A t \in attending : counter'[t] \in Counts
    BY <1>0, <1>1
  <2> HIDE DEF n, keep
  <2> QED  BY <2>1, <2>2
<1>5. \A i \in keep : i # n => i \in DOMAIN runs /\ runs'[i] = runs[i]
  BY <1>1, <1>3 DEF Stores
<1> HIDE DEF n, keep
<1>6. IsStore(runs')
  <2>1. IsFiniteSet(keep) /\ keep \subseteq Int
    <3>1. IsFiniteSet(DOMAIN runs \cup {n})
      BY <1>2, FS_AddElement DEF IsStore
    <3> QED  BY <1>2, <1>3, <3>1, FS_Subset
  <2>2. ASSUME NEW i \in keep
        PROVE  /\ runs'[i].time \in Int /\ runs'[i].seen \in [Member -> Seen]
               /\ DOMAIN runs'[i].readings \subseteq Member
               /\ \A t \in DOMAIN runs'[i].readings : runs'[i].readings[t] \in [counts : Counts, exact : BOOLEAN]
    <3>1. CASE i = n
      <4>1. total' \in [Member -> Seen]
        BY <1>0, CountsAreSeen
      <4> QED  BY <1>0, <1>1, <1>4, <2>2, <3>1, <4>1
    <3>2. CASE i # n
      BY <1>2, <1>5, <2>2, <3>2 DEF IsStore
    <3> QED  BY <3>1, <3>2
  <2> QED  BY <1>3, <2>1, <2>2 DEF IsStore
<1>7. TypeOK'
  BY <1>0, <1>2, <1>6 DEF TypeOK
<1>8. InOrder'
  <2>1. ASSUME NEW i \in keep
        PROVE  /\ i <= n /\ runs'[i].time <= now' /\ runs'[i].time \in Int
               /\ i = n => runs'[i].time = now'
    <3>1. CASE i = n
      BY <1>0, <1>2, <1>4, <3>1
    <3>2. CASE i # n
      <4>1. i \in DOMAIN runs /\ runs'[i].time = runs[i].time /\ runs[i].time <= now /\ i < n /\ i \in Int
        BY <1>0, <1>2, <1>5, <3>2 DEF InOrder
      <4> QED  BY <1>0, <1>2, <3>2, <4>1
    <3> QED  BY <3>1, <3>2
  <2>2. ASSUME NEW i \in keep, NEW j \in keep, i <= j
        PROVE  runs'[i].time <= runs'[j].time
    <3>1. CASE j = n
      BY <2>1, <3>1
    <3>2. CASE j # n
      <4>1. i # n
        BY <1>2, <1>5, <2>2, <3>2
      <4> QED  BY <1>0, <1>5, <2>2, <3>2, <4>1 DEF InOrder
    <3> QED  BY <3>1, <3>2
  <2> QED  BY <1>2, <1>3, <2>1, <2>2 DEF InOrder
<1>9. ASSUME NEW t \in Member
      PROVE  /\ \A i \in Exact(runs', t) : i # n => i \in Exact(runs, t) /\ Untold(runs', i, t) = Untold(runs, i, t)
             /\ n \in Exact(runs', t) => Untold(runs', n, t) = Minus(total'[t], counter'[t])
             /\ Inexact(runs', t) = Inexact(runs, t) \cap keep
             /\ Inexact(stored, t) = Inexact(runs, t)
  <2>1. \A i \in Exact(runs', t) : i # n => i \in Exact(runs, t) /\ Untold(runs', i, t) = Untold(runs, i, t)
    BY <1>3, <1>5 DEF Exact, Untold
  <2>2. n \in Exact(runs', t) => Untold(runs', n, t) = Minus(total'[t], counter'[t])
    BY <1>3, <1>4 DEF Exact, Untold
  <2>3. n \in keep => n \notin Inexact(runs', t)
    BY <1>4 DEF Inexact
  <2>4. Inexact(runs', t) = Inexact(runs, t) \cap keep
    BY <1>2, <1>3, <1>5, <2>3 DEF Inexact
  <2>5. n \notin Inexact(stored, t)
    BY <1>1 DEF Inexact, n, Stores
  <2>6. Inexact(stored, t) = Inexact(runs, t)
    BY <1>1, <1>2, <2>5 DEF Inexact, n, Stores
  <2> QED  BY <2>1, <2>2, <2>4, <2>6
<1>10. UntoldGrows'
  <2> SUFFICES ASSUME NEW t \in Member, NEW i \in Exact(runs', t)
               PROVE  /\ AtLeast(Minus(total'[t], counter'[t]), Untold(runs', i, t))
                      /\ \A j \in Exact(runs', t) : i <= j => AtLeast(Untold(runs', j, t), Untold(runs', i, t))
    BY DEF UntoldGrows
  <2>1. Minus(total[t], counter[t]) \in Seen /\ Minus(total'[t], counter'[t]) \in Seen
    <3>1. total[t] \in Seen /\ counter[t] \in Seen /\ total'[t] \in Seen /\ counter'[t] \in Seen
      BY <1>0, CountsAreSeen DEF TypeOK
    <3> QED  BY <3>1, Differences
  <2>2. AtLeast(Minus(total'[t], counter'[t]), Untold(runs', i, t))
    <3>1. CASE i = n
      BY <1>9, <2>1, <3>1, Differences DEF AtLeast
    <3>2. CASE i # n
      <4>1. i \in Exact(runs, t) /\ Untold(runs', i, t) = Untold(runs, i, t)
        BY <1>9, <3>2
      <4>2. AtLeast(Minus(total[t], counter[t]), Untold(runs, i, t)) /\ Untold(runs, i, t) \in Seen
        BY <1>0, <1>2, <4>1, ExactReading DEF UntoldGrows
      <4> QED  BY <1>0, <2>1, <4>1, <4>2, AtLeastTransitive
    <3> QED  BY <3>1, <3>2
  <2>3. ASSUME NEW j \in Exact(runs', t), i <= j
        PROVE  AtLeast(Untold(runs', j, t), Untold(runs', i, t))
    <3>1. CASE j = n
      BY <1>9, <2>2, <3>1
    <3>2. CASE j # n
      <4>1. j \in Exact(runs, t) /\ j \in DOMAIN runs
        BY <1>2, <1>9, <3>2, ExactReading
      <4>2. i # n
        BY <1>2, <2>3, <4>1
      <4> QED  BY <1>0, <1>9, <2>3, <3>2, <4>1, <4>2 DEF UntoldGrows
    <3> QED  BY <3>1, <3>2
  <2> QED  BY <2>2, <2>3
<1>11. BarriersAreKept'
  <2> SUFFICES ASSUME NEW t \in Member, NEW i \in Inexact(origin, t)
               PROVE  \E j \in Inexact(runs', t) : i <= j
    BY <1>0 DEF BarriersAreKept
  <2>1. PICK j \in Inexact(runs, t) : i <= j
    BY <1>0 DEF BarriersAreKept
  <2>2. Inexact(runs, t) \in SUBSET Int /\ IsFiniteSet(Inexact(runs, t))
    <3>1. Inexact(runs, t) \in SUBSET (DOMAIN runs)
      BY DEF Inexact
    <3> QED  BY <1>2, <3>1, FS_Subset DEF IsStore
  <2>3. PICK b \in Newest(Inexact(runs, t)) : j <= b
    BY <2>2, NewestCovers
  <2>4. b \in Inexact(runs, t)
    BY DEF Newest
  <2>5. b \in Barrier(stored, t) /\ b \in DOMAIN stored
    BY <1>1, <1>9, <2>4 DEF Barrier, Inexact, Stores
  <2>6. b \in keep
    BY <2>5 DEF Retained, keep
  <2>7. b \in Inexact(runs', t)
    BY <1>9, <2>4, <2>6
  <2>8. i <= b
    <3>1. i \in Int
      BY <1>0 DEF TypeOK, IsStore, Inexact
    <3> QED  BY <2>1, <2>2, <2>3, <2>4, <3>1
  <2> QED  BY <2>7, <2>8
<1> QED
  BY <1>7, <1>8, <1>10, <1>11 DEF StoreInv

-----------------------------------------------------------------------------
(* What an evaluation has before it: a series of readings and a current one. *)

Reading == [time : Int, counts : Seen, seen : Seen]

\* The counters grew by no more than the traffic from p to c.
Covers(p, c) == AtLeast(Minus(c.seen, p.seen), Minus(c.counts, p.counts))

Sound(series, point) ==
    /\ IsFiniteSet(DOMAIN series) /\ DOMAIN series \subseteq Int /\ point \in Reading
    /\ \A i \in DOMAIN series :
         /\ series[i] \in Reading /\ Covers(series[i], point)
         /\ \A j \in DOMAIN series : i <= j => series[i].time <= series[j].time /\ Covers(series[i], series[j])

Subject(s) == IF s = "group" THEN Member ELSE {s}

\* No reading of the series is hidden behind a barrier.
Unbarred(s, series) == \A i \in DOMAIN series : \A t \in Subject(s) : \A b \in Barrier(runs, t) : i > b

LEMMA Rearranged ==
    ASSUME NEW a \in Seen, NEW b \in Seen, NEW c \in Seen, NEW d \in Seen
    PROVE  AtLeast(Minus(a, b), Minus(c, d)) <=> AtLeast(Minus(a, c), Minus(b, d))
BY DEF Seen, AtLeast, Minus

(* The samples of one resolver grow no faster than its traffic.            *)
LEMMA SamplesGrow ==
    ASSUME StoreInv, NEW t \in Member, NEW cutoff \in Int, NEW i \in Samples(t, cutoff),
           NEW j \in Samples(t, cutoff), i <= j
    PROVE  /\ i \in DOMAIN runs /\ i \in Int /\ runs[i].time \in Int /\ runs[i].time <= runs[j].time
           /\ t \in DOMAIN runs[i].readings
           /\ runs[i].readings[t].counts \in Seen /\ runs[i].seen[t] \in Seen
           /\ AtLeast(Minus(runs[j].seen[t], runs[i].seen[t]),
                      Minus(runs[j].readings[t].counts, runs[i].readings[t].counts))
<1>1. IsStore(runs) /\ i \in Exact(runs, t) /\ j \in Exact(runs, t)
  BY DEF StoreInv, TypeOK, Samples
<1>2. AtLeast(Untold(runs, j, t), Untold(runs, i, t))
  BY <1>1 DEF StoreInv, UntoldGrows
<1>3. /\ i \in DOMAIN runs /\ j \in DOMAIN runs /\ i \in Int /\ runs[i].time \in Int
      /\ t \in DOMAIN runs[i].readings
      /\ runs[i].readings[t].counts \in Seen /\ runs[i].seen[t] \in Seen
      /\ runs[j].readings[t].counts \in Seen /\ runs[j].seen[t] \in Seen
  BY <1>1, ExactReading, CountsAreSeen
<1>4. runs[i].time <= runs[j].time
  BY <1>3 DEF StoreInv, InOrder
<1> QED
  BY <1>2, <1>3, <1>4, Rearranged DEF Untold

LEMMA CurrentGrows ==
    ASSUME StoreInv, CommitRun, NEW t \in Member, NEW cutoff \in Int, NEW i \in Samples(t, cutoff)
    PROVE  /\ total'[t] \in Seen /\ counter'[t] \in Seen
           /\ AtLeast(Minus(total'[t], runs[i].seen[t]), Minus(counter'[t], runs[i].readings[t].counts))
<1>1. IsStore(runs) /\ i \in Exact(runs, t) /\ total[t] \in Seen /\ counter[t] \in Seen
  BY CountsAreSeen DEF StoreInv, TypeOK, Samples
<1>2. /\ total'[t] \in Seen /\ counter'[t] \in Seen
      /\ AtLeast(Minus(total'[t], counter'[t]), Minus(total[t], counter[t]))
  BY CommitStores, CountsAreSeen
<1>3. AtLeast(Minus(total[t], counter[t]), Untold(runs, i, t))
  BY <1>1 DEF StoreInv, UntoldGrows
<1>4. /\ runs[i].readings[t].counts \in Seen /\ runs[i].seen[t] \in Seen
      /\ Untold(runs, i, t) \in Seen
  BY <1>1, ExactReading, CountsAreSeen
<1>5. AtLeast(Minus(total'[t], counter'[t]), Untold(runs, i, t))
  BY <1>1, <1>2, <1>3, <1>4, Differences, AtLeastTransitive
<1> QED
  BY <1>2, <1>4, <1>5, Rearranged DEF Untold

LEMMA MemberIsSound ==
    ASSUME StoreInv, CommitRun, NEW s \in Member, NEW cutoff \in Int
    PROVE  /\ Sound(Series(s, cutoff), Point(now', counter'[s], total'[s]))
           /\ Unbarred(s, Series(s, cutoff))
<1> DEFINE series == Series(s, cutoff)
           point == Point(now', counter'[s], total'[s])
<1>1. IsStore(runs) /\ s # "group"
  BY MemberAssumption DEF StoreInv, TypeOK
<1>2. /\ DOMAIN series = Samples(s, cutoff)
      /\ \A i \in DOMAIN series :
           series[i] = [time |-> runs[i].time, counts |-> runs[i].readings[s].counts, seen |-> runs[i].seen[s]]
  BY DEF Series, Point
<1>3. point = [time |-> now', counts |-> counter'[s], seen |-> total'[s]] /\ point \in Reading
  <2>1. now' \in Int /\ counter'[s] \in Seen /\ total'[s] \in Seen
    BY CommitStores, CountsAreSeen
  <2> QED  BY <2>1 DEF Point, Reading
<1>4. IsFiniteSet(DOMAIN series) /\ DOMAIN series \subseteq Int
  <2>1. Samples(s, cutoff) \in SUBSET (DOMAIN runs)
    BY DEF Samples, Exact
  <2> QED  BY <1>1, <1>2, <2>1, FS_Subset DEF IsStore
<1>5. ASSUME NEW i \in DOMAIN series
      PROVE  /\ series[i] \in Reading /\ Covers(series[i], point)
             /\ \A j \in DOMAIN series : i <= j => series[i].time <= series[j].time /\ Covers(series[i], series[j])
  <2>1. i \in Samples(s, cutoff) /\ i \in Int
    BY <1>2, <1>4
  <2> HIDE DEF series, point
  <2>2. runs[i].time \in Int /\ runs[i].readings[s].counts \in Seen /\ runs[i].seen[s] \in Seen
    BY <2>1, SamplesGrow
  <2>3. series[i] \in Reading
    BY <1>2, <2>2 DEF Reading
  <2>4. Covers(series[i], point)
    BY <1>2, <1>3, <2>1, CurrentGrows DEF Covers
  <2>5. ASSUME NEW j \in DOMAIN series, i <= j
        PROVE  series[i].time <= series[j].time /\ Covers(series[i], series[j])
    BY <1>2, <2>1, <2>5, SamplesGrow DEF Covers
  <2> QED  BY <2>3, <2>4, <2>5
<1>6. Sound(series, point)
  <2> HIDE DEF series, point
  <2> QED  BY <1>3, <1>4, <1>5 DEF Sound
<1>7. Unbarred(s, series)
  BY <1>1, <1>2 DEF Unbarred, Subject, Samples
<1> QED
  BY <1>6, <1>7

LEMMA GroupIsSound ==
    ASSUME StoreInv, CommitRun, NEW cutoff \in Int
    PROVE  /\ Sound(GroupSeries(cutoff), Point(now', Sum(counter', Member), Sum(total', Member)))
           /\ Unbarred("group", GroupSeries(cutoff))
<1> DEFINE series == GroupSeries(cutoff)
           point == Point(now', Sum(counter', Member), Sum(total', Member))
<1>1. IsStore(runs) /\ IsFiniteSet(Member)
  BY MemberAssumption DEF StoreInv, TypeOK
<1>2. /\ DOMAIN series \in SUBSET (DOMAIN runs)
      /\ \A i \in DOMAIN series : \A t \in Member : i \in Samples(t, cutoff)
      /\ \A i \in DOMAIN series :
           series[i] = [time |-> runs[i].time, counts |-> Sum(RunCounts(i), Member),
                        seen |-> Sum(runs[i].seen, Member)]
  BY DEF GroupSeries, AllMembers, Present, Point
<1>3. /\ point = [time |-> now', counts |-> Sum(counter', Member), seen |-> Sum(total', Member)]
      /\ now' \in Int /\ counter' \in [Member -> Seen] /\ total' \in [Member -> Seen]
  <2>1. now' \in Int /\ counter' \in [Member -> Counts] /\ total' \in [Member -> Counts]
    BY CommitStores
  <2> QED  BY <2>1, CountsAreSeen DEF Point
<1>4. IsFiniteSet(DOMAIN series) /\ DOMAIN series \subseteq Int
  BY <1>1, <1>2, FS_Subset DEF IsStore
<1> HIDE DEF series, point
<1>5. ASSUME NEW i \in DOMAIN series
      PROVE  /\ runs[i].time \in Int /\ runs[i].seen \in [Member -> Seen] /\ RunCounts(i) \in [Member -> Seen]
             /\ \A t \in Member : RunCounts(i)[t] = runs[i].readings[t].counts
  <2>1. \A t \in Member : t \in DOMAIN runs[i].readings /\ runs[i].readings[t].counts \in Seen
    BY <1>2, <1>4, SamplesGrow
  <2>2. DOMAIN runs[i].readings = Member /\ runs[i].time \in Int /\ runs[i].seen \in [Member -> Seen]
    BY <1>1, <1>2, <2>1 DEF IsStore
  <2> QED  BY <2>1, <2>2 DEF RunCounts
<1>6. ASSUME NEW i \in DOMAIN series, NEW j \in DOMAIN series, i <= j
      PROVE  /\ series[i] \in Reading /\ Covers(series[i], series[j])
             /\ series[i].time <= series[j].time
  <2>1. \A t \in Member : AtLeast(Minus(runs[j].seen[t], runs[i].seen[t]),
                                  Minus(RunCounts(j)[t], RunCounts(i)[t]))
    BY <1>2, <1>5, <1>6, SamplesGrow
  <2>2. /\ Sum(RunCounts(i), Member) \in Seen /\ Sum(runs[i].seen, Member) \in Seen
        /\ AtLeast(Minus(Sum(runs[j].seen, Member), Sum(runs[i].seen, Member)),
                   Minus(Sum(RunCounts(j), Member), Sum(RunCounts(i), Member)))
    <3>1. /\ IsFiniteSet(Member)
          /\ runs[i].seen \in [Member -> Seen] /\ RunCounts(i) \in [Member -> Seen]
          /\ runs[j].seen \in [Member -> Seen] /\ RunCounts(j) \in [Member -> Seen]
      BY <1>1, <1>5
    <3> QED
      BY ONLY <2>1, <3>1, SumsCompare
  <2>3. series[i].time <= series[j].time
    BY <1>2, <1>6 DEF StoreInv, InOrder
  <2> QED  BY <1>2, <1>5, <2>2, <2>3 DEF Reading, Covers
<1>7. ASSUME NEW i \in DOMAIN series
      PROVE  Covers(series[i], point)
  <2>1. \A t \in Member : AtLeast(Minus(total'[t], runs[i].seen[t]), Minus(counter'[t], RunCounts(i)[t]))
    BY <1>2, <1>5, CurrentGrows
  <2>2. AtLeast(Minus(Sum(total', Member), Sum(runs[i].seen, Member)),
                Minus(Sum(counter', Member), Sum(RunCounts(i), Member)))
    BY <1>1, <1>3, <1>5, <2>1, SumsCompare
  <2> QED  BY <1>2, <1>3, <2>2 DEF Covers
<1>8. point \in Reading
  <2>1. \A t \in Member : AtLeast(Minus(total'[t], counter'[t]), Minus(total'[t], counter'[t]))
    BY <1>3, Differences
  <2>2. Sum(counter', Member) \in Seen /\ Sum(total', Member) \in Seen
    BY <1>1, <1>3, <2>1, SumsCompare
  <2> QED  BY <1>3, <2>2 DEF Reading
<1>9. Sound(series, point)
  <2>1. \A i \in DOMAIN series : i <= i  BY <1>4
  <2>2. \A i \in DOMAIN series : series[i] \in Reading  BY <1>6, <2>1
  <2> QED  BY <1>4, <1>6, <1>7, <1>8, <2>2 DEF Sound
<1>10. Unbarred("group", series)
  BY <1>2 DEF Unbarred, Subject, Samples
<1> QED
  BY <1>9, <1>10 DEF series, point

(* Every subject is evaluated from a sound series that no barrier hides.   *)
LEMMA UsedIsSound ==
    ASSUME StoreInv, CommitRun, NEW s \in DOMAIN used'
    PROVE  \E series, point :
              /\ used'[s] = Basis(series, point) /\ point.time = now'
              /\ Sound(series, point) /\ Unbarred(s, series)
<1>1. PICK attending, cutoff : attending \in SUBSET Member /\ cutoff \in Int /\ Uses(attending, cutoff)
  BY CommitStores
<1>2. s \in Evaluated(attending, cutoff, counter')
  BY <1>1 DEF Uses
<1>3. \A c, e : Point(now', c, e).time = now'
  BY DEF Point
<1>4. CASE s = "group"
  <2>1. used'[s] = Basis(GroupSeries(cutoff), Point(now', Sum(counter', Member), Sum(total', Member)))
    BY <1>1, <1>2, <1>4 DEF Uses
  <2> QED  BY <1>1, <1>3, <1>4, <2>1, GroupIsSound
<1>5. CASE s # "group"
  <2>1. used'[s] = Basis(Series(s, cutoff), Point(now', counter'[s], total'[s]))
    BY <1>1, <1>2, <1>5 DEF Uses
  <2>2. s \in Member
    BY <1>1, <1>2, <1>5 DEF Evaluated
  <2> QED  BY <1>1, <1>3, <2>1, <2>2, MemberIsSound
<1> QED
  BY <1>4, <1>5

-----------------------------------------------------------------------------
(* What an evaluation concludes from a sound series.                       *)

\* What a window says is true, and can be divided by.
IsTrue(w) ==
    /\ AtLeast(w.seen, w.counts) /\ w.counts.blocked <= w.counts.queries
    /\ w.counts \in Counts /\ w.elapsed \in Nat /\ w.elapsed > 0

LEMMA WindowIsTrue ==
    ASSUME NEW p \in Reading, NEW c \in Reading, NEW i, Covers(p, c), IsWindow(p, c)
    PROVE  /\ IsTrue(Window(i, p, c))
           /\ Window(i, p, c).from = i /\ Window(i, p, c).end = c.time
<1>1. /\ p.counts \in Seen /\ c.counts \in Seen /\ AtLeast(c.counts, p.counts)
      /\ c.time - p.time \in 1..MaximumGap
      /\ Minus(c.counts, p.counts).blocked <= Minus(c.counts, p.counts).queries
  BY DEF Reading, IsWindow
<1>2. Minus(c.counts, p.counts) \in Counts
  BY <1>1 DEF Seen, Counts, Minus, AtLeast
<1>3. /\ Window(i, p, c).counts = Minus(c.counts, p.counts)
      /\ Window(i, p, c).elapsed = c.time - p.time
      /\ Window(i, p, c).seen = Minus(c.seen, p.seen)
      /\ Window(i, p, c).from = i /\ Window(i, p, c).end = c.time
  BY DEF Window
<1>4. c.time - p.time \in Nat /\ c.time - p.time > 0
  BY <1>1, ThresholdsAssumption
<1> QED
  BY <1>1, <1>2, <1>3, <1>4 DEF IsTrue, Covers

LEMMA BasisFacts ==
    ASSUME NEW series, NEW point, Sound(series, point), NEW b, b = Basis(series, point)
    PROVE  /\ IsFiniteSet(DOMAIN b.history)
           /\ \A p \in DOMAIN b.history : /\ IsTrue(b.history[p]) /\ b.history[p].from \in DOMAIN series
                                          /\ Hour[b.history[p].end] = Hour[point.time]
           /\ \A w \in b.current : IsTrue(w) /\ w.from \in DOMAIN series
           /\ \A v, w \in b.current : v = w
           /\ b.aged \in BOOLEAN
           /\ b.aged <=> \E time \in b.times : time <= point.time - Learning
<1> DEFINE D == DOMAIN series
           hour == Hour[point.time]
           P == {p \in Pairs(series) : Hour[series[p[2]].time] = hour}
<1>1. /\ b.aged = Aged(series, point.time) /\ b.times = {series[i].time : i \in D}
      /\ b.history = SameHour(series, hour) /\ b.current = Current(series, point)
  BY DEF Basis
<1>2. /\ IsFiniteSet(D) /\ D \subseteq Int /\ point \in Reading
      /\ \A i \in D : /\ series[i] \in Reading /\ Covers(series[i], point)
                      /\ \A j \in D : i <= j => series[i].time <= series[j].time /\ Covers(series[i], series[j])
  BY DEF Sound
<1>3. /\ DOMAIN b.history = P
      /\ \A p \in P : b.history[p] = Window(p[1], series[p[1]], series[p[2]])
  BY <1>1 DEF SameHour
<1>4. ASSUME NEW p \in P
      PROVE  /\ p \in D \X D /\ p[1] \in D /\ p[2] \in D /\ p[1] < p[2]
             /\ IsWindow(series[p[1]], series[p[2]]) /\ Hour[series[p[2]].time] = hour
  BY DEF Pairs
<1>5. IsFiniteSet(P)
  <2>1. P \in SUBSET (D \X D)  BY <1>4
  <2> HIDE DEF P, D
  <2> QED  BY <1>2, <2>1, FS_Product, FS_Subset
<1>6. ASSUME NEW p \in P
      PROVE  /\ IsTrue(b.history[p]) /\ b.history[p].from \in D
             /\ Hour[b.history[p].end] = hour
  <2>1. p[1] \in D /\ p[2] \in D /\ p[1] <= p[2]
    BY <1>2, <1>4
  <2>2. /\ series[p[1]] \in Reading /\ series[p[2]] \in Reading
        /\ Covers(series[p[1]], series[p[2]]) /\ IsWindow(series[p[1]], series[p[2]])
        /\ Hour[series[p[2]].time] = hour
    BY <1>2, <1>4, <2>1
  <2> HIDE DEF P, D, hour
  <2> QED  BY <1>3, <2>1, <2>2, WindowIsTrue
<1>7. ASSUME NEW w \in b.current
      PROVE  IsTrue(w) /\ w.from \in D
  <2>1. PICK i \in Newest(D) : w = Window(i, series[i], point) /\ IsWindow(series[i], point)
    BY <1>1 DEF Current
  <2>2. i \in D
    BY DEF Newest
  <2>3. series[i] \in Reading /\ point \in Reading /\ Covers(series[i], point)
    BY <1>2, <2>2
  <2> QED  BY <2>1, <2>2, <2>3, WindowIsTrue
<1>8. ASSUME NEW v \in b.current, NEW w \in b.current
      PROVE  v = w
  <2>1. PICK i \in Newest(D) : v = Window(i, series[i], point)
    BY <1>1 DEF Current
  <2>2. PICK j \in Newest(D) : w = Window(j, series[j], point)
    BY <1>1 DEF Current
  <2>3. i = j
    BY <1>2 DEF Newest
  <2> QED  BY <2>1, <2>2, <2>3
<1>9. b.aged \in BOOLEAN /\ (b.aged <=> \E time \in b.times : time <= point.time - Learning)
  <2>0. point.time \in Int /\ Learning \in Int /\ \A i \in D : series[i].time \in Int
    BY <1>2, ThresholdsAssumption DEF Reading
  <2>1. ASSUME NEW i \in Oldest(D), point.time - series[i].time >= Learning
        PROVE  \E time \in b.times : time <= point.time - Learning
    <3>1. i \in D  BY DEF Oldest
    <3> QED  BY <1>1, <2>0, <2>1, <3>1
  <2>2. ASSUME NEW time \in b.times, time <= point.time - Learning
        PROVE  Aged(series, point.time)
    <3>1. PICK i \in D : time = series[i].time
      BY <1>1
    <3>2. PICK o \in Oldest(D) : o \in D
      <4> HIDE DEF D
      <4> QED  BY <1>2, <3>1, OldestExists
    <3>3. series[o].time <= time
      BY <1>2, <3>1, <3>2 DEF Oldest
    <3>4. point.time - series[o].time >= Learning
      BY <2>0, <2>2, <3>1, <3>2, <3>3
    <3> QED  BY <3>2, <3>4 DEF Aged
  <2> QED  BY <1>1, <2>1, <2>2 DEF Aged
<1> HIDE DEF P, D, hour
<1> QED
  BY <1>3, <1>5, <1>6, <1>7, <1>8, <1>9 DEF D, hour

LEMMA Quotient == ASSUME NEW a \in Nat, NEW b \in Nat, b > 0  PROVE a \div b \in Nat
OBVIOUS

LEMMA Product == ASSUME NEW a \in Nat, NEW b \in Nat  PROVE a * b \in Nat
OBVIOUS

LEMMA FractionsAreNumbers ==
    ASSUME NEW w, IsTrue(w)
    PROVE  Rate(w) \in Nat /\ Ratio(w) \in Nat /\ w.counts.queries \in Nat
<1>1. w.counts.queries \in Nat /\ w.counts.blocked \in Nat /\ w.elapsed \in Nat /\ w.elapsed > 0
  BY DEF IsTrue, Counts
<1>2. w.counts.queries * Scale \in Nat /\ w.counts.blocked * Scale \in Nat
  BY <1>1, Product, ScaleAssumption
<1>3. Rate(w) \in Nat
  BY <1>1, <1>2, Quotient DEF Rate
<1>4. Ratio(w) \in Nat
  BY <1>1, <1>2, Quotient DEF Ratio
<1> QED
  BY <1>1, <1>3, <1>4

-----------------------------------------------------------------------------
(* The properties.                                                          *)

LEMMA StepNeverOvercounts == ASSUME StoreInv, CommitRun  PROVE NeverOvercounts'
<1> SUFFICES ASSUME NEW s \in DOMAIN used', NEW w \in WindowsOf(used'[s])
             PROVE  AtLeast(w.seen, w.counts) /\ w.counts.blocked <= w.counts.queries
  BY DEF NeverOvercounts
<1>1. PICK series, point : used'[s] = Basis(series, point) /\ Sound(series, point)
  BY UsedIsSound
<1>2. IsTrue(w)
  BY <1>1, BasisFacts DEF WindowsOf, Range
<1> QED
  BY <1>2 DEF IsTrue

LEMMA StepBridgesNoBarrier == ASSUME StoreInv, CommitRun  PROVE NoWindowBridgesABarrier'
<1>0. origin' = origin
  BY CommitStores
<1> SUFFICES ASSUME NEW s \in DOMAIN used', NEW w \in WindowsOf(used'[s]),
                    NEW t \in Subject(s), NEW i \in Inexact(origin, t)
             PROVE  w.from > i
  BY <1>0 DEF NoWindowBridgesABarrier, Subject
<1>1. PICK series, point : /\ used'[s] = Basis(series, point)
                           /\ Sound(series, point) /\ Unbarred(s, series)
  BY UsedIsSound
<1>2. w.from \in DOMAIN series /\ w.from \in Int
  <2>1. w.from \in DOMAIN series
    BY <1>1, BasisFacts DEF WindowsOf, Range
  <2> QED  BY <1>1, <2>1 DEF Sound
<1>3. t \in Member
  <2>1. s \in Member \cup {"group"}
    <3>1. PICK attending, cutoff : attending \in SUBSET Member /\ cutoff \in Int /\ Uses(attending, cutoff)
      BY CommitStores
    <3> QED  BY <3>1 DEF Uses, Evaluated
  <2> QED  BY <2>1 DEF Subject
<1>4. PICK j \in Inexact(runs, t) : i <= j
  BY <1>3 DEF StoreInv, BarriersAreKept
<1>5. /\ Inexact(runs, t) \in SUBSET Int /\ IsFiniteSet(Inexact(runs, t)) /\ i \in Int
  <2>1. IsStore(runs) /\ IsStore(origin)
    BY DEF StoreInv, TypeOK
  <2>2. Inexact(runs, t) \in SUBSET (DOMAIN runs) /\ i \in DOMAIN origin
    BY DEF Inexact
  <2> QED  BY <2>1, <2>2, FS_Subset DEF IsStore
<1>6. PICK b \in Newest(Inexact(runs, t)) : j <= b
  BY <1>5, NewestCovers
<1>7. b \in Int /\ w.from > b
  <2>1. b \in Inexact(runs, t) /\ b \in Barrier(runs, t)
    BY DEF Newest, Barrier
  <2> QED  BY <1>1, <1>2, <1>5, <2>1 DEF Unbarred
<1> QED
  BY <1>2, <1>4, <1>5, <1>6, <1>7

LEMMA StepSupportsVerdicts == ASSUME StoreInv, CommitRun  PROVE VerdictsAreSupported'
<1> SUFFICES ASSUME NEW s \in DOMAIN used', NEW b, b = used'[s]
             PROVE  LET old == \E time \in b.times : time <= now' - Learning
                        ofHour == \A p \in DOMAIN b.history : Hour[b.history[p].end] = Hour[now']
                        ratios == {p \in DOMAIN b.history : b.history[p].counts.queries >= MinimumQueries}
                    IN  /\ RateVerdict(b) \in {"active", "clear"} <=>
                              old /\ ofHour /\ Cardinality(DOMAIN b.history) >= MinimumWindows /\ b.current # {}
                        /\ {RatioVerdict(b), CollapseVerdict(b)} \subseteq {"active", "clear"} <=>
                              /\ old /\ ofHour /\ Cardinality(ratios) >= MinimumWindows
                              /\ \E w \in b.current : w.counts.queries >= MinimumQueries
  BY DEF VerdictsAreSupported
<1>1. PICK series, point : b = Basis(series, point) /\ Sound(series, point) /\ point.time = now'
  BY UsedIsSound
<1>2. /\ \A p \in DOMAIN b.history : Hour[b.history[p].end] = Hour[now']
      /\ \A v, w \in b.current : v = w
      /\ b.aged \in BOOLEAN
      /\ b.aged <=> \E time \in b.times : time <= now' - Learning
  BY <1>1, BasisFacts
<1> DEFINE ratios == {p \in DOMAIN b.history : b.history[p].counts.queries >= MinimumQueries}
           w0 == CHOOSE w \in b.current : TRUE
<1>3. Trained(b, Rates(b)) <=> b.aged /\ Cardinality(DOMAIN b.history) >= MinimumWindows
  BY DEF Trained, Rates
<1>4. Trained(b, Ratios(b)) <=> b.aged /\ Cardinality(ratios) >= MinimumWindows
  BY DEF Trained, Ratios, ComparableWindows, Comparable
<1>5. RateVerdict(b) \in {"active", "clear"} <=> Trained(b, Rates(b)) /\ b.current # {}
  BY DEF RateVerdict
<1>6. RatioSupport(b) = "compared" <=>
         Trained(b, Ratios(b)) /\ \E w \in b.current : w.counts.queries >= MinimumQueries
  <2>1. b.current # {} => w0 \in b.current /\ \A w \in b.current : w = w0
    BY <1>2
  <2>2. Comparable(w0) <=> w0.counts.queries >= MinimumQueries
    BY DEF Comparable
  <2>3. RatioSupport(b) = "compared" <=> Trained(b, Ratios(b)) /\ b.current # {} /\ Comparable(w0)
    BY DEF RatioSupport
  <2> HIDE DEF w0
  <2> QED  BY <2>1, <2>2, <2>3
<1>7. RatioSupport(b) \in {"baseline_learning", "rate_window_unavailable", "window_too_small", "compared"}
  BY DEF RatioSupport
<1>8. /\ RatioVerdict(b) \in {"active", "clear"} <=> RatioSupport(b) = "compared"
      /\ CollapseVerdict(b) \in {"active", "clear"} <=> RatioSupport(b) = "compared"
  BY <1>7 DEF RatioVerdict, CollapseVerdict
<1>9. {RatioVerdict(b), CollapseVerdict(b)} \subseteq {"active", "clear"} <=> RatioSupport(b) = "compared"
  BY <1>8
<1> HIDE DEF w0
<1> QED
  BY <1>2, <1>3, <1>4, <1>5, <1>6, <1>9

LEMMA StepAlarmsExceptionally == ASSUME StoreInv, CommitRun  PROVE AlarmsAreExceptional'
<1> SUFFICES ASSUME NEW s \in DOMAIN used', NEW b, b = used'[s], NEW w \in b.current
             PROVE  /\ RateVerdict(b) = "active" =>
                          2 * Cardinality({p \in DOMAIN b.history : 3 * Rate(b.history[p]) < Rate(w)})
                             >= Cardinality(DOMAIN b.history)
                    /\ CollapseVerdict(b) = "active" =>
                          2 * Cardinality({p \in ComparableWindows(b) : Ratio(b.history[p]) > 4 * Ratio(w)})
                             >= Cardinality(ComparableWindows(b))
  BY DEF AlarmsAreExceptional
<1>1. PICK series, point : b = Basis(series, point) /\ Sound(series, point)
  BY UsedIsSound
<1> DEFINE D == DOMAIN b.history
           C == ComparableWindows(b)
           w0 == CHOOSE v \in b.current : TRUE
<1>2. /\ IsFiniteSet(D) /\ C \in SUBSET D /\ IsFiniteSet(C) /\ w0 = w
      /\ \A p \in D : IsTrue(b.history[p])
      /\ IsTrue(w)
  <2>1. /\ IsFiniteSet(D) /\ \A p \in D : IsTrue(b.history[p])
        /\ \A u \in b.current : IsTrue(u)
        /\ \A u, v \in b.current : u = v
    BY <1>1, BasisFacts
  <2>2. C \in SUBSET D
    BY DEF ComparableWindows
  <2> HIDE DEF C, D
  <2>3. IsFiniteSet(C)
    BY <2>1, <2>2, FS_Subset
  <2> QED  BY <2>1, <2>2, <2>3
<1>3. /\ Rate(w) \in Nat /\ Ratio(w) \in Nat
      /\ \A p \in D : Rate(b.history[p]) \in Nat /\ Ratio(b.history[p]) \in Nat
  BY <1>2, FractionsAreNumbers
<1>4. ASSUME RateVerdict(b) = "active"
      PROVE  2 * Cardinality({p \in D : 3 * Rate(b.history[p]) < Rate(w)}) >= Cardinality(D)
  <2> DEFINE f == Rates(b)
             Low == {p \in D : 3 * Rate(b.history[p]) < Rate(w)}
  <2>1. /\ Trained(b, f) /\ b.current # {}
        /\ 2 * Rate(w0) > 3 * Bounds(f).m2
    BY <1>4 DEF RateVerdict
  <2>2. f \in [D -> Nat] /\ \A p \in D : f[p] = Rate(b.history[p])
    BY <1>3 DEF Rates
  <2>3. D # {}
    <3>1. Cardinality(D) >= MinimumWindows
      BY <2>1 DEF Trained, Rates
    <3>2. Cardinality(D) # 0
      BY <3>1, ThresholdsAssumption
    <3> HIDE DEF D
    <3> QED  BY <3>2, FS_EmptySet
  <2>4. Bounds(f).m2 = DoubleMedian(f)
    BY DEF Bounds
  <2> HIDE DEF f, D, w0
  <2>5. PICK l, u \in Nat : /\ DoubleMedian(f) = l + u /\ l <= u
                            /\ 2 * Cardinality({d \in D : f[d] <= l}) >= Cardinality(D)
                            /\ 2 * Cardinality({d \in D : f[d] >= u}) >= Cardinality(D)
    BY <1>2, <2>2, <2>3, MedianHalves, Zenon
  <2>6. Rate(w) > 3 * l
    BY <1>2, <1>3, <2>1, <2>4, <2>5
  <2>7. {d \in D : f[d] <= l} \in SUBSET Low
    <3> SUFFICES ASSUME NEW d \in D, f[d] <= l  PROVE 3 * Rate(b.history[d]) < Rate(w)
      OBVIOUS
    <3>1. Rate(b.history[d]) <= l /\ Rate(b.history[d]) \in Nat
      BY <1>3, <2>2
    <3> QED  BY <1>3, <2>6, <3>1
  <2>8. Cardinality({d \in D : f[d] <= l}) <= Cardinality(Low)
        /\ Cardinality(Low) \in Nat /\ Cardinality({d \in D : f[d] <= l}) \in Nat /\ Cardinality(D) \in Nat
    <3>1. Low \in SUBSET D  OBVIOUS
    <3> HIDE DEF Low
    <3>2. IsFiniteSet(Low)  BY <1>2, <3>1, FS_Subset
    <3> QED  BY <1>2, <2>7, <3>2, SmallerPart, FS_CardinalityType
  <2> HIDE DEF Low
  <2>9. 2 * Cardinality(Low) >= Cardinality(D)
    BY <2>5, <2>8
  <2> QED  BY <2>9 DEF Low
<1>5. ASSUME CollapseVerdict(b) = "active"
      PROVE  2 * Cardinality({p \in C : Ratio(b.history[p]) > 4 * Ratio(w)}) >= Cardinality(C)
  <2> DEFINE f == Ratios(b)
             High == {p \in C : Ratio(b.history[p]) > 4 * Ratio(w)}
  <2>1. /\ Trained(b, f) /\ b.current # {}
        /\ 8 * Ratio(w0) < Bounds(f).m2
    BY <1>5 DEF CollapseVerdict, RatioSupport
  <2>2. f \in [C -> Nat] /\ \A p \in C : f[p] = Ratio(b.history[p])
    BY <1>2, <1>3 DEF Ratios
  <2>3. C # {}
    <3>1. Cardinality(C) >= MinimumWindows
      BY <2>1 DEF Trained, Ratios
    <3>2. Cardinality(C) # 0
      BY <3>1, ThresholdsAssumption
    <3> HIDE DEF C
    <3> QED  BY <3>2, FS_EmptySet
  <2>4. Bounds(f).m2 = DoubleMedian(f)
    BY DEF Bounds
  <2> HIDE DEF f, C, D, w0
  <2>5. PICK l, u \in Nat : /\ DoubleMedian(f) = l + u /\ l <= u
                            /\ 2 * Cardinality({d \in C : f[d] <= l}) >= Cardinality(C)
                            /\ 2 * Cardinality({d \in C : f[d] >= u}) >= Cardinality(C)
    BY <1>2, <2>2, <2>3, MedianHalves, Zenon
  <2>6. u > 4 * Ratio(w)
    BY <1>2, <1>3, <2>1, <2>4, <2>5
  <2>7. {d \in C : f[d] >= u} \in SUBSET High
    <3> SUFFICES ASSUME NEW d \in C, f[d] >= u  PROVE Ratio(b.history[d]) > 4 * Ratio(w)
      OBVIOUS
    <3>1. Ratio(b.history[d]) >= u /\ Ratio(b.history[d]) \in Nat
      BY <1>2, <1>3, <2>2
    <3> QED  BY <1>3, <2>6, <3>1
  <2>8. Cardinality({d \in C : f[d] >= u}) <= Cardinality(High)
        /\ Cardinality(High) \in Nat /\ Cardinality({d \in C : f[d] >= u}) \in Nat /\ Cardinality(C) \in Nat
    <3>1. High \in SUBSET C  OBVIOUS
    <3> HIDE DEF High
    <3>2. IsFiniteSet(High)  BY <1>2, <3>1, FS_Subset
    <3> QED  BY <1>2, <2>7, <3>2, SmallerPart, FS_CardinalityType
  <2> HIDE DEF High
  <2>9. 2 * Cardinality(High) >= Cardinality(C)
    BY <2>5, <2>8
  <2> QED  BY <2>9 DEF High
<1> QED
  BY <1>4, <1>5

LEMMA InitUsesNothing ==
    Init => NeverOvercounts /\ NoWindowBridgesABarrier /\ VerdictsAreSupported /\ AlarmsAreExceptional
<1> SUFFICES ASSUME Init PROVE DOMAIN used = {}
  BY DEF NeverOvercounts, NoWindowBridgesABarrier, VerdictsAreSupported, AlarmsAreExceptional
<1> QED
  BY DEF Init

LEMMA StutterKeeps == IInv /\ UNCHANGED vars => IInv'
<1> SUFFICES ASSUME IInv, UNCHANGED vars PROVE IInv'
  OBVIOUS
<1>1. /\ now' = now /\ counter' = counter /\ total' = total /\ runs' = runs /\ origin' = origin
      /\ committed' = committed /\ used' = used
  BY DEF vars
<1>2. StoreInv'
  BY <1>1 DEF IInv, StoreInv, TypeOK, InOrder, UntoldGrows, BarriersAreKept
<1>3. NeverOvercounts' /\ NoWindowBridgesABarrier'
  BY <1>1 DEF IInv, NeverOvercounts, NoWindowBridgesABarrier
<1>4. VerdictsAreSupported' /\ AlarmsAreExceptional'
  BY <1>1 DEF IInv, VerdictsAreSupported, AlarmsAreExceptional
<1> QED
  BY <1>2, <1>3, <1>4 DEF IInv

(* The inductive invariant holds for any resolvers, traffic, attendance,    *)
(* retention, migrated readings and number of runs.                         *)
THEOREM Invariant == Spec => []IInv
<1>1. Init => IInv
  BY InitStore, InitUsesNothing DEF IInv
<1>2. IInv /\ [Next]_vars => IInv'
  <2>1. IInv /\ CommitRun => IInv'
    BY CommitKeepsStore, StepNeverOvercounts, StepBridgesNoBarrier, StepSupportsVerdicts,
       StepAlarmsExceptionally DEF IInv
  <2> QED
    BY <2>1, StutterKeeps DEF Next
<1> QED
  BY <1>1, <1>2, PTL DEF Spec

(* No window of a resolver or of the group holds more than what really      *)
(* happened between its readings.                                           *)
THEOREM WindowsAreTrue == Spec => []NeverOvercounts
<1>1. IInv => NeverOvercounts  BY DEF IInv
<1> QED  BY <1>1, Invariant, PTL

(* No window reaches over a migrated inexact reading of its subject.       *)
THEOREM BarriersHold == Spec => []NoWindowBridgesABarrier
<1>1. IInv => NoWindowBridgesABarrier  BY DEF IInv
<1> QED  BY <1>1, Invariant, PTL

(* A verdict other than "insufficient" is given exactly when there are      *)
(* enough windows of the hour, an old enough history and a current window.  *)
THEOREM VerdictsHaveSupport == Spec => []VerdictsAreSupported
<1>1. IInv => VerdictsAreSupported  BY DEF IInv
<1> QED  BY <1>1, Invariant, PTL

(* An alarming rate exceeds three times that of half of the windows of its  *)
(* hour, and a collapsed ratio is below a quarter of that of half of them.  *)
THEOREM AlarmsOutweighHalf == Spec => []AlarmsAreExceptional
<1>1. IInv => AlarmsAreExceptional  BY DEF IInv
<1> QED  BY <1>1, Invariant, PTL

-----------------------------------------------------------------------------
(* When a history is old enough.                                           *)

\* The series that a subject is evaluated from.
SeriesOf(s, cutoff) == IF s = "group" THEN GroupSeries(cutoff) ELSE Series(s, cutoff)

(* What a step keeps, and what its evaluations take for the history.       *)
LEMMA EvaluatedFrom ==
    ASSUME StoreInv, CommitRun
    PROVE  \E step \in Steps : \E retention \in Retention : \E attending, evidence, stored :
              /\ now' = now + step /\ attending \in SUBSET Member
              /\ Stores(attending, now' - retention, evidence, stored)
              /\ \A s \in DOMAIN used' :
                   /\ s \in Member \cup {"group"}
                   /\ used'[s].aged = Aged(SeriesOf(s, now' - retention), now')
                   /\ used'[s].times = {SeriesOf(s, now' - retention)[i].time :
                                          i \in DOMAIN SeriesOf(s, now' - retention)}
<1>1. PICK attending, cutoff, evidence, stored :
        /\ attending \in SUBSET Member
        /\ Stores(attending, cutoff, evidence, stored) /\ Uses(attending, cutoff)
        /\ \E step \in Steps : now' = now + step
        /\ \E retention \in Retention : cutoff = now' - retention
  BY CommitStores
<1>2. ASSUME NEW s \in DOMAIN used'
      PROVE  /\ s \in Member \cup {"group"}
             /\ \E point : used'[s] = Basis(SeriesOf(s, cutoff), point) /\ point.time = now'
  <2>1. s \in Evaluated(attending, cutoff, counter')
    BY <1>1, <1>2 DEF Uses
  <2>2. \A c, e : Point(now', c, e).time = now'
    BY DEF Point
  <2>3. \E c, e : used'[s] = Basis(SeriesOf(s, cutoff), Point(now', c, e))
    BY <1>1, <2>1 DEF Uses, SeriesOf
  <2> QED
    BY <1>1, <2>1, <2>2, <2>3 DEF Evaluated
<1>3. ASSUME NEW s \in DOMAIN used'
      PROVE  /\ used'[s].aged = Aged(SeriesOf(s, cutoff), now')
             /\ used'[s].times = {SeriesOf(s, cutoff)[i].time : i \in DOMAIN SeriesOf(s, cutoff)}
  <2>1. PICK point : used'[s] = Basis(SeriesOf(s, cutoff), point) /\ point.time = now'
    BY <1>2
  <2> QED
    BY <2>1 DEF Basis
<1> QED
  BY <1>1, <1>2, <1>3

(* What is in the history of a subject.                                    *)
LEMMA HistoryOf ==
    ASSUME StoreInv, Member # {}, NEW s \in Member \cup {"group"}, NEW cutoff \in Int
    PROVE  /\ IsFiniteSet(DOMAIN SeriesOf(s, cutoff)) /\ DOMAIN SeriesOf(s, cutoff) \in SUBSET Int
           /\ \A i \in DOMAIN SeriesOf(s, cutoff) :
                /\ i \in DOMAIN runs /\ runs[i].time >= cutoff
                /\ SeriesOf(s, cutoff)[i].time = runs[i].time
           /\ \A i \in DOMAIN runs :
                /\ runs[i].time >= cutoff /\ DOMAIN runs[i].readings = Member
                /\ \A t \in Member : Inexact(runs, t) = {}
                => i \in DOMAIN SeriesOf(s, cutoff)
<1>1. IsFiniteSet(DOMAIN runs) /\ DOMAIN runs \subseteq Int
  BY DEF StoreInv, TypeOK, IsStore
<1>2. ASSUME NEW t \in Member, NEW i \in Samples(t, cutoff)
      PROVE  i \in DOMAIN runs /\ runs[i].time >= cutoff
  BY DEF Samples, Exact
<1>3. ASSUME NEW t \in Member, NEW i \in DOMAIN runs,
             runs[i].time >= cutoff, DOMAIN runs[i].readings = Member, Inexact(runs, t) = {}
      PROVE  i \in Samples(t, cutoff)
  BY <1>3 DEF Samples, Exact, Inexact, Barrier, Newest
<1>4. CASE s = "group"
  <2> DEFINE series == GroupSeries(cutoff)
  <2>1. /\ DOMAIN series = {i \in DOMAIN runs : AllMembers(i, cutoff)}
        /\ \A i \in DOMAIN series : series[i].time = runs[i].time
    BY DEF GroupSeries, Point
  <2>2. \A i \in DOMAIN series : runs[i].time >= cutoff
    <3>1. PICK t \in Member : TRUE
      OBVIOUS
    <3>2. \A i \in DOMAIN series : i \in Samples(t, cutoff)
      BY <2>1 DEF AllMembers, Present
    <3> QED
      BY <1>2, <3>2
  <2>3. SeriesOf(s, cutoff) = series
    BY <1>4 DEF SeriesOf
  <2>4. ASSUME NEW i \in DOMAIN runs, runs[i].time >= cutoff, DOMAIN runs[i].readings = Member,
               \A t \in Member : Inexact(runs, t) = {}
        PROVE  i \in DOMAIN series
    <3>1. \A t \in Member : i \in Samples(t, cutoff)
      BY <1>3, <2>4
    <3>2. AllMembers(i, cutoff)
      BY <3>1 DEF AllMembers, Present
    <3> QED
      BY <2>1, <3>2
  <2>5. DOMAIN series \in SUBSET (DOMAIN runs)
    BY <2>1
  <2> HIDE DEF series
  <2>6. IsFiniteSet(DOMAIN series) /\ DOMAIN series \in SUBSET Int
    BY <1>1, <2>5, FS_Subset
  <2> QED
    BY <2>1, <2>2, <2>3, <2>4, <2>5, <2>6
<1>5. CASE s # "group"
  <2> DEFINE series == Series(s, cutoff)
  <2>1. s \in Member
    BY <1>5
  <2>2. /\ DOMAIN series = Samples(s, cutoff)
        /\ \A i \in DOMAIN series : series[i].time = runs[i].time
    BY DEF Series, Point
  <2>3. SeriesOf(s, cutoff) = series
    BY <1>5 DEF SeriesOf
  <2>4. DOMAIN series \in SUBSET (DOMAIN runs)
    BY <1>2, <2>1, <2>2
  <2> HIDE DEF series
  <2>5. IsFiniteSet(DOMAIN series) /\ DOMAIN series \in SUBSET Int
    BY <1>1, <2>4, FS_Subset
  <2> QED
    BY <1>2, <1>3, <2>1, <2>2, <2>3, <2>4, <2>5
<1> QED
  BY <1>4, <1>5

\* A history that is old enough has a reading of exactly the age it has to have.
AgedByTheSecond == \A s \in DOMAIN used : used[s].aged => now - Learning \in used[s].times

LEMMA StepAgesByTheSecond ==
    ASSUME StoreInv, CommitRun, Member # {}, Retention \subseteq {Learning}
    PROVE  AgedByTheSecond'
<1>1. PICK retention \in Retention : \A s \in DOMAIN used' :
        /\ s \in Member \cup {"group"}
        /\ used'[s].aged = Aged(SeriesOf(s, now' - retention), now')
        /\ used'[s].times = {SeriesOf(s, now' - retention)[i].time :
                               i \in DOMAIN SeriesOf(s, now' - retention)}
  BY EvaluatedFrom
<1>2. retention = Learning /\ Learning \in Nat /\ now' \in Int
  BY CommitStores, ThresholdsAssumption
<1>3. ASSUME NEW s \in DOMAIN used', used'[s].aged
      PROVE  now' - Learning \in used'[s].times
  <2> DEFINE series == SeriesOf(s, now' - Learning)
  <2>1. PICK i \in Oldest(DOMAIN series) : now' - series[i].time >= Learning
    BY <1>1, <1>2, <1>3 DEF Aged
  <2>2. i \in DOMAIN series
    BY DEF Oldest
  <2>3. i \in DOMAIN runs /\ runs[i].time >= now' - Learning /\ series[i].time = runs[i].time
    <3>1. s \in Member \cup {"group"} /\ now' - Learning \in Int
      BY <1>1, <1>2
    <3>2. \A j \in DOMAIN series : /\ j \in DOMAIN runs /\ runs[j].time >= now' - Learning
                                   /\ series[j].time = runs[j].time
      BY <3>1, HistoryOf
    <3> HIDE DEF series
    <3> QED
      BY <2>2, <3>2
  <2>4. runs[i].time \in Int
    BY <2>3 DEF StoreInv, TypeOK, IsStore
  <2>5. series[i].time = now' - Learning
    BY <1>2, <2>1, <2>3, <2>4
  <2>6. used'[s].times = {series[j].time : j \in DOMAIN series}
    BY <1>1, <1>2
  <2> HIDE DEF series
  <2> QED
    BY <2>2, <2>5, <2>6
<1> QED
  BY <1>3 DEF AgedByTheSecond

(* With the smallest retention that the validation admits, retention_days =  *)
(* learning_days, evaluate_behavior takes a history for old enough only if   *)
(* one of its readings is learning_days old to the second: what the          *)
(* counterexample to LearnsInTime is an instance of.                        *)
THEOREM ShortestRetentionLearnsByTheSecond ==
    ASSUME Member # {}, Retention \subseteq {Learning}
    PROVE  Spec => []AgedByTheSecond
<1>1. Init => AgedByTheSecond
  BY DEF Init, AgedByTheSecond
<1>2. IInv /\ AgedByTheSecond /\ [Next]_vars => AgedByTheSecond'
  <2>1. IInv /\ CommitRun => AgedByTheSecond'
    BY StepAgesByTheSecond DEF IInv
  <2>2. AgedByTheSecond /\ UNCHANGED vars => AgedByTheSecond'
    BY DEF vars, AgedByTheSecond
  <2> QED
    BY <2>1, <2>2 DEF Next
<1> QED
  BY <1>1, <1>2, Invariant, PTL DEF Spec

\* The times from `gap` on that are within reach have a run of the last `gap`
\* seconds, in a state that is not migrated.
NoGaps(gap) ==
    origin = <<>> =>
        /\ committed = 0 => now = 0
        /\ \A t \in Member : Inexact(runs, t) = {}
        /\ committed > 0 =>
             /\ committed \in DOMAIN runs /\ runs[committed].time = now
             /\ \A x \in Int : gap <= x /\ x <= now /\ now - Learning <= x =>
                   \E i \in DOMAIN runs : x - gap <= runs[i].time /\ runs[i].time <= x

LEMMA InitHasNoGaps == ASSUME NEW gap, Init  PROVE NoGaps(gap)
<1>1. runs = origin /\ now = 0 /\ committed = 0
  BY DEF Init
<1>2. origin = <<>> => \A t \in Member : Inexact(runs, t) = {}
  BY <1>1 DEF Inexact
<1> QED
  BY <1>1, <1>2 DEF NoGaps

(* What a step removes from the store is further back than any time within  *)
(* reach, if the retention exceeds the learning time by the longest step.   *)
LEMMA StepLeavesNoGaps ==
    ASSUME NEW gap \in Nat, \A step \in Steps : step <= gap,
           \A retention \in Retention : retention >= Learning + gap,
           StoreInv, CommitRun, NoGaps(gap)
    PROVE  NoGaps(gap)'
<1> SUFFICES ASSUME origin = <<>>
             PROVE  /\ committed' > 0
                    /\ \A t \in Member : Inexact(runs', t) = {}
                    /\ committed' \in DOMAIN runs' /\ runs'[committed'].time = now'
                    /\ \A x \in Int : gap <= x /\ x <= now' /\ now' - Learning <= x =>
                          \E i \in DOMAIN runs' : x - gap <= runs'[i].time /\ runs'[i].time <= x
  BY CommitStores DEF NoGaps, StoreInv, TypeOK
<1>1. PICK step \in Steps : \E retention \in Retention : \E attending, evidence, stored :
         /\ now' = now + step /\ attending \in SUBSET Member
         /\ Stores(attending, now' - retention, evidence, stored)
  BY EvaluatedFrom
<1>2. PICK retention \in Retention : \E attending, evidence, stored :
         /\ now' = now + step /\ attending \in SUBSET Member
         /\ Stores(attending, now' - retention, evidence, stored)
  BY <1>1
<1>3. PICK attending, evidence, stored :
         /\ now' = now + step /\ attending \in SUBSET Member
         /\ Stores(attending, now' - retention, evidence, stored)
  BY <1>2
<1> DEFINE n == committed + 1
           cutoff == now' - retention
<1>4. /\ now \in Int /\ now' \in Int /\ step \in Nat /\ retention \in Nat /\ Learning \in Nat
      /\ step <= gap /\ retention >= Learning + gap /\ cutoff \in Int
      /\ committed \in Nat /\ committed' = n
      /\ now' = now + step
  <2>1. now' \in Int /\ committed' = n
    BY CommitStores
  <2>2. now \in Int /\ committed \in Nat
    BY DEF StoreInv, TypeOK
  <2>3. step \in Nat /\ retention \in Nat /\ Learning \in Nat
    BY TimesAssumption, ThresholdsAssumption
  <2> QED
    BY <1>3, <2>1, <2>2, <2>3
<1>5. /\ DOMAIN stored = DOMAIN runs \cup {n}
      /\ \A i \in DOMAIN runs : stored[i] = runs[i] /\ i # n /\ runs[i].time \in Int
      /\ stored[n].time = now' /\ \A t \in attending : stored[n].readings[t].exact
      /\ DOMAIN stored[n].readings = attending
      /\ runs' = Restrict(stored, Retained(stored, cutoff, evidence))
  <2>1. /\ DOMAIN stored = DOMAIN runs \cup {n}
        /\ \A i \in DOMAIN runs : stored[i] = runs[i]
        /\ stored[n] = [time |-> now', seen |-> total',
             readings |-> [t \in attending |-> [counts |-> counter'[t], exact |-> TRUE]]]
        /\ runs' = Restrict(stored, Retained(stored, cutoff, evidence))
    BY <1>3 DEF Stores
  <2>2. \A i \in DOMAIN runs : i # n /\ runs[i].time \in Int
    <3>1. \A i \in DOMAIN runs : i \in Int /\ i <= committed /\ runs[i].time \in Int
      BY DEF StoreInv, TypeOK, IsStore, InOrder
    <3> QED
      BY <1>4, <3>1
  <2> HIDE DEF n, cutoff
  <2> QED
    BY <2>1, <2>2
<1> HIDE DEF n, cutoff
<1>6. /\ DOMAIN runs' \subseteq DOMAIN runs \cup {n}
      /\ \A i \in DOMAIN runs' : runs'[i] = stored[i]
      /\ \A i \in DOMAIN stored : stored[i].time >= cutoff => i \in DOMAIN runs'
  BY <1>5 DEF Restrict, Retained
<1>7. n \in DOMAIN runs' /\ runs'[n].time = now'
  <2>1. now' >= cutoff
    BY <1>4 DEF cutoff
  <2> QED
    BY <1>5, <1>6, <2>1
<1>8. ASSUME NEW t \in Member
      PROVE  Inexact(runs', t) = {}
  <2>1. Inexact(runs, t) = {}
    BY DEF NoGaps
  <2>2. ASSUME NEW i \in DOMAIN runs', t \in DOMAIN runs'[i].readings, ~runs'[i].readings[t].exact
        PROVE  FALSE
    <3>1. CASE i = n
      BY <1>5, <1>6, <2>2, <3>1
    <3>2. CASE i # n
      <4>1. i \in DOMAIN runs /\ runs'[i] = runs[i]
        BY <1>5, <1>6, <3>2
      <4> QED
        BY <2>1, <2>2, <4>1 DEF Inexact
    <3> QED
      BY <3>1, <3>2
  <2> QED
    BY <2>2 DEF Inexact
<1>9. ASSUME NEW x \in Int, gap <= x, x <= now', now' - Learning <= x
      PROVE  \E i \in DOMAIN runs' : x - gap <= runs'[i].time /\ runs'[i].time <= x
  <2>1. cutoff <= x - gap
    BY <1>4, <1>9 DEF cutoff
  <2>2. ASSUME NEW i \in DOMAIN runs, x - gap <= runs[i].time
        PROVE  i \in DOMAIN runs' /\ runs'[i].time = runs[i].time
    <3>1. runs[i].time >= cutoff
      BY <1>4, <1>5, <2>1, <2>2
    <3> QED
      BY <1>5, <1>6, <3>1
  <2>3. CASE x = now'
    <3>1. x - gap <= now' /\ now' <= x
      BY <1>4, <2>3
    <3> QED
      BY <1>7, <3>1
  <2>4. CASE x # now' /\ committed = 0
    <3>1. now = 0
      BY <2>4 DEF NoGaps
    <3> QED
      BY <1>4, <1>9, <2>4, <3>1
  <2>5. CASE x # now' /\ committed > 0
    <3>1. /\ committed \in DOMAIN runs /\ runs[committed].time = now
          /\ \A y \in Int : gap <= y /\ y <= now /\ now - Learning <= y =>
                \E i \in DOMAIN runs : y - gap <= runs[i].time /\ runs[i].time <= y
      BY <2>5 DEF NoGaps
    <3>2. CASE x <= now
      <4>1. now - Learning <= x
        BY <1>4, <1>9
      <4>2. PICK i \in DOMAIN runs : x - gap <= runs[i].time /\ runs[i].time <= x
        BY <1>9, <3>1, <3>2, <4>1
      <4> QED
        BY <2>2, <4>2
    <3>3. CASE ~(x <= now)
      <4>1. x - gap <= now /\ now <= x
        BY <1>4, <1>9, <2>5, <3>3
      <4> QED
        BY <2>2, <3>1, <4>1
    <3> QED
      BY <3>2, <3>3
  <2> QED
    BY <1>4, <2>3, <2>4, <2>5
<1>10. committed' > 0 /\ committed' = n
  BY <1>4 DEF n
<1> QED
  BY <1>7, <1>8, <1>9, <1>10, Zenon

(* A history without gaps, all of which is still stored, is old enough.    *)
LEMMA StepLearnsInTime ==
    ASSUME NEW gap \in Nat, gap = Max(Steps), \A step \in Steps : step <= gap,
           \A retention \in Retention : retention >= Learning + gap,
           Learning > 0, Member # {},
           StoreInv, CommitRun, NoGaps(gap)
    PROVE  LearnsInTime'
<1> SUFFICES ASSUME origin = <<>>, \A i \in DOMAIN runs' : DOMAIN runs'[i].readings = Member,
                    now' >= Learning + gap, NEW s \in DOMAIN used'
             PROVE  used'[s].aged
  BY CommitStores DEF LearnsInTime
<1>1. PICK step \in Steps : \E retention \in Retention : \E attending, evidence, stored :
         /\ now' = now + step
         /\ Stores(attending, now' - retention, evidence, stored)
         /\ s \in Member \cup {"group"}
         /\ used'[s].aged = Aged(SeriesOf(s, now' - retention), now')
  BY EvaluatedFrom
<1>2. PICK retention \in Retention : \E attending, evidence, stored :
         /\ now' = now + step
         /\ Stores(attending, now' - retention, evidence, stored)
         /\ s \in Member \cup {"group"}
         /\ used'[s].aged = Aged(SeriesOf(s, now' - retention), now')
  BY <1>1
<1>3. PICK attending, evidence, stored :
         /\ now' = now + step
         /\ Stores(attending, now' - retention, evidence, stored)
         /\ s \in Member \cup {"group"}
         /\ used'[s].aged = Aged(SeriesOf(s, now' - retention), now')
  BY <1>2
<1> DEFINE cutoff == now' - retention
           x == now' - Learning
           series == SeriesOf(s, cutoff)
<1>4. /\ now \in Int /\ now' \in Int /\ step \in Nat /\ retention \in Nat /\ Learning \in Nat
      /\ step <= gap /\ retention >= Learning + gap /\ cutoff \in Int /\ x \in Int
      /\ committed \in Nat
  <2>1. now' \in Int
    BY CommitStores
  <2>2. now \in Int /\ committed \in Nat
    BY DEF StoreInv, TypeOK
  <2>3. step \in Nat /\ retention \in Nat /\ Learning \in Nat
    BY TimesAssumption, ThresholdsAssumption
  <2> QED
    BY <2>1, <2>2, <2>3
<1>5. committed > 0
  <2>1. committed = 0 => now = 0
    BY DEF NoGaps
  <2> QED
    BY <1>3, <1>4, <2>1
<1>6. \E i \in DOMAIN runs : cutoff <= runs[i].time /\ runs[i].time <= x
  <2>1. cutoff <= x - gap
    BY <1>4
  <2>2. /\ committed \in DOMAIN runs /\ runs[committed].time = now
        /\ \A y \in Int : gap <= y /\ y <= now /\ now - Learning <= y =>
              \E i \in DOMAIN runs : y - gap <= runs[i].time /\ runs[i].time <= y
    BY <1>5 DEF NoGaps
  <2>3. CASE x <= now
    <3>1. gap <= x /\ now - Learning <= x
      BY <1>3, <1>4
    <3> HIDE DEF x, cutoff
    <3>2. PICK i \in DOMAIN runs : x - gap <= runs[i].time /\ runs[i].time <= x
      BY <1>4, <2>2, <2>3, <3>1
    <3>3. runs[i].time \in Int
      BY DEF StoreInv, TypeOK, IsStore
    <3> QED
      BY <1>4, <2>1, <3>2, <3>3
  <2>4. CASE ~(x <= now)
    <3>1. cutoff <= now /\ now <= x
      BY <1>3, <1>4, <2>4
    <3> QED
      BY <2>2, <3>1
  <2> QED
    BY <2>3, <2>4
<1>7. PICK i \in DOMAIN runs : cutoff <= runs[i].time /\ runs[i].time <= x
  BY <1>6
<1> HIDE DEF cutoff, x
<1>8. i \in Int /\ runs[i].time \in Int /\ i # committed + 1
  BY <1>4 DEF StoreInv, TypeOK, IsStore, InOrder
<1>9. DOMAIN runs[i].readings = Member
  <2>1. /\ DOMAIN stored = DOMAIN runs \cup {committed + 1} /\ stored[i] = runs[i]
        /\ runs' = Restrict(stored, Retained(stored, cutoff, evidence))
    BY <1>3 DEF Stores, cutoff
  <2>2. i \in Retained(stored, cutoff, evidence)
    BY <1>4, <1>7, <1>8, <2>1 DEF Retained
  <2>3. i \in DOMAIN runs' /\ runs'[i] = runs[i]
    BY <2>1, <2>2 DEF Restrict
  <2> QED
    BY <2>3
<1>10. \A t \in Member : Inexact(runs, t) = {}
  BY DEF NoGaps
<1> HIDE DEF series
<1>11. s \in Member \cup {"group"} /\ used'[s].aged = Aged(series, now')
  BY <1>3 DEF series, cutoff
<1>12. /\ IsFiniteSet(DOMAIN series) /\ DOMAIN series \in SUBSET Int
       /\ \A j \in DOMAIN series : j \in DOMAIN runs /\ series[j].time = runs[j].time
       /\ i \in DOMAIN series
  <2>1. runs[i].time >= cutoff
    BY <1>4, <1>7, <1>8
  <2> QED
    BY <1>4, <1>9, <1>10, <1>11, <2>1, HistoryOf DEF series
<1>13. PICK k \in DOMAIN series : k \in Oldest(DOMAIN series)
  BY <1>12, OldestExists
<1>14. k <= i
  BY <1>12, <1>13 DEF Oldest
<1>15. series[k].time <= runs[i].time /\ series[k].time \in Int
  BY <1>12, <1>14 DEF StoreInv, InOrder, TypeOK, IsStore
<1>16. now' - series[k].time >= Learning
  BY <1>4, <1>7, <1>8, <1>15 DEF x
<1> QED
  BY <1>11, <1>13, <1>16 DEF Aged

(* A new state learns in time, if the retention exceeds learning_days by the *)
(* longest time between two runs: so much added to the "at least" of the     *)
(* validation is enough.  That learning_days is not 0 and that there are     *)
(* members is what the validation of the configuration says.               *)
THEOREM LongerRetentionLearnsInTime ==
    ASSUME IsFiniteSet(Steps), Member # {}, Learning > 0,
           \A retention \in Retention : retention >= Learning + Max(Steps)
    PROVE  Spec => []LearnsInTime
<1> DEFINE gap == Max(Steps)
<1>1. CASE Steps # {}
  <2>1. gap \in Nat /\ \A step \in Steps : step <= gap
    <3>1. Steps \in SUBSET Int /\ Steps \subseteq Nat
      BY TimesAssumption
    <3>2. PICK i \in Steps : TRUE
      BY <1>1
    <3>3. PICK b \in Newest(Steps) : TRUE
      BY <3>1, <3>2, NewestCovers
    <3>4. \E y \in Steps : \A z \in Steps : y >= z
      BY <3>1, <3>3 DEF Newest
    <3>5. gap \in Steps /\ \A z \in Steps : gap >= z
      BY <3>4 DEF Max
    <3> QED
      BY <3>1, <3>5
  <2> HIDE DEF gap
  <2>2. Init => NoGaps(gap) /\ LearnsInTime
    BY InitHasNoGaps DEF Init, LearnsInTime
  <2>3. IInv /\ NoGaps(gap) /\ LearnsInTime /\ [Next]_vars => NoGaps(gap)' /\ LearnsInTime'
    <3>1. gap = Max(Steps) /\ \A retention \in Retention : retention >= Learning + gap
      BY DEF gap
    <3>2. IInv /\ NoGaps(gap) /\ CommitRun => NoGaps(gap)' /\ LearnsInTime'
      BY <2>1, <3>1, StepLeavesNoGaps, StepLearnsInTime DEF IInv
    <3>3. NoGaps(gap) /\ LearnsInTime /\ UNCHANGED vars => NoGaps(gap)' /\ LearnsInTime'
      BY DEF vars, NoGaps, LearnsInTime, Inexact
    <3> QED
      BY <3>2, <3>3 DEF Next
  <2> QED
    BY <2>2, <2>3, Invariant, PTL DEF Spec
<1>2. CASE Steps = {}
  <2>1. Init => LearnsInTime
    BY DEF Init, LearnsInTime
  <2>2. LearnsInTime /\ [Next]_vars => LearnsInTime'
    <3>1. ~CommitRun
      BY <1>2 DEF CommitRun
    <3>2. LearnsInTime /\ UNCHANGED vars => LearnsInTime'
      BY DEF vars, LearnsInTime
    <3> QED
      BY <3>1, <3>2 DEF Next
  <2> QED
    BY <2>1, <2>2, PTL DEF Spec
<1> QED
  BY <1>1, <1>2

=============================================================================
