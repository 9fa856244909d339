----------------------- MODULE UpstreamLatencyProofs ------------------------
(***************************************************************************)
(* Proofs about upstream latency, for any upstreams, durations, limits and  *)
(* lists, any length of the statistics unit and any number of runs.         *)
(*                                                                         *)
(* The inductive invariant says that every reading with known counts is what *)
(* the log says at one moment of its run, that runs follow each other, and  *)
(* that the verdict is the one of the stored readings.  That what is pooled *)
(* is what happened follows from it, window by window.                      *)
(***************************************************************************)
EXTENDS UpstreamLatency, FiniteSetTheorems, TLAPS

Response == [at : Nat, upstream : Upstream, duration : Nat]

CounterPair == [responses : Nat, total : Nat]

\* Counters of the upstreams that a reading has.
CountersOfSome == UNION {[S -> CounterPair] : S \in SUBSET Upstream}

Reading == [known : BOOLEAN, counters : CountersOfSome, seen : Nat]

StoredReading ==
    [known : BOOLEAN, counters : CountersOfSome, seen : Nat, started : Nat, completed : Nat]

TypeOK ==
    /\ now \in Nat /\ started \in Nat
    /\ log \in Seq(Response)
    /\ pc \in {"idle", "observing", "read"}
    /\ pc = "read" => reading \in Reading
    /\ readings \in Seq(StoredReading)

\* The log is in the order of its times, and answers take as long as they can.
LogInOrder ==
    /\ \A k \in 1..Len(log) : log[k].at <= now /\ log[k].duration \in Duration[log[k].upstream]
    /\ \A j, k \in 1..Len(log) : j <= k => log[j].at <= log[k].at

\* The reading r is what the log said at `time`.
ReadAt(r, time) ==
    /\ r.seen <= Len(log)
    /\ \A k \in 1..r.seen : log[k].at <= time
    /\ \A k \in (r.seen + 1)..Len(log) : log[k].at >= time
    /\ r.known => \A u \in Upstream : Counter(r, u) = Totals(InUnit(u, r.seen, time))

\* Checks follow each other.
RunsInOrder ==
    /\ \A i \in 1..Len(readings) : readings[i].started <= readings[i].completed /\ readings[i].completed <= now
    /\ \A i, j \in 1..Len(readings) :
         i < j => readings[i].completed <= readings[j].started /\ readings[i].seen <= readings[j].seen
    /\ \A i \in 1..Len(readings) :
         /\ readings[i].seen <= Len(log)
         /\ pc # "idle" => readings[i].completed <= started
         /\ pc = "read" => readings[i].seen <= reading.seen
    /\ pc # "idle" => started <= now

ReadingsAreTrue ==
    /\ \A i \in 1..Len(readings) :
         \E time \in Nat : /\ readings[i].started <= time /\ time <= readings[i].completed
                           /\ ReadAt(readings[i], time)
    /\ pc = "read" => \E time \in Nat : started <= time /\ time <= now /\ ReadAt(reading, time)

VerdictIsComputed == readings # <<>> => verdict = Verdict(readings)

IInv == TypeOK /\ LogInOrder /\ RunsInOrder /\ ReadingsAreTrue /\ VerdictIsComputed

-----------------------------------------------------------------------------
(* Counting.                                                               *)

Gains(W, a, b) == UNION {Gain(w, a[w], b[w]) : w \in W}

Together(W, G) == UNION {G[w] : w \in W}

(* What disjoint sets count together is what intervals of their sizes do.  *)
LEMMA CountedTogether ==
    ASSUME NEW W, IsFiniteSet(W), NEW a \in [W -> Nat], NEW b \in [W -> Nat], NEW G,
           \A w \in W : /\ IsFiniteSet(G[w]) /\ a[w] <= b[w]
                        /\ Cardinality(G[w]) = b[w] - a[w],
           \A v, w \in W : v # w => G[v] \cap G[w] = {}
    PROVE  Cardinality(Gains(W, a, b)) = Cardinality(Together(W, G))
<1> DEFINE P == UNION {Gain(w, a[w], b[w]) : w \in W}
           Q == UNION {G[w] : w \in W}
           Bij(w) == CHOOSE f : f \in Bijection(G[w], (a[w] + 1)..b[w])
           Home(x) == CHOOSE w \in W : x \in G[w]
           F == [x \in Q |-> <<Home(x), Bij(Home(x))[x]>>]
<1>1. ASSUME NEW w \in W
      PROVE  Bij(w) \in Bijection(G[w], (a[w] + 1)..b[w])
  <2>1. a[w] \in Nat /\ b[w] \in Nat /\ a[w] <= b[w]
    OBVIOUS
  <2>2. IsFiniteSet((a[w] + 1)..b[w]) /\ Cardinality((a[w] + 1)..b[w]) = b[w] - a[w]
    <3>1. a[w] + 1 \in Int /\ b[w] \in Int
      BY <2>1
    <3>2. /\ IsFiniteSet((a[w] + 1)..b[w])
          /\ Cardinality((a[w] + 1)..b[w]) = IF a[w] + 1 > b[w] THEN 0 ELSE b[w] - (a[w] + 1) + 1
      BY ONLY <3>1, FS_Interval
    <3> QED  BY <2>1, <3>2
  <2>3. ExistsBijection(G[w], (a[w] + 1)..b[w])
    BY <2>2, FS_SameCardinalityBij
  <2> QED  BY <2>3 DEF ExistsBijection
<1>2. IsFiniteSet(Q)
  <2>1. IsFiniteSet({G[w] : w \in W})
    <3> DEFINE g == [w \in W |-> G[w]]
    <3>1. g \in Surjection(W, {G[w] : w \in W})
      BY DEF Surjection
    <3> HIDE DEF g
    <3> QED  BY <3>1, FS_Surjection
  <2> QED  BY <2>1, FS_UNION
<1>3. ASSUME NEW x \in Q
      PROVE  /\ Home(x) \in W /\ x \in G[Home(x)]
             /\ \A w \in W : x \in G[w] => w = Home(x)
  <2>1. \E w \in W : x \in G[w]
    OBVIOUS
  <2>2. Home(x) \in W /\ x \in G[Home(x)]
    BY <2>1
  <2> HIDE DEF Home, Q
  <2> QED  BY <2>2
<1> HIDE DEF Home, Bij
<1>4. F \in [Q -> P]
  <2>1. ASSUME NEW x \in Q  PROVE <<Home(x), Bij(Home(x))[x]>> \in P
    <3>1. Bij(Home(x))[x] \in (a[Home(x)] + 1)..b[Home(x)]
      BY <1>1, <1>3 DEF Bijection, Injection
    <3>2. <<Home(x), Bij(Home(x))[x]>> \in Gain(Home(x), a[Home(x)], b[Home(x)])
      BY <3>1 DEF Gain
    <3> QED  BY <1>3, <3>2
  <2> HIDE DEF P, Q
  <2> QED  BY <2>1
<1>5. ASSUME NEW x \in Q, NEW y \in Q, F[x] = F[y]
      PROVE  x = y
  <2>1. Home(x) = Home(y) /\ Bij(Home(x))[x] = Bij(Home(x))[y]
    BY <1>5
  <2>2. x \in G[Home(x)] /\ y \in G[Home(x)] /\ Home(x) \in W
    BY <1>3, <2>1
  <2> HIDE DEF F, P, Q
  <2> QED  BY <1>1, <2>1, <2>2 DEF Bijection, Injection, IsInjective
<1>6. ASSUME NEW p \in P
      PROVE  \E x \in Q : F[x] = p
  <2>1. PICK w \in W : p \in Gain(w, a[w], b[w])
    OBVIOUS
  <2>2. PICK n \in (a[w] + 1)..b[w] : p = <<w, n>>
    BY <2>1 DEF Gain
  <2>3. PICK x \in G[w] : Bij(w)[x] = n
    BY <1>1 DEF Bijection, Surjection
  <2>4. x \in Q
    OBVIOUS
  <2>5. Home(x) = w
    BY <1>3, <2>4
  <2> QED  BY <2>2, <2>3, <2>4, <2>5
<1> HIDE DEF F, P, Q
<1>7. F \in Bijection(Q, P)
  BY <1>4, <1>5, <1>6 DEF Bijection, Injection, IsInjective, Surjection
<1>8. Cardinality(P) = Cardinality(Q)
  BY <1>2, <1>7, FS_Bijection DEF ExistsBijection
<1> QED
  BY <1>8 DEF P, Q, Gains, Together

-----------------------------------------------------------------------------
(* What sets of responses count as.                                        *)

LEMMA TicksApart ==
    ASSUME NEW A, NEW B
    PROVE  /\ Ticks(A \cup B) = Ticks(A) \cup Ticks(B)
           /\ A \cap B = {} => Ticks(A) \cap Ticks(B) = {}
<1>1. ASSUME NEW E
      PROVE  \A x : x \in Ticks(E) <=> \E k \in E : x \in {k} \X (1..log[k].duration)
  BY DEF Ticks
<1>2. ASSUME NEW k, NEW l, NEW x \in {k} \X (1..log[k].duration), x \in {l} \X (1..log[l].duration)
      PROVE  k = l
  <2>1. x[1] = k /\ x[1] = l
    BY <1>2
  <2> QED  BY <2>1
<1> QED
  BY <1>1, <1>2

LEMMA FiniteTotals ==
    ASSUME TypeOK, NEW A \in SUBSET (1..Len(log))
    PROVE  /\ IsFiniteSet(A) /\ IsFiniteSet(Ticks(A))
           /\ Cardinality(A) \in Nat /\ Cardinality(Ticks(A)) \in Nat
           /\ Totals(A).responses = Cardinality(A) /\ Totals(A).total = Cardinality(Ticks(A))
<1>1. IsFiniteSet(A)
  <2>1. 1 \in Int /\ Len(log) \in Int
    BY DEF TypeOK
  <2>2. IsFiniteSet(1..Len(log))
    BY <2>1, FS_Interval
  <2> QED  BY <2>2, FS_Subset
<1>2. IsFiniteSet(Ticks(A))
  <2> DEFINE f == [k \in A |-> {k} \X (1..log[k].duration)]
  <2>1. f \in Surjection(A, {{k} \X (1..log[k].duration) : k \in A})
    BY DEF Surjection
  <2>2. IsFiniteSet({{k} \X (1..log[k].duration) : k \in A})
    <3> HIDE DEF f
    <3> QED  BY <1>1, <2>1, FS_Surjection
  <2>3. ASSUME NEW k \in A
        PROVE  IsFiniteSet({k} \X (1..log[k].duration))
    <3>1. log[k].duration \in Int /\ 1 \in Int
      <4>1. k \in 1..Len(log)
        OBVIOUS
      <4>2. log[k] \in Response
        BY <4>1 DEF TypeOK
      <4> QED  BY <4>2 DEF Response
    <3>2. IsFiniteSet({k}) /\ IsFiniteSet(1..log[k].duration)
      BY <3>1, FS_Interval, FS_Singleton
    <3> QED  BY <3>2, FS_Product
  <2> QED  BY <2>2, <2>3, FS_UNION DEF Ticks
<1> QED
  BY <1>1, <1>2, FS_CardinalityType DEF Totals

(* Disjoint sets of responses add up.                                      *)
LEMMA TotalsAddUp ==
    ASSUME TypeOK, NEW A \in SUBSET (1..Len(log)), NEW B \in SUBSET (1..Len(log)), A \cap B = {}
    PROVE  /\ Cardinality(A \cup B) = Cardinality(A) + Cardinality(B)
           /\ Cardinality(Ticks(A \cup B)) = Cardinality(Ticks(A)) + Cardinality(Ticks(B))
<1>1. /\ IsFiniteSet(A) /\ IsFiniteSet(B) /\ IsFiniteSet(Ticks(A)) /\ IsFiniteSet(Ticks(B))
      /\ Cardinality(A) \in Nat /\ Cardinality(B) \in Nat
      /\ Cardinality(Ticks(A)) \in Nat /\ Cardinality(Ticks(B)) \in Nat
  BY FiniteTotals
<1>2. Ticks(A \cup B) = Ticks(A) \cup Ticks(B) /\ Ticks(A) \cap Ticks(B) = {}
  BY TicksApart
<1>3. Cardinality({}) = 0
  BY FS_EmptySet
<1>4. Cardinality(A \cup B) = Cardinality(A) + Cardinality(B) - Cardinality(A \cap B)
  BY <1>1, FS_Union
<1>5. Cardinality(Ticks(A) \cup Ticks(B)) =
        Cardinality(Ticks(A)) + Cardinality(Ticks(B)) - Cardinality(Ticks(A) \cap Ticks(B))
  BY <1>1, FS_Union
<1>6. Cardinality(A \cup B) = Cardinality(A) + Cardinality(B) - 0
  BY <1>3, <1>4
<1>7. Cardinality(Ticks(A \cup B)) = Cardinality(Ticks(A)) + Cardinality(Ticks(B)) - 0
  BY <1>2, <1>3, <1>5
<1> QED
  BY <1>1, <1>6, <1>7

(* Units follow each other.                                                *)
LEMMA UnitsInOrder ==
    ASSUME NEW a \in Nat, NEW b \in Nat, a <= b
    PROVE  UnitOf(a) \in Int /\ UnitOf(b) \in Int /\ UnitOf(a) <= UnitOf(b)
<1>1. Unit \in Nat /\ Unit > 0
  BY LimitsAssumption
<1> QED
  BY <1>1, SMT DEF UnitOf

-----------------------------------------------------------------------------
(* One window.                                                             *)

(* What two readings with known counts of the same unit differ by is what   *)
(* was given between them.                                                 *)
LEMMA WindowIsTrue ==
    ASSUME IInv, NEW i \in 1..Len(readings), NEW j \in 1..Len(readings), i < j,
           readings[i].known, readings[j].known, IsWindow(readings[i], readings[j]), NEW u \in Upstream
    PROVE  LET p == Counter(readings[i], u)
               c == Counter(readings[j], u)
               given == Given(<<i, j>>, u)
           IN  /\ given \in SUBSET (1..Len(log))
               /\ p.responses \in Nat /\ c.responses \in Nat /\ p.responses <= c.responses
               /\ p.total \in Nat /\ c.total \in Nat /\ p.total <= c.total
               /\ Cardinality(given) = c.responses - p.responses
               /\ Cardinality(Ticks(given)) = c.total - p.total
<1> DEFINE p == readings[i]
           c == readings[j]
           G == Given(<<i, j>>, u)
<1>1. TypeOK /\ LogInOrder /\ RunsInOrder /\ ReadingsAreTrue
  BY DEF IInv
<1>2. /\ p \in StoredReading /\ c \in StoredReading
      /\ p.seen \in Nat /\ c.seen \in Nat /\ p.started \in Nat /\ c.started \in Nat
      /\ p.completed \in Nat /\ c.completed \in Nat
  <2>1. p \in StoredReading /\ c \in StoredReading
    BY <1>1 DEF TypeOK
  <2> QED  BY <2>1 DEF StoredReading
<1>3. p.seen <= c.seen /\ p.completed <= c.started /\ c.seen <= Len(log) /\ Len(log) \in Nat
  BY <1>1 DEF RunsInOrder, TypeOK
<1>4. PICK s \in Nat : p.started <= s /\ s <= p.completed /\ ReadAt(p, s)
  BY <1>1 DEF ReadingsAreTrue
<1>5. PICK t \in Nat : c.started <= t /\ t <= c.completed /\ ReadAt(c, t)
  BY <1>1 DEF ReadingsAreTrue
<1> DEFINE A == InUnit(u, p.seen, s)
           B == InUnit(u, c.seen, t)
<1>6. Counter(p, u) = Totals(A) /\ Counter(c, u) = Totals(B)
  BY <1>4, <1>5 DEF ReadAt
<1>7. s <= t /\ UnitOf(s) = UnitOf(t) /\ UnitOf(s) \in Int
  <2>1. s <= t
    BY <1>2, <1>3, <1>4, <1>5
  <2>2. /\ UnitOf(p.started) = UnitOf(p.completed) /\ UnitOf(c.started) = UnitOf(c.completed)
        /\ UnitOf(p.completed) = UnitOf(c.completed)
    BY DEF IsWindow, SameUnit
  <2>3. UnitOf(p.started) <= UnitOf(s) /\ UnitOf(s) <= UnitOf(p.completed)
    BY <1>2, <1>4, UnitsInOrder
  <2>4. UnitOf(c.started) <= UnitOf(t) /\ UnitOf(t) <= UnitOf(c.completed)
    BY <1>2, <1>5, UnitsInOrder
  <2>5. /\ UnitOf(s) \in Int /\ UnitOf(t) \in Int /\ UnitOf(p.completed) \in Int
    BY <1>2, <1>4, <1>5, UnitsInOrder
  <2> QED  BY <2>1, <2>2, <2>3, <2>4, <2>5
<1>8. G = {k \in (p.seen + 1)..c.seen : log[k].upstream = u}
  BY DEF Given
<1>9. ASSUME NEW k \in 1..Len(log)
      PROVE  log[k].at \in Nat
  <2>1. log[k] \in Response
    BY <1>1 DEF TypeOK
  <2> QED  BY <2>1 DEF Response
<1> HIDE DEF p, c, G
<1>10. ASSUME NEW k \in (p.seen + 1)..c.seen
       PROVE  UnitOf(log[k].at) = UnitOf(s)
  <2>1. k \in 1..c.seen /\ k \in (p.seen + 1)..Len(log) /\ k \in 1..Len(log)
    BY <1>2, <1>3
  <2>2. log[k].at \in Nat /\ s <= log[k].at /\ log[k].at <= t
    BY <1>4, <1>5, <1>9, <2>1 DEF ReadAt
  <2>3. UnitOf(s) <= UnitOf(log[k].at) /\ UnitOf(log[k].at) <= UnitOf(t) /\ UnitOf(log[k].at) \in Int
    BY <2>2, UnitsInOrder
  <2> QED  BY <1>7, <2>3
<1>11. A \in SUBSET (1..Len(log)) /\ G \in SUBSET (1..Len(log)) /\ A \cap G = {}
  <2>1. \A k \in 1..p.seen : k \in 1..Len(log) /\ k \notin (p.seen + 1)..c.seen
    BY <1>2, <1>3
  <2>2. \A k \in (p.seen + 1)..c.seen : k \in 1..Len(log)
    BY <1>2, <1>3
  <2> QED  BY <1>8, <2>1, <2>2 DEF InUnit
<1>12. B = A \cup G
  <2>1. \A k : k \in 1..c.seen <=> k \in 1..p.seen \/ k \in (p.seen + 1)..c.seen
    BY <1>2, <1>3
  <2> QED  BY <1>7, <1>8, <1>10, <2>1 DEF InUnit
<1> HIDE DEF A, B
<1>13. B \in SUBSET (1..Len(log))
  BY <1>11, <1>12
<1>14. /\ Totals(A).responses = Cardinality(A) /\ Totals(A).total = Cardinality(Ticks(A))
       /\ Totals(B).responses = Cardinality(B) /\ Totals(B).total = Cardinality(Ticks(B))
       /\ Cardinality(A) \in Nat /\ Cardinality(Ticks(A)) \in Nat
       /\ Cardinality(G) \in Nat /\ Cardinality(Ticks(G)) \in Nat
  BY <1>1, <1>11, <1>13, FiniteTotals
<1>15. /\ Cardinality(B) = Cardinality(A) + Cardinality(G)
       /\ Cardinality(Ticks(B)) = Cardinality(Ticks(A)) + Cardinality(Ticks(G))
  BY <1>1, <1>11, <1>12, TotalsAddUp
<1> QED
  BY <1>6, <1>11, <1>14, <1>15 DEF p, c, G

-----------------------------------------------------------------------------
(* All windows of an evaluation.                                           *)

LEMMA BasisFacts ==
    ASSUME IInv, readings # <<>>, Current(readings).known
    PROVE  /\ IsFiniteSet(Basis(readings))
           /\ \A w \in Basis(readings) :
                /\ w = <<w[1], w[2]>> /\ w[1] \in 1..Len(readings) /\ w[2] \in 1..Len(readings) /\ w[1] < w[2]
                /\ readings[w[1]].known /\ readings[w[2]].known
                /\ IsWindow(readings[w[1]], readings[w[2]])
           /\ \A v, w \in Basis(readings) : v = w \/ v[2] <= w[1] \/ w[2] <= v[1]
<1> DEFINE N == Len(readings)
           chosen == Upto(readings, Loaded(readings))
<1>1. N \in Nat /\ N > 0
  BY DEF IInv, TypeOK
<1>2. chosen \in SUBSET (1..N) /\ \A i \in chosen : readings[i].known
  BY <1>1 DEF Upto, Loaded, Stored, Current
<1> HIDE DEF chosen
<1>3. /\ Basis(readings) \subseteq Consecutive(chosen)
      /\ \A w \in Basis(readings) : IsWindow(readings[w[1]], readings[w[2]])
  BY DEF Basis, Pooled, chosen
<1>4. IsFiniteSet(Basis(readings))
  <2>1. IsFiniteSet(1..N)
    <3>1. 1 \in Int /\ N \in Int
      BY <1>1
    <3> QED  BY <3>1, FS_Interval
  <2>2. IsFiniteSet((1..N) \X (1..N))
    BY <2>1, FS_Product
  <2>3. Basis(readings) \in SUBSET ((1..N) \X (1..N))
    BY <1>2, <1>3 DEF Consecutive
  <2> QED  BY <2>2, <2>3, FS_Subset
<1>5. ASSUME NEW v \in Basis(readings), NEW w \in Basis(readings), v # w
      PROVE  v[2] <= w[1] \/ w[2] <= v[1]
  <2>1. /\ v \in chosen \X chosen /\ v[1] < v[2] /\ \A k \in chosen : ~(v[1] < k /\ k < v[2])
        /\ w \in chosen \X chosen /\ w[1] < w[2] /\ \A k \in chosen : ~(w[1] < k /\ k < w[2])
    BY <1>3 DEF Consecutive
  <2>2. v[1] \in chosen /\ v[2] \in chosen /\ w[1] \in chosen /\ w[2] \in chosen
    BY <2>1
  <2>3. v[1] \in Nat /\ v[2] \in Nat /\ w[1] \in Nat /\ w[2] \in Nat
    <3>1. \A i \in 1..N : i \in Nat
      BY <1>1
    <3> HIDE DEF N
    <3> QED  BY <1>2, <2>2, <3>1
  <2>4. v[1] # w[1] \/ v[2] # w[2]
    BY <1>5, <2>1
  <2>5. ~(v[1] < w[1] /\ w[1] < v[2]) /\ ~(w[1] < v[1] /\ v[1] < w[2])
        /\ ~(v[1] < w[2] /\ w[2] < v[2]) /\ ~(w[1] < v[2] /\ v[2] < w[2])
    BY <2>1, <2>2
  <2> QED  BY <2>1, <2>3, <2>4, <2>5
<1>6. ASSUME NEW w \in Basis(readings)
      PROVE  /\ w = <<w[1], w[2]>> /\ w[1] \in 1..N /\ w[2] \in 1..N /\ w[1] < w[2]
             /\ readings[w[1]].known /\ readings[w[2]].known
  <2>1. w \in chosen \X chosen /\ w[1] < w[2]
    BY <1>3 DEF Consecutive
  <2>2. w = <<w[1], w[2]>> /\ w[1] \in chosen /\ w[2] \in chosen
    BY <2>1
  <2> QED  BY <1>2, <2>1, <2>2
<1> QED
  BY <1>3, <1>4, <1>5, <1>6

(* Stretches that follow each other have no number in common.              *)
LEMMA StretchesApart ==
    ASSUME NEW a \in Nat, NEW b \in Nat, NEW c \in Nat, NEW d \in Nat,
           b <= c \/ d <= a
    PROVE  ((a + 1)..b) \cap ((c + 1)..d) = {}
OBVIOUS

(* Every response that is pooled is counted in one window only.            *)
LEMMA GivenOnce ==
    ASSUME IInv, readings # <<>>, Current(readings).known, NEW u \in Upstream,
           NEW v \in Basis(readings), NEW w \in Basis(readings), v # w
    PROVE  Given(v, u) \cap Given(w, u) = {}
<1>1. /\ v[1] \in 1..Len(readings) /\ v[2] \in 1..Len(readings) /\ v[1] < v[2]
      /\ w[1] \in 1..Len(readings) /\ w[2] \in 1..Len(readings) /\ w[1] < w[2]
      /\ v[2] <= w[1] \/ w[2] <= v[1]
  BY BasisFacts
<1>2. \A i \in 1..Len(readings) : readings[i].seen \in Nat
  <2>1. ASSUME NEW i \in 1..Len(readings)  PROVE readings[i] \in StoredReading
    BY DEF IInv, TypeOK
  <2> QED  BY <2>1 DEF StoredReading
<1>3. \A i, j \in 1..Len(readings) : i <= j => readings[i].seen <= readings[j].seen
  <2>1. \A i, j \in 1..Len(readings) : i < j => readings[i].seen <= readings[j].seen
    BY DEF IInv, RunsInOrder
  <2> QED  BY <1>2, <2>1
<1>4. \/ readings[v[2]].seen <= readings[w[1]].seen
      \/ readings[w[2]].seen <= readings[v[1]].seen
  BY <1>1, <1>3
<1>5. /\ readings[v[1]].seen \in Nat /\ readings[v[2]].seen \in Nat
      /\ readings[w[1]].seen \in Nat /\ readings[w[2]].seen \in Nat
  BY <1>1, <1>2
<1>6. ((readings[v[1]].seen + 1)..readings[v[2]].seen) \cap ((readings[w[1]].seen + 1)..readings[w[2]].seen) = {}
  BY ONLY <1>4, <1>5, StretchesApart
<1> QED
  BY <1>6 DEF Given

LEMMA PooledHolds == IInv => PooledIsTrue
<1> SUFFICES ASSUME IInv, readings # <<>>, Current(readings).known, NEW u \in Upstream
             PROVE  PooledTotals(readings, Basis(readings), u) = Truth(u)
  BY DEF PooledIsTrue
<1> DEFINE W == Basis(readings)
           from(w) == Counter(readings[w[1]], u)
           to(w) == Counter(readings[w[2]], u)
           R == [w \in W |-> Given(w, u)]
           T == [w \in W |-> Ticks(Given(w, u))]
           a == [w \in W |-> from(w).responses]
           b == [w \in W |-> to(w).responses]
           c == [w \in W |-> from(w).total]
           d == [w \in W |-> to(w).total]
<1>1. ASSUME NEW w \in W
      PROVE  /\ Given(w, u) \in SUBSET (1..Len(log))
             /\ from(w).responses \in Nat /\ to(w).responses \in Nat /\ from(w).responses <= to(w).responses
             /\ from(w).total \in Nat /\ to(w).total \in Nat /\ from(w).total <= to(w).total
             /\ Cardinality(Given(w, u)) = to(w).responses - from(w).responses
             /\ Cardinality(Ticks(Given(w, u))) = to(w).total - from(w).total
  <2>1. /\ w = <<w[1], w[2]>> /\ w[1] \in 1..Len(readings) /\ w[2] \in 1..Len(readings) /\ w[1] < w[2]
        /\ readings[w[1]].known /\ readings[w[2]].known
        /\ IsWindow(readings[w[1]], readings[w[2]])
    BY BasisFacts
  <2> HIDE DEF W
  <2> QED  BY <2>1, WindowIsTrue
<1>2. IsFiniteSet(W) /\ TypeOK
  BY BasisFacts DEF IInv
<1>3. ASSUME NEW w \in W
      PROVE  IsFiniteSet(Given(w, u)) /\ IsFiniteSet(Ticks(Given(w, u)))
  BY <1>1, <1>2, FiniteTotals
<1>4. ASSUME NEW v \in W, NEW w \in W, v # w
      PROVE  Given(v, u) \cap Given(w, u) = {} /\ Ticks(Given(v, u)) \cap Ticks(Given(w, u)) = {}
  <2>1. Given(v, u) \cap Given(w, u) = {}
    BY <1>4, GivenOnce
  <2> QED  BY <2>1, TicksApart
<1> HIDE DEF W
<1>5. Cardinality(Gains(W, a, b)) = Cardinality(Together(W, R))
  <2>1. a \in [W -> Nat] /\ b \in [W -> Nat]
    BY <1>1
  <2>2. \A w \in W : IsFiniteSet(R[w]) /\ a[w] <= b[w] /\ Cardinality(R[w]) = b[w] - a[w]
    BY <1>1, <1>3
  <2>3. \A v, w \in W : v # w => R[v] \cap R[w] = {}
    BY <1>4
  <2> HIDE DEF a, b, R
  <2>4. IsFiniteSet(W)
    BY <1>2
  <2> QED  BY ONLY <2>1, <2>2, <2>3, <2>4, CountedTogether
<1>6. Cardinality(Gains(W, c, d)) = Cardinality(Together(W, T))
  <2>1. c \in [W -> Nat] /\ d \in [W -> Nat]
    BY <1>1
  <2>2. \A w \in W : IsFiniteSet(T[w]) /\ c[w] <= d[w] /\ Cardinality(T[w]) = d[w] - c[w]
    BY <1>1, <1>3
  <2>3. \A v, w \in W : v # w => T[v] \cap T[w] = {}
    BY <1>4
  <2> HIDE DEF c, d, T
  <2>4. IsFiniteSet(W)
    BY <1>2
  <2> QED  BY ONLY <2>1, <2>2, <2>3, <2>4, CountedTogether
<1>7. /\ Gains(W, a, b) = UNION {Gain(w, from(w).responses, to(w).responses) : w \in W}
      /\ Gains(W, c, d) = UNION {Gain(w, from(w).total, to(w).total) : w \in W}
  <2>1. ASSUME NEW w \in W
        PROVE  /\ Gain(w, a[w], b[w]) = Gain(w, from(w).responses, to(w).responses)
               /\ Gain(w, c[w], d[w]) = Gain(w, from(w).total, to(w).total)
    OBVIOUS
  <2> HIDE DEF a, b, c, d, from, to
  <2> QED  BY <2>1 DEF Gains
<1>8. PooledTotals(readings, W, u) =
        [responses |-> Cardinality(Gains(W, a, b)), total |-> Cardinality(Gains(W, c, d))]
  BY <1>7 DEF PooledTotals
<1>9. Together(W, R) = UNION {Given(w, u) : w \in W}
  BY DEF Together
<1>10. Together(W, T) = Ticks(UNION {Given(w, u) : w \in W})
  <2>1. ASSUME NEW w \in W  PROVE T[w] = Ticks(Given(w, u))
    OBVIOUS
  <2>2. \A E, x : x \in Ticks(E) <=> \E k \in E : x \in {k} \X (1..log[k].duration)
    BY DEF Ticks
  <2>3. \A x : x \in Together(W, T) <=> \E w \in W : x \in Ticks(Given(w, u))
    BY <2>1 DEF Together
  <2>4. \A x : x \in Ticks(UNION {Given(w, u) : w \in W}) <=> \E w \in W : x \in Ticks(Given(w, u))
    BY <2>2
  <2> HIDE DEF T
  <2> QED  BY <2>3, <2>4
<1>11. Truth(u) = [responses |-> Cardinality(Together(W, R)),
                   total |-> Cardinality(Together(W, T))]
  BY <1>9, <1>10 DEF Truth, Totals, W
<1> QED
  BY <1>5, <1>6, <1>8, <1>11 DEF W

-----------------------------------------------------------------------------
(* What an evaluation concludes.                                           *)

LEMMA VerdictHolds == IInv => VerdictIsTrue
<1> SUFFICES ASSUME IInv, readings # <<>>
             PROVE  LET enough == {u \in Upstream :
                              Current(readings).known /\ Truth(u).responses >= MinimumResponses}
                        slow == {u \in enough : Truth(u).total > Threshold * Truth(u).responses}
                    IN  /\ verdict = "active" <=> slow # {}
                        /\ verdict = "clear" <=> enough # {} /\ slow = {}
  BY DEF VerdictIsTrue
<1> DEFINE enough == {u \in Upstream : Current(readings).known /\ Truth(u).responses >= MinimumResponses}
           slow == {u \in enough : Truth(u).total > Threshold * Truth(u).responses}
<1>1. verdict = Verdict(readings)
  BY DEF IInv, VerdictIsComputed
<1>2. CASE ~Current(readings).known
  <2>1. enough = {} /\ slow = {}
    BY <1>2
  <2>2. verdict = "not_evaluated"
    BY <1>1, <1>2 DEF Verdict
  <2> QED  BY <2>1, <2>2
<1>3. CASE Current(readings).known
  <2> DEFINE judged == Judged(readings, Basis(readings))
             tooSlow == \E u \in judged : PooledTotals(readings, Basis(readings), u).total >
                                            Threshold * PooledTotals(readings, Basis(readings), u).responses
  <2>1. \A u \in Upstream : PooledTotals(readings, Basis(readings), u) = Truth(u)
    BY <1>3, PooledHolds DEF PooledIsTrue
  <2>2. enough = judged
    BY <1>3, <2>1 DEF Judged
  <2>3. Basis(readings) = {} => enough = {}
    <3> SUFFICES ASSUME Basis(readings) = {}, NEW u \in Upstream  PROVE ~(Truth(u).responses >= MinimumResponses)
      OBVIOUS
    <3>1. UNION {Given(w, u) : w \in Basis(readings)} = {}
      OBVIOUS
    <3>2. Truth(u).responses = 0
      BY <3>1, FS_EmptySet DEF Truth, Totals
    <3> QED  BY <3>2, LimitsAssumption
  <2>4. tooSlow <=> slow # {}
    <3>1. \A u \in judged : u \in Upstream
      BY DEF Judged
    <3> HIDE DEF judged, enough
    <3> QED  BY <2>1, <2>2, <3>1
  <2>5. verdict = IF Basis(readings) = {} \/ judged = {} THEN "not_evaluated"
                  ELSE IF tooSlow THEN "active" ELSE "clear"
    BY <1>1, <1>3 DEF Verdict
  <2>6. slow # {} => enough # {}
    OBVIOUS
  <2> HIDE DEF judged, tooSlow, enough, slow
  <2>7. /\ verdict = "active" <=> slow # {}
        /\ verdict = "clear" <=> enough # {} /\ slow = {}
    BY <2>2, <2>3, <2>4, <2>5, <2>6
  <2> QED  BY <2>7 DEF enough, slow
<1> QED
  BY <1>2, <1>3

(* A window that is pooled begins within what is loaded.                   *)
LEMMA HistoryHolds == IInv => HistorySuffices
<1> SUFFICES ASSUME IInv, readings # <<>>
             PROVE  Basis(readings) = Pooled(readings, Upto(readings, Stored(readings)))
  BY DEF HistorySuffices
<1> DEFINE N == Len(readings)
           some == Upto(readings, Loaded(readings))
           whole == Upto(readings, Stored(readings))
           bound == Current(readings).completed - (Lookback + MaximumGap)
<1>1. N \in Nat /\ N > 0 /\ Lookback \in Nat /\ MaximumGap \in Nat
  BY LimitsAssumption DEF IInv, TypeOK
<1>2. ASSUME NEW i \in 1..N
      PROVE  readings[i].completed \in Nat /\ readings[i].started \in Nat
  <2>1. readings[i] \in StoredReading
    BY <1>2 DEF IInv, TypeOK
  <2> QED  BY <2>1 DEF StoredReading
<1>3. Current(readings).completed \in Nat /\ N \in 1..N
  <2>1. N \in 1..N
    BY <1>1
  <2> QED  BY <1>2, <2>1 DEF Current
<1>4. \A i, j \in 1..N : i <= j => readings[i].completed <= readings[j].completed
  <2>1. ASSUME NEW i \in 1..N, NEW j \in 1..N, i < j
        PROVE  readings[i].completed <= readings[j].completed
    <3>1. readings[i].completed <= readings[j].started /\ readings[j].started <= readings[j].completed
      BY <2>1 DEF IInv, RunsInOrder
    <3> QED  BY <1>2, <3>1
  <2> QED  BY <1>2, <2>1
<1>5. some \subseteq whole /\ whole \subseteq 1..N
  BY <1>1 DEF Upto, Loaded, Stored
<1>6. \A i \in whole : readings[i].completed >= bound => i \in some
  BY <1>1 DEF Upto, Loaded, Current
<1> HIDE DEF some, whole, N
<1>7. ASSUME NEW w \in Pooled(readings, whole)
      PROVE  w \in Pooled(readings, some)
  <2>1. /\ w \in whole \X whole /\ w[1] < w[2] /\ \A k \in whole : ~(w[1] < k /\ k < w[2])
        /\ readings[w[2]].completed > Current(readings).completed - Lookback
        /\ IsWindow(readings[w[1]], readings[w[2]])
    BY DEF Pooled, Consecutive
  <2>2. w[1] \in whole /\ w[2] \in whole /\ w = <<w[1], w[2]>>
    BY <2>1
  <2>3. readings[w[2]].completed - readings[w[1]].completed \in 1..MaximumGap
    BY <2>1 DEF IsWindow
  <2>4. readings[w[1]].completed \in Nat /\ readings[w[2]].completed \in Nat
    BY <1>2, <1>5, <2>2
  <2>5. readings[w[1]].completed >= bound /\ readings[w[2]].completed >= bound
    BY <1>1, <1>3, <2>1, <2>3, <2>4
  <2>6. w[1] \in some /\ w[2] \in some
    BY <1>6, <2>2, <2>5
  <2>7. w \in some \X some /\ \A k \in some : ~(w[1] < k /\ k < w[2])
    BY <1>5, <2>1, <2>2, <2>6
  <2> QED  BY <2>1, <2>7 DEF Pooled, Consecutive
<1>8. ASSUME NEW w \in Pooled(readings, some)
      PROVE  w \in Pooled(readings, whole)
  <2>1. /\ w \in some \X some /\ w[1] < w[2] /\ \A k \in some : ~(w[1] < k /\ k < w[2])
        /\ readings[w[2]].completed > Current(readings).completed - Lookback
        /\ IsWindow(readings[w[1]], readings[w[2]])
    BY DEF Pooled, Consecutive
  <2>2. w[1] \in some /\ w[2] \in some /\ w = <<w[1], w[2]>>
    BY <2>1
  <2>3. readings[w[2]].completed - readings[w[1]].completed \in 1..MaximumGap
    BY <2>1 DEF IsWindow
  <2>4. readings[w[1]].completed \in Nat /\ readings[w[2]].completed \in Nat
    BY <1>2, <1>5, <2>2
  <2>5. readings[w[1]].completed >= bound
    BY <1>1, <1>3, <2>1, <2>3, <2>4
  <2>6. ASSUME NEW k \in whole, w[1] < k
        PROVE  k \in some
    <3>1. k \in 1..N /\ w[1] \in 1..N
      BY <1>5, <2>2
    <3>2. w[1] <= k
      BY <1>1, <2>6, <3>1
    <3>3. readings[w[1]].completed <= readings[k].completed /\ readings[k].completed \in Nat
      BY <1>2, <1>4, <3>1, <3>2
    <3>4. readings[k].completed >= bound
      BY <1>1, <1>3, <2>4, <2>5, <3>3
    <3> QED  BY <1>6, <3>4
  <2>7. w \in whole \X whole /\ \A k \in whole : ~(w[1] < k /\ k < w[2])
    BY <1>5, <2>1, <2>2, <2>6
  <2> QED  BY <2>1, <2>7 DEF Pooled, Consecutive
<1> QED
  BY <1>7, <1>8 DEF Basis, some, whole

-----------------------------------------------------------------------------
(* What a reading is when it is taken.                                     *)

(* A list that is not full, and one that is empty, lost no candidate.      *)
LEMMA ListedAll ==
    ASSUME NEW C \in SUBSET Upstream, NEW L \in SUBSET C,
           Cardinality(L) = IF Cardinality(C) < ListLimit THEN Cardinality(C) ELSE ListLimit
    PROVE  Cardinality(L) < ListLimit \/ L = {} => L = C
<1>1. IsFiniteSet(C) /\ IsFiniteSet(L) /\ Cardinality(C) \in Nat
  BY InstantAssumption, FS_Subset, FS_CardinalityType
<1>2. L = {} => Cardinality(L) = 0
  BY FS_EmptySet
<1>3. ListLimit \in Nat /\ ListLimit > 0
  BY LimitsAssumption
<1>4. Cardinality(L) < ListLimit \/ L = {} => Cardinality(C) = Cardinality(L)
  BY <1>1, <1>2, <1>3
<1> QED
  BY <1>1, <1>4, FS_Subset

(* Counts are known only if every upstream that is not shown gave nothing. *)
LEMMA KnownIsComplete ==
    ASSUME TypeOK, LogInOrder, NEW s \in Statistics(Len(log), now), Known(s), NEW u \in Upstream
    PROVE  Counter([counters |-> CountersOf(s)], u) = Totals(InUnit(u, Len(log), now))
<1> DEFINE entries(v) == InUnit(v, Len(log), now)
           counted == {v \in Upstream : Totals(entries(v)).responses > 0}
           timed == {v \in Upstream : Totals(entries(v)).total > 0}
<1>1. /\ \A v \in Upstream : s.counters[v] = Totals(entries(v))
      /\ s.counts \in SUBSET counted /\ s.averages \in SUBSET timed
      /\ Cardinality(s.counts) = IF Cardinality(counted) < ListLimit
                                 THEN Cardinality(counted) ELSE ListLimit
      /\ Cardinality(s.averages) = IF Cardinality(timed) < ListLimit
                                   THEN Cardinality(timed) ELSE ListLimit
  <2> DEFINE all == CountersAt(Len(log), now)
  <2>1. PICK counts \in Listed(Counted(all), Fewer(all)), averages \in Listed(Timed(all), Faster(all)) :
          s = [counters |-> all, counts |-> counts, averages |-> averages]
    BY DEF Statistics
  <2>2. Counted(all) = counted /\ Timed(all) = timed /\ \A v \in Upstream : all[v] = Totals(entries(v))
    BY DEF Counted, Timed, CountersAt
  <2> HIDE DEF all, counted, timed
  <2> QED  BY <2>1, <2>2 DEF Listed
<1>2. counted \in SUBSET Upstream /\ timed \in SUBSET Upstream
  OBVIOUS
<1>3. \A v \in Upstream :
        /\ entries(v) \in SUBSET (1..Len(log))
        /\ Totals(entries(v)).responses = Cardinality(entries(v)) /\ Cardinality(entries(v)) \in Nat
        /\ Totals(entries(v)).total = Cardinality(Ticks(entries(v))) /\ Cardinality(Ticks(entries(v))) \in Nat
        /\ IsFiniteSet(entries(v)) /\ IsFiniteSet(Ticks(entries(v)))
  <2>1. \A v \in Upstream : entries(v) \in SUBSET (1..Len(log))
    BY DEF InUnit
  <2> HIDE DEF entries
  <2> QED  BY <2>1, FiniteTotals
<1>4. s.counts \in SUBSET Upstream /\ Cardinality(s.counts) \in Int /\ ListLimit \in Int
  BY <1>1, <1>2, InstantAssumption, LimitsAssumption, FS_Subset, FS_CardinalityType
<1>5. CASE u \in Observed(s)
  <2>1. Counter([counters |-> CountersOf(s)], u) = s.counters[u]
    BY <1>5 DEF Counter, CountersOf
  <2> QED  BY <1>1, <2>1
<1>6. CASE u \notin Observed(s)
  <2>1. Counter([counters |-> CountersOf(s)], u) = Nothing
    BY <1>6 DEF Counter, CountersOf
  <2>2. entries(u) = {} => Totals(entries(u)) = Nothing
    <3>1. Ticks({}) = {}
      BY DEF Ticks
    <3> HIDE DEF entries
    <3> QED  BY <3>1, FS_EmptySet DEF Totals, Nothing
  <2>3. ASSUME ~PossiblyTruncated(s.counts)
        PROVE  entries(u) = {}
    <3>1. s.counts = counted
      <4>1. Cardinality(s.counts) < ListLimit
        BY <1>4, <2>3 DEF PossiblyTruncated
      <4> HIDE DEF counted
      <4> QED  BY <1>1, <1>2, <4>1, ListedAll
    <3>2. u \notin counted
      BY <1>6, <2>3, <3>1 DEF Observed
    <3>3. Cardinality(entries(u)) = 0
      BY <1>3, <3>2
    <3> HIDE DEF entries
    <3> QED  BY <1>3, <3>3, FS_EmptySet
  <2>4. ASSUME s.averages = {}
        PROVE  ~PossiblyTruncated(s.counts)
    <3>1. timed = {}
      <4> HIDE DEF timed
      <4> QED  BY <1>1, <1>2, <2>4, ListedAll
    <3>2. ASSUME NEW v \in counted
          PROVE  0 \in Duration[v]
      <4>1. entries(v) # {}
        <5>1. Cardinality(entries(v)) # 0
          BY <1>3
        <5> HIDE DEF entries
        <5> QED  BY <5>1, FS_EmptySet
      <4>2. Ticks(entries(v)) = {}
        <5>1. Cardinality(Ticks(entries(v))) = 0
          BY <1>3, <3>1
        <5>2. v \in Upstream
          OBVIOUS
        <5> HIDE DEF entries
        <5> QED  BY <1>3, <5>1, <5>2, FS_EmptySet
      <4>3. PICK k \in entries(v) : TRUE
        BY <4>1
      <4>4. k \in 1..Len(log) /\ log[k].upstream = v
        BY DEF InUnit
      <4>5. log[k].duration \in Nat /\ log[k].duration \in Duration[v]
        <5>1. log[k] \in Response
          BY <4>4 DEF TypeOK
        <5> QED  BY <4>4, <5>1 DEF Response, LogInOrder
      <4>6. ~(log[k].duration >= 1)
        <5>1. ASSUME log[k].duration >= 1  PROVE <<k, 1>> \in Ticks(entries(v))
          <6>1. 1 \in 1..log[k].duration
            BY <4>5, <5>1
          <6> HIDE DEF entries
          <6> QED  BY <4>3, <6>1 DEF Ticks
        <5> QED  BY <4>2, <5>1
      <4>7. log[k].duration = 0
        BY <4>5, <4>6
      <4> QED  BY <4>5, <4>7
    <3> DEFINE instant == {v \in Upstream : 0 \in Duration[v]}
    <3>3. s.counts \in SUBSET instant
      BY <1>1, <3>2
    <3>4. IsFiniteSet(instant) /\ Cardinality(instant) \in Int /\ Cardinality(instant) < ListLimit
      BY InstantAssumption, FS_Subset, FS_CardinalityType
    <3>5. Cardinality(s.counts) <= Cardinality(instant)
      <4> HIDE DEF instant
      <4> QED  BY <3>3, <3>4, FS_Subset
    <3> HIDE DEF instant
    <3> QED  BY <1>4, <3>4, <3>5 DEF PossiblyTruncated
  <2>5. entries(u) = {}
    BY <2>3, <2>4 DEF Known
  <2> QED  BY <2>1, <2>2, <2>5
<1> QED
  BY <1>5, <1>6

-----------------------------------------------------------------------------
(* The log only grows.                                                     *)

Grown == Len(log) <= Len(log') /\ \A k \in 1..Len(log) : log'[k] = log[k]

LEMMA TotalsKept ==
    ASSUME TypeOK, Grown, Len(log') \in Nat, NEW u, NEW n \in Nat, n <= Len(log), NEW t
    PROVE  Totals(InUnit(u, n, t))' = Totals(InUnit(u, n, t))
<1>1. Len(log) \in Nat /\ \A k \in 1..n : k \in 1..Len(log)
  BY DEF TypeOK
<1>2. InUnit(u, n, t)' = InUnit(u, n, t)
  BY <1>1 DEF InUnit, UnitOf, Grown
<1>3. \A k \in InUnit(u, n, t) : log'[k] = log[k]
  BY <1>1 DEF InUnit, Grown
<1>4. Ticks(InUnit(u, n, t))' = Ticks(InUnit(u, n, t))
  BY <1>2, <1>3 DEF Ticks
<1> QED
  BY <1>2, <1>4 DEF Totals

LEMMA StillReadAt ==
    ASSUME TypeOK, Grown, Len(log') \in Nat, NEW r, NEW t \in Nat, r.seen \in Nat, ReadAt(r, t),
           \A k \in (Len(log) + 1)..Len(log') : log'[k].at >= t
    PROVE  ReadAt(r, t)'
<1>1. r.seen <= Len(log) /\ Len(log) \in Nat
  BY DEF ReadAt, TypeOK
<1>2. \A k \in 1..r.seen : log'[k].at <= t
  <2>1. \A k \in 1..r.seen : k \in 1..Len(log)
    BY <1>1
  <2> QED  BY <2>1 DEF Grown, ReadAt
<1>3. \A k \in (r.seen + 1)..Len(log') : log'[k].at >= t
  <2>1. \A k \in (r.seen + 1)..Len(log') :
          \/ k \in (Len(log) + 1)..Len(log')
          \/ k \in 1..Len(log) /\ k \in (r.seen + 1)..Len(log)
    BY <1>1
  <2> QED  BY <2>1 DEF Grown, ReadAt
<1>4. \A u \in Upstream : Totals(InUnit(u, r.seen, t))' = Totals(InUnit(u, r.seen, t))
  BY <1>1, TotalsKept
<1>5. r.seen <= Len(log')
  BY <1>1 DEF Grown
<1> QED
  BY <1>2, <1>3, <1>4, <1>5 DEF ReadAt, Counter

-----------------------------------------------------------------------------
(* Every step keeps the invariant.                                         *)

LEMMA InitIsGood == Init => IInv
<1> SUFFICES ASSUME Init PROVE IInv
  OBVIOUS
<1>1. /\ now \in Nat /\ started = 0 /\ log = <<>> /\ readings = <<>> /\ pc = "idle"
      /\ Len(log) = 0 /\ Len(readings) = 0
  BY LimitsAssumption DEF Init
<1>2. \A k : k \notin 1..Len(log) /\ k \notin 1..Len(readings)
  BY <1>1
<1> QED
  BY <1>1, <1>2 DEF IInv, TypeOK, LogInOrder, RunsInOrder, ReadingsAreTrue, VerdictIsComputed

\* A step that changes neither the log nor what was read of it.
LEMMA SameLog ==
    ASSUME log' = log, NEW r, NEW t, ReadAt(r, t)
    PROVE  ReadAt(r, t)'
<1>1. \A u \in Upstream : Totals(InUnit(u, r.seen, t))' = Totals(InUnit(u, r.seen, t))
  BY DEF Totals, Ticks, InUnit, UnitOf
<1> QED
  BY <1>1 DEF ReadAt, Counter

\* A reading that stays is still true, if the log is what it was or longer.
LEMMA ReadingsStayTrue ==
    ASSUME TypeOK, RunsInOrder, ReadingsAreTrue, NEW i \in 1..Len(readings), readings'[i] = readings[i],
           \A r, t : r.seen \in Nat /\ t \in Nat /\ t <= now /\ ReadAt(r, t) => ReadAt(r, t)'
    PROVE  \E t \in Nat : /\ readings'[i].started <= t /\ t <= readings'[i].completed
                          /\ ReadAt(readings[i], t)'
<1>1. PICK t \in Nat : /\ readings[i].started <= t /\ t <= readings[i].completed
                       /\ ReadAt(readings[i], t)
  BY DEF ReadingsAreTrue
<1>2. PICK r : r = readings[i]
  OBVIOUS
<1>3. readings[i].completed <= now /\ readings[i].completed \in Nat /\ r.seen \in Nat /\ now \in Nat
  <2>1. readings[i] \in StoredReading
    BY DEF TypeOK
  <2> QED  BY <1>2, <2>1 DEF RunsInOrder, StoredReading, TypeOK
<1>4. t <= now
  BY <1>1, <1>3
<1>5. ReadAt(r, t)
  BY <1>1, <1>2
<1>6. ReadAt(r, t)'
  BY <1>3, <1>4, <1>5
<1>7. r = readings'[i]
  BY <1>2
<1>8. ReadAt(readings[i], t)'
  BY <1>6, <1>7 DEF ReadAt, Counter, Totals, Ticks, InUnit, UnitOf
<1> QED
  BY <1>1, <1>8

LEMMA CurrentStaysTrue ==
    ASSUME TypeOK, ReadingsAreTrue, pc = "read", reading' = reading, started' = started,
           \A r, t : r.seen \in Nat /\ t \in Nat /\ t <= now /\ ReadAt(r, t) => ReadAt(r, t)'
    PROVE  \E t \in Nat : started' <= t /\ t <= now /\ ReadAt(reading, t)'
<1>1. PICK t \in Nat : started <= t /\ t <= now /\ ReadAt(reading, t)
  BY DEF ReadingsAreTrue
<1>2. PICK r : r = reading
  OBVIOUS
<1>3. r.seen \in Nat
  BY <1>2 DEF TypeOK, Reading
<1>4. ReadAt(r, t)
  BY <1>1, <1>2
<1>5. ReadAt(r, t)'
  BY <1>1, <1>3, <1>4
<1>6. r = reading'
  BY <1>2
<1>7. ReadAt(reading, t)'
  BY <1>5, <1>6 DEF ReadAt, Counter, Totals, Ticks, InUnit, UnitOf
<1> QED
  BY <1>1, <1>7

\* What a step keeps that leaves the log and the stored readings as they are.
LEMMA Quiet ==
    ASSUME IInv, log' = log, readings' = readings, verdict' = verdict, now' \in Nat, now <= now'
    PROVE  /\ LogInOrder' /\ VerdictIsComputed'
           /\ \A i \in 1..Len(readings') :
                \E time \in Nat : /\ readings'[i].started <= time /\ time <= readings'[i].completed
                                  /\ ReadAt(readings[i], time)'
           /\ \A r, t : ReadAt(r, t) => ReadAt(r, t)'
<1>1. TypeOK /\ LogInOrder /\ RunsInOrder /\ ReadingsAreTrue /\ VerdictIsComputed
  BY DEF IInv
<1>2. \A r, t : ReadAt(r, t) => ReadAt(r, t)'
  BY SameLog
<1>3. ASSUME NEW i \in 1..Len(readings')
      PROVE  \E time \in Nat : /\ readings'[i].started <= time /\ time <= readings'[i].completed
                               /\ ReadAt(readings[i], time)'
  <2>1. i \in 1..Len(readings) /\ readings'[i] = readings[i]
    OBVIOUS
  <2> QED  BY <1>1, <1>2, <2>1, ReadingsStayTrue
<1>4. LogInOrder'
  <2>1. \A k \in 1..Len(log) : log[k].at \in Nat
    <3>1. \A k \in 1..Len(log) : log[k] \in Response
      BY <1>1 DEF TypeOK
    <3> QED  BY <3>1 DEF Response
  <2>2. now \in Nat
    BY <1>1 DEF TypeOK
  <2>3. \A k \in 1..Len(log) : log[k].at <= now'
    BY <1>1, <2>1, <2>2 DEF LogInOrder
  <2> QED  BY <1>1, <2>3 DEF LogInOrder
<1>5. VerdictIsComputed'
  BY <1>1 DEF VerdictIsComputed
<1> QED
  BY <1>2, <1>3, <1>4, <1>5

LEMMA ReadingTypes ==
    ASSUME TypeOK, NEW i \in 1..Len(readings)
    PROVE  readings[i].seen \in Nat /\ readings[i].started \in Nat /\ readings[i].completed \in Nat
<1>1. readings[i] \in StoredReading
  BY DEF TypeOK
<1> QED
  BY <1>1 DEF StoredReading

LEMMA TickIsGood == IInv /\ Tick => IInv'
<1> SUFFICES ASSUME IInv, Tick PROVE IInv'
  OBVIOUS
<1>1. /\ TypeOK /\ LogInOrder /\ RunsInOrder /\ ReadingsAreTrue /\ VerdictIsComputed
      /\ now' = now + 1 /\ now \in Nat /\ now <= now' /\ now' \in Nat
      /\ log' = log /\ readings' = readings /\ verdict' = verdict
      /\ pc' = pc /\ started' = started /\ reading' = reading
  BY DEF IInv, Tick, TypeOK
<1>2. TypeOK'
  BY <1>1 DEF TypeOK
<1>3. RunsInOrder'
  <2>1. \A i \in 1..Len(readings) : readings[i].completed \in Nat
    BY <1>1, ReadingTypes
  <2>2. \A i \in 1..Len(readings) : readings[i].completed <= now'
    BY <1>1, <2>1 DEF RunsInOrder
  <2>3. pc # "idle" => started <= now'
    BY <1>1 DEF RunsInOrder, TypeOK
  <2> QED  BY <1>1, <2>2, <2>3 DEF RunsInOrder
<1>4. ReadingsAreTrue'
  <2>1. \A r, t : ReadAt(r, t) => ReadAt(r, t)'
    BY <1>1, Quiet
  <2>2. pc = "read" => \E t \in Nat : started' <= t /\ t <= now /\ ReadAt(reading, t)'
    BY <1>1, <2>1, CurrentStaysTrue
  <2>3. \A t \in Nat : t <= now => t <= now'
    BY <1>1
  <2> QED  BY <1>1, <2>2, <2>3, Quiet DEF ReadingsAreTrue
<1> QED
  BY <1>1, <1>2, <1>3, <1>4, Quiet DEF IInv

LEMMA StartCheckIsGood == IInv /\ StartCheck => IInv'
<1> SUFFICES ASSUME IInv, StartCheck PROVE IInv'
  OBVIOUS
<1>1. /\ TypeOK /\ LogInOrder /\ RunsInOrder /\ ReadingsAreTrue /\ VerdictIsComputed
      /\ now' = now /\ now \in Nat /\ now <= now' /\ now' \in Nat
      /\ log' = log /\ readings' = readings /\ verdict' = verdict
      /\ pc' = "observing" /\ started' = now /\ reading' = reading
  BY DEF IInv, StartCheck, TypeOK
<1>2. TypeOK'
  BY <1>1 DEF TypeOK
<1>3. RunsInOrder'
  BY <1>1 DEF RunsInOrder
<1>4. ReadingsAreTrue'
  BY <1>1, Quiet DEF ReadingsAreTrue
<1> QED
  BY <1>1, <1>2, <1>3, <1>4, Quiet DEF IInv

LEMMA AbandonIsGood == IInv /\ Abandon => IInv'
<1> SUFFICES ASSUME IInv, Abandon PROVE IInv'
  OBVIOUS
<1>1. /\ TypeOK /\ LogInOrder /\ RunsInOrder /\ ReadingsAreTrue /\ VerdictIsComputed
      /\ now' = now /\ now \in Nat /\ now <= now' /\ now' \in Nat
      /\ log' = log /\ readings' = readings /\ verdict' = verdict
      /\ pc' = "idle" /\ started' = 0
  BY DEF IInv, Abandon, TypeOK
<1>2. TypeOK'
  BY <1>1 DEF TypeOK
<1>3. RunsInOrder'
  BY <1>1 DEF RunsInOrder
<1>4. ReadingsAreTrue'
  BY <1>1, Quiet DEF ReadingsAreTrue
<1> QED
  BY <1>1, <1>2, <1>3, <1>4, Quiet DEF IInv

LEMMA StutterIsGood == IInv /\ UNCHANGED vars => IInv'
<1> SUFFICES ASSUME IInv, UNCHANGED vars PROVE IInv'
  OBVIOUS
<1>1. /\ TypeOK /\ LogInOrder /\ RunsInOrder /\ ReadingsAreTrue /\ VerdictIsComputed
      /\ now' = now /\ now \in Nat /\ now <= now' /\ now' \in Nat
      /\ log' = log /\ readings' = readings /\ verdict' = verdict
      /\ pc' = pc /\ started' = started /\ reading' = reading
  BY DEF IInv, vars, TypeOK
<1>2. TypeOK' /\ RunsInOrder'
  BY <1>1 DEF TypeOK, RunsInOrder
<1>3. ReadingsAreTrue'
  <2>1. \A r, t : ReadAt(r, t) => ReadAt(r, t)'
    BY <1>1, Quiet
  <2>2. pc = "read" => \E t \in Nat : started' <= t /\ t <= now /\ ReadAt(reading, t)'
    BY <1>1, <2>1, CurrentStaysTrue
  <2> QED  BY <1>1, <2>2, Quiet DEF ReadingsAreTrue
<1> QED
  BY <1>1, <1>2, <1>3, Quiet DEF IInv

LEMMA RespondIsGood == IInv /\ Respond => IInv'
<1> SUFFICES ASSUME IInv, Respond PROVE IInv'
  OBVIOUS
<1>1. /\ TypeOK /\ LogInOrder /\ RunsInOrder /\ ReadingsAreTrue /\ VerdictIsComputed
      /\ now' = now /\ now \in Nat /\ readings' = readings /\ verdict' = verdict
      /\ pc' = pc /\ started' = started /\ reading' = reading /\ log \in Seq(Response) /\ Len(log) \in Nat
  BY DEF IInv, Respond, TypeOK
<1>2A. PICK u \in Upstream : \E d \in Duration[u] :
        log' = Append(log, [at |-> now, upstream |-> u, duration |-> d])
  BY DEF Respond
<1>2. PICK d \in Duration[u] :
        log' = Append(log, [at |-> now, upstream |-> u, duration |-> d])
  BY <1>2A
<1> DEFINE x == [at |-> now, upstream |-> u, duration |-> d]
<1>3. x \in Response /\ x.at = now /\ x.duration \in Duration[x.upstream]
  <2>1. d \in Nat
    BY DurationAssumption
  <2> QED  BY <1>1, <2>1 DEF Response
<1> HIDE DEF x
<1>4. /\ log' \in Seq(Response) /\ Len(log') = Len(log) + 1
      /\ \A k \in 1..Len(log) : log'[k] = log[k]
      /\ log'[Len(log) + 1] = x
  BY <1>1, <1>2, <1>3 DEF x
<1>5. Grown /\ Len(log') \in Nat
  BY <1>1, <1>4 DEF Grown
<1>6. TypeOK'
  BY <1>1, <1>4 DEF TypeOK
<1>7. \A k \in 1..Len(log) : log[k].at \in Nat
  <2>1. \A k \in 1..Len(log) : log[k] \in Response
    BY <1>1
  <2> QED  BY <2>1 DEF Response
<1>8. \A k : k \in 1..Len(log') <=> k \in 1..Len(log) \/ k = Len(log) + 1
  BY <1>1, <1>4
<1>9. LogInOrder'
  <2>1. \A k \in 1..Len(log') : log'[k].at <= now /\ log'[k].duration \in Duration[log'[k].upstream]
    BY <1>1, <1>3, <1>4, <1>8 DEF LogInOrder
  <2>2. ASSUME NEW j \in 1..Len(log'), NEW k \in 1..Len(log'), j <= k
        PROVE  log'[j].at <= log'[k].at
    <3>1. CASE k = Len(log) + 1
      BY <1>3, <1>4, <2>1, <3>1
    <3>2. CASE k \in 1..Len(log)
      <4>1. j \in 1..Len(log)
        BY <1>1, <2>2, <3>2
      <4> QED  BY <1>1, <1>4, <2>2, <3>2, <4>1 DEF LogInOrder
    <3> QED  BY <1>8, <3>1, <3>2
  <2> QED  BY <1>1, <2>1, <2>2 DEF LogInOrder
<1>10. RunsInOrder'
  <2>1. \A i \in 1..Len(readings) : readings[i].seen <= Len(log')
    <3>1. \A i \in 1..Len(readings) : readings[i].seen \in Nat
      BY <1>1, ReadingTypes
    <3> QED  BY <1>1, <1>4, <3>1 DEF RunsInOrder
  <2> QED  BY <1>1, <2>1 DEF RunsInOrder
<1>11. ASSUME NEW r, NEW t, r.seen \in Nat, t \in Nat, t <= now, ReadAt(r, t)
       PROVE  ReadAt(r, t)'
  <2>1. \A k \in (Len(log) + 1)..Len(log') : log'[k].at >= t
    <3>1. \A k \in (Len(log) + 1)..Len(log') : k = Len(log) + 1
      BY <1>1, <1>4
    <3> QED  BY <1>1, <1>3, <1>4, <1>11, <3>1
  <2> QED  BY <1>1, <1>5, <1>11, <2>1, StillReadAt
<1>12. ReadingsAreTrue'
  <2>1. pc = "read" => \E t \in Nat : started' <= t /\ t <= now /\ ReadAt(reading, t)'
    BY <1>1, <1>11, CurrentStaysTrue
  <2>2. ASSUME NEW i \in 1..Len(readings')
        PROVE  \E time \in Nat : /\ readings'[i].started <= time /\ time <= readings'[i].completed
                                 /\ ReadAt(readings[i], time)'
    <3>1. i \in 1..Len(readings) /\ readings'[i] = readings[i]
      BY <1>1
    <3> QED  BY <1>1, <1>11, <3>1, ReadingsStayTrue
  <2> QED  BY <1>1, <2>1, <2>2 DEF ReadingsAreTrue
<1>13. VerdictIsComputed'
  BY <1>1 DEF VerdictIsComputed
<1> QED
  BY <1>6, <1>9, <1>10, <1>12, <1>13 DEF IInv

LEMMA ReadIsGood == IInv /\ Read => IInv'
<1> SUFFICES ASSUME IInv, Read PROVE IInv'
  OBVIOUS
<1>1. /\ TypeOK /\ LogInOrder /\ RunsInOrder /\ ReadingsAreTrue /\ VerdictIsComputed
      /\ now' = now /\ now \in Nat /\ now <= now' /\ now' \in Nat
      /\ log' = log /\ readings' = readings /\ verdict' = verdict
      /\ pc = "observing" /\ pc' = "read" /\ started' = started /\ Len(log) \in Nat
  BY DEF IInv, Read, TypeOK
<1>2. PICK s \in Statistics(Len(log), now) :
        reading' = [known |-> Known(s), counters |-> CountersOf(s), seen |-> Len(log)]
  BY DEF Read
<1>3. /\ Observed(s) \in SUBSET Upstream
      /\ \A u \in Upstream : s.counters[u] \in CounterPair
  <2> DEFINE all == CountersAt(Len(log), now)
  <2>1. PICK counts \in Listed(Counted(all), Fewer(all)), averages \in Listed(Timed(all), Faster(all)) :
          s = [counters |-> all, counts |-> counts, averages |-> averages]
    BY DEF Statistics
  <2>2. counts \in SUBSET Upstream /\ averages \in SUBSET Upstream
    BY DEF Listed, Counted, Timed
  <2>3. ASSUME NEW u \in Upstream  PROVE all[u] \in CounterPair
    <3>1. InUnit(u, Len(log), now) \in SUBSET (1..Len(log))
      BY DEF InUnit
    <3>2. Totals(InUnit(u, Len(log), now)) \in CounterPair
      BY <1>1, <3>1, FiniteTotals DEF Totals, CounterPair
    <3> QED  BY <3>2 DEF CountersAt
  <2> QED  BY <2>1, <2>2, <2>3 DEF Observed
<1>4. CountersOf(s) \in CountersOfSome /\ Known(s) \in BOOLEAN
  <2>1. CountersOf(s) \in [Observed(s) -> CounterPair]
    BY <1>3 DEF CountersOf
  <2>2. Known(s) \in BOOLEAN
    BY DEF Known, PossiblyTruncated
  <2> QED  BY <1>3, <2>1, <2>2 DEF CountersOfSome
<1>5. reading' \in Reading
  BY <1>1, <1>2, <1>4 DEF Reading
<1>6. TypeOK'
  BY <1>1, <1>5 DEF TypeOK
<1>7. RunsInOrder'
  BY <1>1, <1>2 DEF RunsInOrder
<1>8. ReadAt(reading', now)
  <2> DEFINE r == [known |-> Known(s), counters |-> CountersOf(s), seen |-> Len(log)]
  <2>1. \A k \in 1..Len(log) : log[k].at <= now
    BY <1>1 DEF LogInOrder
  <2>2. \A k : k \notin (Len(log) + 1)..Len(log)
    BY <1>1
  <2>3. Known(s) => \A u \in Upstream : Counter(r, u) = Totals(InUnit(u, Len(log), now))
    <3>1. Known(s) => \A u \in Upstream :
            Counter([counters |-> CountersOf(s)], u) = Totals(InUnit(u, Len(log), now))
      BY <1>1, KnownIsComplete
    <3>2. \A u : Counter(r, u) = Counter([counters |-> CountersOf(s)], u)
      BY DEF Counter
    <3> QED  BY <3>1, <3>2
  <2>4. r.seen = Len(log) /\ r.known = Known(s)
    OBVIOUS
  <2>5. ReadAt(r, now)
    <3> HIDE DEF r
    <3> QED  BY <1>1, <2>1, <2>2, <2>3, <2>4 DEF ReadAt
  <2> QED  BY <1>2, <2>5
<1>9. ReadAt(reading, now)'
  BY <1>1, <1>8 DEF ReadAt, Counter, Totals, Ticks, InUnit, UnitOf
<1>10. started <= now
  BY <1>1 DEF RunsInOrder
<1>11. ReadingsAreTrue'
  <2>1. \E time \in Nat : started' <= time /\ time <= now' /\ ReadAt(reading, time)'
    BY <1>1, <1>9, <1>10
  <2> QED  BY <1>1, <2>1, Quiet DEF ReadingsAreTrue
<1> QED
  BY <1>1, <1>6, <1>7, <1>11, Quiet DEF IInv

LEMMA CompleteRunIsGood == IInv /\ CompleteRun => IInv'
<1> SUFFICES ASSUME IInv, CompleteRun PROVE IInv'
  OBVIOUS
<1> DEFINE current == [known |-> reading.known, counters |-> reading.counters, seen |-> reading.seen,
                       started |-> started, completed |-> now]
           N == Len(readings)
<1>1. /\ TypeOK /\ LogInOrder /\ RunsInOrder /\ ReadingsAreTrue /\ VerdictIsComputed
      /\ now' = now /\ now \in Nat /\ log' = log /\ pc = "read" /\ pc' = "idle" /\ started' = 0
      /\ readings' = Append(readings, current) /\ verdict' = Verdict(readings')
      /\ N \in Nat /\ started \in Nat /\ reading \in Reading /\ Len(log) \in Nat
      /\ readings \in Seq(StoredReading)
  BY DEF IInv, CompleteRun, TypeOK
<1>2. /\ current \in StoredReading
      /\ current.started = started /\ current.completed = now /\ current.seen = reading.seen
      /\ reading.seen \in Nat
  BY <1>1 DEF Reading, StoredReading
<1>3. current.known = reading.known /\ current.counters = reading.counters
  OBVIOUS
<1> HIDE DEF current
<1>4. /\ readings' \in Seq(StoredReading) /\ Len(readings') = N + 1
      /\ \A i \in 1..N : readings'[i] = readings[i]
      /\ readings'[N + 1] = current
  BY <1>1, <1>2
<1>5. TypeOK'
  BY <1>1, <1>4 DEF TypeOK
<1>6. \A i : i \in 1..Len(readings') <=> i \in 1..N \/ i = N + 1
  BY <1>1, <1>4
<1>7. LogInOrder'
  BY <1>1 DEF LogInOrder
<1>8. PICK t \in Nat : started <= t /\ t <= now /\ ReadAt(reading, t)
  BY <1>1 DEF ReadingsAreTrue
<1>9. RunsInOrder'
  <2>1. \A i \in 1..Len(readings') :
          readings'[i].started <= readings'[i].completed /\ readings'[i].completed <= now
    BY <1>1, <1>2, <1>4, <1>6 DEF RunsInOrder
  <2>2. ASSUME NEW i \in 1..Len(readings'), NEW j \in 1..Len(readings'), i < j
        PROVE  readings'[i].completed <= readings'[j].started /\ readings'[i].seen <= readings'[j].seen
    <3>1. CASE j = N + 1
      <4>1. i \in 1..N
        BY <1>1, <1>6, <2>2, <3>1
      <4> QED  BY <1>1, <1>2, <1>4, <3>1, <4>1 DEF RunsInOrder
    <3>2. CASE j \in 1..N
      <4>1. i \in 1..N
        BY <1>1, <1>6, <2>2, <3>2
      <4> QED  BY <1>1, <1>4, <2>2, <3>2, <4>1 DEF RunsInOrder
    <3> QED  BY <1>6, <3>1, <3>2
  <2>3. \A i \in 1..Len(readings') : readings'[i].seen <= Len(log)
    <3>1. reading.seen <= Len(log)
      BY <1>8 DEF ReadAt
    <3> QED  BY <1>1, <1>2, <1>4, <1>6, <3>1 DEF RunsInOrder
  <2> QED  BY <1>1, <2>1, <2>2, <2>3 DEF RunsInOrder
<1>10. \A r, time : ReadAt(r, time) => ReadAt(r, time)'
  BY <1>1, SameLog
<1>11. ASSUME NEW i \in 1..Len(readings')
       PROVE  \E time \in Nat : /\ readings'[i].started <= time /\ time <= readings'[i].completed
                                /\ ReadAt(readings[i], time)'
  <2>1. CASE i \in 1..N
    <3>1. readings'[i] = readings[i]
      BY <1>4, <2>1
    <3> QED  BY <1>1, <1>10, <2>1, <3>1, ReadingsStayTrue
  <2>2. CASE i = N + 1
    <3>1. PICK r : r = current
      OBVIOUS
    <3>2. r = readings'[i] /\ r.started <= t /\ t <= r.completed
      BY <1>2, <1>4, <1>8, <2>2, <3>1
    <3>3. ReadAt(r, t)
      <4>1. r.seen = reading.seen /\ r.known = reading.known /\ r.counters = reading.counters
        BY <1>2, <1>3, <3>1
      <4>2. \A u : Counter(r, u) = Counter(reading, u)
        BY <4>1 DEF Counter
      <4> QED  BY <1>8, <4>1, <4>2 DEF ReadAt
    <3>4. ReadAt(r, t)'
      BY <1>10, <3>3
    <3>5. ReadAt(readings[i], t)'
      BY <3>2, <3>4 DEF ReadAt, Counter, Totals, Ticks, InUnit, UnitOf
    <3> QED  BY <3>2, <3>5
  <2> QED  BY <1>6, <2>1, <2>2
<1>12. ReadingsAreTrue'
  BY <1>1, <1>11 DEF ReadingsAreTrue
<1>13. VerdictIsComputed'
  BY <1>1 DEF VerdictIsComputed
<1> QED
  BY <1>5, <1>7, <1>9, <1>12, <1>13 DEF IInv

-----------------------------------------------------------------------------
(* Every reading with known counts is what the log says at one moment of    *)
(* its run, runs follow each other, and the newest verdict was computed     *)
(* from what is stored.                                                    *)
THEOREM Invariant == Spec => []IInv
<1>1. IInv /\ [Next]_vars => IInv'
  BY RespondIsGood, TickIsGood, StartCheckIsGood, ReadIsGood, CompleteRunIsGood, AbandonIsGood,
     StutterIsGood DEF Next
<1> QED
  BY <1>1, InitIsGood, PTL DEF Spec

(* Whatever the upstreams answer and whenever units end, what is pooled for *)
(* an upstream is exactly what it gave between the readings (upstream_window *)
(* and evaluate_upstream_latency over normalize_upstreams).                 *)
THEOREM PooledCountersAreTrue == Spec => []PooledIsTrue
BY Invariant, PooledHolds, PTL

(* An alarm, and an all clear, is what the responses really call for.      *)
THEOREM VerdictsAreTrue == Spec => []VerdictIsTrue
BY Invariant, VerdictHolds, PTL

(* load_upstream_samples loads enough: the whole history would pool the    *)
(* same windows.                                                           *)
THEOREM LoadedHistorySuffices == Spec => []HistorySuffices
BY Invariant, HistoryHolds, PTL

=============================================================================
