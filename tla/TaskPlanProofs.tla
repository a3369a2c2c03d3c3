--------------------------- MODULE TaskPlanProofs ----------------------------
(***************************************************************************)
(* Proofs about TaskPlan, for any number of tasks, answers, extensions and *)
(* redrafts: the two validators together give a plan that the batches of   *)
(* TaskDag execute to its end.                                             *)
(***************************************************************************)
EXTENDS TaskPlanProps, RecursionProofs, FiniteSetTheorems

\* In a finite plan without a cycle everything is placed after as many batches as there are tasks.
LEMMA AllPlaced ==
    ASSUME NEW ids, IsFiniteSet(ids), NEW deps, NEW f, IsPlaced(ids, deps, f),
           \A i \in ids : deps[i] \subseteq ids, Rooted(ids, deps)
    PROVE  Cardinality(ids) \in Nat /\ f[Cardinality(ids)] = ids
<1>1. Cardinality(ids) \in Nat
  BY FS_CardinalityType
<1>2. \A n \in Nat : f[n] \subseteq ids /\ IsFiniteSet(f[n]) /\ Cardinality(f[n]) \in Nat
  BY FS_Subset, FS_CardinalityType DEF IsPlaced
<1>3. ASSUME NEW n \in Nat, f[n] # ids PROVE \E i \in ids : i \notin f[n] /\ i \in f[n + 1]
  <2>1. PICK i \in ids \ f[n] : deps[i] \intersect (ids \ f[n]) = {}
    BY <1>2, <1>3 DEF Rooted
  <2>2. deps[i] \subseteq f[n]
    BY <2>1
  <2>3. f[n + 1] = {k \in ids : deps[k] \subseteq f[n]}
    <3>1. n + 1 \in Nat \ {0} /\ (n + 1) - 1 = n
      OBVIOUS
    <3>. QED BY <3>1 DEF IsPlaced
  <2>. QED BY <2>1, <2>2, <2>3
<1>. DEFINE T == {n \in Nat : f[n] = ids \/ Cardinality(f[n]) >= n}
<1>4. 0 \in T
  BY <1>2
<1>5. ASSUME NEW n \in Nat, n \in T PROVE n + 1 \in T
  <2>1. f[n] \subseteq f[n + 1]
    <3>1. n \in 0..(n + 1) /\ n + 1 \in Nat
      OBVIOUS
    <3>. QED BY <3>1, PlacedGrows
  <2>2. CASE f[n] = ids
    <3>1. n + 1 \in Nat
      OBVIOUS
    <3>2. f[n + 1] \subseteq ids
      BY <1>2, <3>1
    <3>3. f[n + 1] = ids
      BY <2>1, <2>2, <3>2
    <3>. QED BY <3>1, <3>3
  <2>3. CASE f[n] # ids
    <3>1. PICK i \in ids : i \notin f[n] /\ i \in f[n + 1]
      BY <1>3, <2>3
    <3>2. Cardinality(f[n] \union {i}) = Cardinality(f[n]) + 1
      BY <1>2, <3>1, FS_AddElement
    <3>3. Cardinality(f[n] \union {i}) <= Cardinality(f[n + 1])
      <4>1. f[n] \union {i} \in SUBSET f[n + 1] /\ IsFiniteSet(f[n + 1])
        BY <1>2, <2>1, <3>1
      <4>. QED BY <4>1, FS_Subset
    <3>4. Cardinality(f[n]) \in Nat /\ Cardinality(f[n + 1]) \in Nat /\ Cardinality(f[n]) >= n
      BY <1>2, <1>5, <2>3
    <3>5. Cardinality(f[n + 1]) >= n + 1
      BY <3>2, <3>3, <3>4
    <3>. QED BY <3>5
  <2>. QED BY <2>2, <2>3
<1>. HIDE DEF T
<1>6. \A n \in Nat : n \in T
  BY <1>4, <1>5, NatInd
<1>7. f[Cardinality(ids)] = ids \/ Cardinality(f[Cardinality(ids)]) >= Cardinality(ids)
  BY <1>1, <1>6 DEF T
<1>8. f[Cardinality(ids)] \in SUBSET ids /\ Cardinality(f[Cardinality(ids)]) \in Nat
      /\ Cardinality(f[Cardinality(ids)]) <= Cardinality(ids)
  BY <1>1, <1>2, FS_Subset
<1>9. f[Cardinality(ids)] = ids
  BY <1>1, <1>7, <1>8, FS_Subset
<1>. QED BY <1>1, <1>9

\* The batches part the plan, without a gap, and each task comes after its dependencies.
LEMMA BatchesAre ==
    ASSUME NEW ids, IsFiniteSet(ids), NEW deps, NEW f, IsPlaced(ids, deps, f),
           \A i \in ids : deps[i] \subseteq ids, Rooted(ids, deps),
           NEW N, N = Cardinality(ids)
    PROVE  /\ \A i \in ids : Cardinality({k \in 1..N : i \in f[k] \ f[k - 1]}) = 1
           /\ \A k \in (1..N) \ {1} : f[k] \ f[k - 1] # {} => f[k - 1] \ f[(k - 1) - 1] # {}
           /\ \A i \in ids, k \in 1..N : i \in f[k] \ f[k - 1] =>
                 \A d \in deps[i] : \E j \in 1..(k - 1) : d \in f[j] \ f[j - 1]
<1>1. N \in Nat /\ f[N] = ids
  BY AllPlaced
<1>2. ASSUME NEW n \in Nat, NEW i, i \in f[n]
      PROVE  \E m \in 1..n : i \in f[m] \ f[m - 1] /\ \A k \in Nat : i \in f[k] => m <= k
  <2>. DEFINE T == {m \in Nat : i \in f[m]}
  <2>1. PICK m \in T : \A k \in T : m <= k
    <3>1. T \in SUBSET Nat /\ T # {}
      BY <1>2
    <3>. HIDE DEF T
    <3>. QED BY <3>1, NatMin
  <2>2. m \in Nat /\ i \in f[m] /\ m <= n
    BY <2>1, <1>2
  <2>3. m # 0
    BY <2>2 DEF IsPlaced
  <2>4. i \notin f[m - 1]
    <3>1. m - 1 \in Nat /\ ~(m <= m - 1)
      BY <2>2, <2>3
    <3>. QED BY <2>1, <3>1
  <2>. QED BY <2>1, <2>2, <2>3, <2>4
<1>3. ASSUME NEW i \in ids PROVE Cardinality({k \in 1..N : i \in f[k] \ f[k - 1]}) = 1
  <2>1. PICK m \in 1..N : i \in f[m] \ f[m - 1] /\ \A k \in Nat : i \in f[k] => m <= k
    BY <1>1, <1>2
  <2>2. ASSUME NEW k \in 1..N, i \in f[k] \ f[k - 1] PROVE k = m
    <3>1. k \in Nat /\ k - 1 \in Nat /\ m \in Nat /\ m <= k
      BY <1>1, <2>1, <2>2
    <3>2. m <= k - 1 => f[m] \subseteq f[k - 1]
      BY <3>1, PlacedGrows
    <3>3. ~(m <= k - 1)
      BY <2>1, <2>2, <3>2
    <3>. QED BY <3>1, <3>3
  <2>3. {k \in 1..N : i \in f[k] \ f[k - 1]} = {m}
    BY <2>1, <2>2
  <2>. QED BY <2>3, FS_Singleton
<1>4. ASSUME NEW k \in (1..N) \ {1}, f[k] \ f[k - 1] # {} PROVE f[k - 1] \ f[(k - 1) - 1] # {}
  <2>1. k \in Nat \ {0} /\ k - 1 \in Nat \ {0} /\ (k - 1) - 1 \in Nat
    BY <1>1
  <2>2. f[k] = {i \in ids : deps[i] \subseteq f[k - 1]} /\ f[k - 1] = {i \in ids : deps[i] \subseteq f[(k - 1) - 1]}
    BY <2>1 DEF IsPlaced
  <2>3. f[(k - 1) - 1] \subseteq f[k - 1]
    <3>1. (k - 1) - 1 \in 0..(k - 1)
      BY <2>1
    <3>. QED BY <2>1, <3>1, PlacedGrows
  <2>. SUFFICES ASSUME f[k - 1] = f[(k - 1) - 1] PROVE FALSE
    BY <2>3
  <2>4. f[k] = f[k - 1]
    BY <2>2
  <2>. QED BY <1>4, <2>4
<1>5. ASSUME NEW i \in ids, NEW k \in 1..N, i \in f[k] \ f[k - 1], NEW d \in deps[i]
      PROVE  \E j \in 1..(k - 1) : d \in f[j] \ f[j - 1]
  <2>1. k \in Nat \ {0} /\ k - 1 \in Nat
    BY <1>1
  <2>2. d \in f[k - 1]
    BY <1>5, <2>1 DEF IsPlaced
  <2>. QED BY <1>2, <2>1, <2>2
<1>. QED BY <1>3, <1>4, <1>5

(***************************************************************************)
(* Kahn's algorithm                                                        *)
(***************************************************************************)
\* A task is visited once all its dependencies are.
InDegreeOf(ids, deps, i, visited) ==
    Cardinality(deps[i] \intersect ids) - Cardinality(deps[i] \intersect visited)

\* The equation of Visited in KahnFinishes
VisitedFrom(ids, deps, N, f) ==
    [n \in 0..N |-> IF n = 0 THEN {}
                    ELSE f[n - 1] \union {i \in ids : InDegreeOf(ids, deps, i, f[n - 1]) = 0}]

LEMMA InDegreeZero ==
    ASSUME NEW ids, IsFiniteSet(ids), NEW deps, NEW i, NEW visited \in SUBSET ids,
           InDegreeOf(ids, deps, i, visited) = 0
    PROVE  deps[i] \intersect ids \subseteq visited
<1>. DEFINE A == deps[i] \intersect ids
            B == deps[i] \intersect visited
<1>1. IsFiniteSet(A) /\ B \in SUBSET A
  <2>1. A \in SUBSET ids
    OBVIOUS
  <2>. HIDE DEF A
  <2>2. IsFiniteSet(A)
    BY <2>1, FS_Subset
  <2>. QED BY <2>2 DEF A
<1>2. Cardinality(A) - Cardinality(B) = 0
  BY DEF InDegreeOf
<1>. HIDE DEF A, B
<1>3. Cardinality(A) \in Nat /\ Cardinality(B) \in Nat /\ (Cardinality(A) = Cardinality(B) => A = B)
  BY <1>1, FS_Subset, FS_CardinalityType
<1>4. A = B
  BY <1>2, <1>3
<1>. QED BY <1>4 DEF A, B

LEMMA VisitedExists ==
    ASSUME NEW ids, NEW deps, NEW N \in Nat
    PROVE  \E f : f = VisitedFrom(ids, deps, N, f)
<1>. DEFINE Step(X) == X \union {i \in ids : InDegreeOf(ids, deps, i, X) = 0}
            S == SUBSET ids
            F == [X \in S |-> Step(X)]
<1>1. F \in [S -> S] /\ {} \in S /\ \A X \in S : F[X] = Step(X)
  <2>. HIDE DEF S
  <2>1. \A X \in S : Step(X) \in S
    BY DEF S
  <2>. HIDE DEF Step
  <2>. QED BY <2>1 DEF S
<1>. HIDE DEF F
<1>2. PICK f \in [Nat -> S] : f[0] = {} /\ \A n \in Nat \ {0} : f[n] = F[f[n - 1]]
  <2>. HIDE DEF S
  <2>. QED BY <1>1, IterateExists
<1>3. \A n \in Nat \ {0} : f[n] = Step(f[n - 1])
  <2>. HIDE DEF S, Step
  <2>. SUFFICES ASSUME NEW n \in Nat \ {0} PROVE f[n] = Step(f[n - 1])
    OBVIOUS
  <2>1. n - 1 \in Nat
    OBVIOUS
  <2>2. f[n - 1] \in S
    BY <1>2, <2>1
  <2>. QED BY <1>1, <1>2, <2>2
<1>. HIDE DEF Step
<1>. DEFINE g == [n \in 0..N |-> f[n]]
<1>4. \A n \in 0..N : g[n] = IF n = 0 THEN {} ELSE Step(g[n - 1])
  <2>. SUFFICES ASSUME NEW n \in 0..N, n # 0 PROVE g[n] = Step(g[n - 1])
    BY <1>2
  <2>1. n - 1 \in 0..N /\ n \in Nat \ {0}
    OBVIOUS
  <2>2. g[n - 1] = f[n - 1] /\ g[n] = f[n]
    BY <2>1
  <2>. QED BY <1>3, <2>1, <2>2
<1>5. g = [n \in 0..N |-> g[n]]
  OBVIOUS
<1>. HIDE DEF g
<1>6. g = [n \in 0..N |-> IF n = 0 THEN {} ELSE Step(g[n - 1])]
  BY <1>4, <1>5
<1>. QED BY <1>6 DEF Step, VisitedFrom

\* What validate_dag counts shows that no part of the DAG waits for itself.
LEMMA KahnIsRight ==
    ASSUME NEW ids, IsFiniteSet(ids), NEW deps, KahnFinishes(ids, deps)
    PROVE  Rooted(ids, deps)
<1>. DEFINE N == Cardinality(ids)
            V == CHOOSE f : f = VisitedFrom(ids, deps, N, f)
<1>1. N \in Nat
  BY FS_CardinalityType
<1>2. V[N] = ids
  BY DEF KahnFinishes, InDegreeOf, VisitedFrom
<1>. HIDE DEF N
<1>3. V = VisitedFrom(ids, deps, N, V)
  BY <1>1, VisitedExists
<1>. HIDE DEF V
<1>. DEFINE Fresh(n) == {i \in ids : InDegreeOf(ids, deps, i, V[n - 1]) = 0}
<1>4. /\ V[0] = {}
      /\ \A n \in 1..N : V[n] = V[n - 1] \union Fresh(n)
  <2>1. V = [n \in 0..N |-> IF n = 0 THEN {} ELSE V[n - 1] \union Fresh(n)]
    BY <1>3 DEF VisitedFrom
  <2>. HIDE DEF Fresh
  <2>2. \A n \in 0..N : V[n] = IF n = 0 THEN {} ELSE V[n - 1] \union Fresh(n)
    BY <2>1
  <2>3. 0 \in 0..N /\ \A n \in 1..N : n \in 0..N /\ n # 0
    BY <1>1
  <2>. HIDE DEF Fresh
  <2>4. V[0] = {}
    BY <2>2, <2>3
  <2>5. ASSUME NEW n \in 1..N PROVE V[n] = V[n - 1] \union Fresh(n)
    BY <2>2, <2>3
  <2>. QED BY <2>4, <2>5
<1>5. \A n \in 0..N : V[n] \subseteq ids
  <2>. DEFINE T == {n \in Nat : n <= N => V[n] \subseteq ids}
  <2>1. 0 \in T
    BY <1>4
  <2>2. ASSUME NEW n \in Nat, n \in T PROVE n + 1 \in T
    <3>. SUFFICES ASSUME n + 1 <= N PROVE V[n + 1] \subseteq ids
      OBVIOUS
    <3>1. n + 1 \in 1..N /\ (n + 1) - 1 = n /\ V[n] \subseteq ids
      BY <1>1, <2>2
    <3>. QED BY <1>4, <3>1
  <2>. HIDE DEF T
  <2>3. \A n \in Nat : n \in T
    BY <2>1, <2>2, NatInd
  <2>. QED BY <1>1, <2>3 DEF T
<1>6. ASSUME NEW X \in SUBSET ids, X # {} PROVE \E i \in X : deps[i] \intersect X = {}
  <2>. DEFINE T == {n \in 0..N : V[n] \intersect X # {}}
  <2>1. PICK m \in T : \A k \in T : m <= k
    <3>1. T \in SUBSET Nat /\ T # {}
      BY <1>1, <1>2, <1>6
    <3>. HIDE DEF T
    <3>. QED BY <3>1, NatMin
  <2>2. m \in 1..N /\ m - 1 \in 0..N
    BY <1>1, <1>4, <2>1
  <2>3. V[m - 1] \intersect X = {}
    <3>1. ~(m <= m - 1)
      BY <2>2
    <3>. QED BY <2>1, <2>2, <3>1
  <2>4. PICK i \in X : i \in V[m]
    BY <2>1
  <2>5. InDegreeOf(ids, deps, i, V[m - 1]) = 0
    BY <1>4, <2>2, <2>3, <2>4
  <2>6. deps[i] \intersect ids \subseteq V[m - 1]
    BY <1>5, <2>2, <2>5, InDegreeZero
  <2>. QED BY <2>3, <2>6
<1>. QED BY <1>6 DEF Rooted

(***************************************************************************)
(* The validators                                                          *)
(***************************************************************************)
LEMMA FiniteIds ==
    ASSUME NEW a \in SUBSET Task
    PROVE  IdsOf(a) \subseteq TaskId /\ IsFiniteSet(IdsOf(a))
<1>1. IdsOf(a) \subseteq 0..MaxId
  BY DEF IdsOf, Task, TaskId
<1>2. IsFiniteSet(0..MaxId)
  BY PlanAssumption, FS_Interval
<1>. QED BY <1>1, <1>2, FS_Subset DEF TaskId

LEMMA FiniteAnswer ==
    ASSUME NEW a \in Answer
    PROVE  a \subseteq Task /\ IsFiniteSet(a)
<1>1. CASE a = {}
  BY <1>1, FS_EmptySet
<1>2. CASE a # {}
  <2>1. PICK list \in [1..MaxAnswer -> Task] : a = {list[k] : k \in 1..MaxAnswer}
    BY <1>2 DEF Answer
  <2>2. IsFiniteSet(1..MaxAnswer)
    BY PlanAssumption, FS_Interval
  <2>3. list \in Surjection(1..MaxAnswer, a)
    BY <2>1 DEF Surjection
  <2>4. IsFiniteSet(a)
    BY <2>2, <2>3, FS_Surjection
  <2>. QED BY <2>1, <2>4
<1>. QED BY <1>1, <1>2

LEMMA UniqueAreDistinct ==
    ASSUME NEW a \in Answer, UniqueIds(a)
    PROVE  Distinct(a)
<1>1. IsFiniteSet(a)
  BY FiniteAnswer
<1>. DEFINE f == [t \in a |-> t.id]
            I == IdsOf(a)
<1>2. f \in Surjection(a, I)
  BY DEF Surjection, IdsOf
<1>3. Cardinality(I) = Cardinality(a)
  BY DEF UniqueIds
<1>4. f \in Injection(a, I)
  <2>. HIDE DEF f, I
  <2>. QED BY <1>1, <1>2, <1>3, FS_Surjection
<1>. QED BY <1>4 DEF Injection, IsInjective, Distinct

LEMMA DepsAre ==
    ASSUME NEW a, Distinct(a)
    PROVE  \A t \in a : t.id \in IdsOf(a) /\ DepsOf(a)[t.id] = t.deps
<1>. SUFFICES ASSUME NEW t \in a PROVE t.id \in IdsOf(a) /\ DepsOf(a)[t.id] = t.deps
  OBVIOUS
<1>1. t.id \in IdsOf(a)
  BY DEF IdsOf
<1>2. (CHOOSE u \in a : u.id = t.id) = t
  BY DEF Distinct
<1>. QED BY <1>1, <1>2 DEF DepsOf

LEMMA FirstIsSound ==
    ASSUME NEW a \in Answer, ValidDag(a)
    PROVE  Sound(a)
<1>1. Distinct(a)
  BY UniqueAreDistinct DEF ValidDag
<1>2. Rooted(IdsOf(a), DepsOf(a))
  BY FiniteAnswer, FiniteIds, KahnIsRight DEF ValidDag
<1>. QED BY <1>1, <1>2 DEF ValidDag, DepsPresent, Sound

LEMMA DeltaIsSound ==
    ASSUME NEW prior \in SUBSET Task, Sound(prior), NEW a \in Answer, ValidDelta(a, prior)
    PROVE  Sound(prior \union a)
<1>. DEFINE all == prior \union a
<1>1. Distinct(a)
  BY UniqueAreDistinct DEF ValidDelta
<1>2. Rooted(IdsOf(a), DepsOf(a))
  BY FiniteAnswer, FiniteIds, KahnIsRight DEF ValidDelta
<1>3. IdsOf(a) \intersect IdsOf(prior) = {} /\ IdsOf(all) = IdsOf(prior) \union IdsOf(a)
  BY DEF ValidDelta, NewNumbers, Collisions, IdsOf
<1>4. Distinct(all)
  BY <1>1, <1>3 DEF Distinct, Sound, IdsOf
<1>5. \A t \in all : t.deps \subseteq IdsOf(all)
  BY <1>3 DEF ValidDelta, DepsPresent, Sound
<1>6. ASSUME NEW X \in SUBSET IdsOf(all), X # {}
      PROVE  \E i \in X : DepsOf(all)[i] \intersect X = {}
  <2>1. CASE X \intersect IdsOf(prior) # {}
    <3>. DEFINE Y == X \intersect IdsOf(prior)
    <3>1. PICK i \in Y : DepsOf(prior)[i] \intersect Y = {}
      BY <2>1 DEF Sound, Rooted
    <3>2. PICK t \in prior : t.id = i
      BY <3>1 DEF IdsOf
    <3>3. DepsOf(prior)[i] = t.deps /\ DepsOf(all)[i] = t.deps
      BY <1>4, <3>2, DepsAre DEF Sound
    <3>4. t.deps \subseteq IdsOf(prior)
      BY <3>2 DEF Sound
    <3>. QED BY <3>1, <3>3, <3>4
  <2>2. CASE X \intersect IdsOf(prior) = {}
    <3>1. X \in SUBSET IdsOf(a)
      BY <1>3, <2>2
    <3>2. PICK i \in X : DepsOf(a)[i] \intersect X = {}
      BY <1>2, <1>6, <3>1 DEF Rooted
    <3>3. PICK t \in a : t.id = i
      BY <3>1, <3>2 DEF IdsOf
    <3>4. DepsOf(a)[i] = t.deps /\ DepsOf(all)[i] = t.deps
      BY <1>1, <1>4, <3>3, DepsAre
    <3>. QED BY <3>2, <3>4
  <2>. QED BY <2>1, <2>2
<1>. QED BY <1>4, <1>5, <1>6 DEF Sound, Rooted

(***************************************************************************)
(* The plan of every state                                                 *)
(***************************************************************************)
LEMMA SoundIsBatched ==
    ASSUME TypeOK, Sound(tasks)
    PROVE  PlanIsSound
<1>. DEFINE ids == IdsOf(tasks)
            deps == DepsOf(tasks)
            P == Batches!Placed
            N == Cardinality(ids)
<1>1. IsFiniteSet(ids) /\ Distinct(tasks) /\ Rooted(ids, deps)
  BY FiniteIds DEF TypeOK, Sound
<1>2. \A t \in tasks : t.id \in ids /\ deps[t.id] = t.deps
  BY <1>1, DepsAre
<1>3. \A i \in ids : deps[i] \subseteq ids
  BY <1>2 DEF Sound, IdsOf
<1>. HIDE DEF ids, deps
<1>4. IsPlaced(ids, deps, P)
  BY PlacedExists DEF Batches!Placed, ids, deps
<1>5. \A k : Batches!Batch(k) = P[k] \ P[k - 1]
  BY DEF Batches!Batch
<1>. HIDE DEF P
<1>6. /\ \A i \in ids : Cardinality({k \in 1..N : i \in P[k] \ P[k - 1]}) = 1
      /\ \A k \in (1..N) \ {1} : P[k] \ P[k - 1] # {} => P[k - 1] \ P[(k - 1) - 1] # {}
      /\ \A i \in ids, k \in 1..N : i \in P[k] \ P[k - 1] =>
            \A d \in deps[i] : \E j \in 1..(k - 1) : d \in P[j] \ P[j - 1]
  BY <1>1, <1>3, <1>4, BatchesAre
<1>7. \A s, t \in tasks : s.id = t.id => s = t
  BY <1>1 DEF Distinct
<1>8. \A i \in ids : Cardinality({k \in 1..N : i \in Batches!Batch(k)}) = 1
  BY <1>5, <1>6
<1>9. \A k \in (1..N) \ {1} : Batches!Batch(k) # {} => Batches!Batch(k - 1) # {}
  BY <1>5, <1>6
<1>10. \A t \in tasks, k \in 1..N : t.id \in Batches!Batch(k) =>
          \A d \in t.deps : \E j \in 1..(k - 1) : d \in Batches!Batch(j)
  BY <1>2, <1>5, <1>6
<1>. QED BY <1>7, <1>8, <1>9, <1>10 DEF PlanIsSound, ids

LEMMA PlanInit ==
    Init => PlanInv /\ RecordsInv
<1>. SUFFICES ASSUME Init PROVE PlanInv /\ RecordsInv
  OBVIOUS
<1>1. TypeOK
  <2>1. attempt \in 0..MaxRetries /\ redrafts \in 0..MaxRedrafts
    BY PlanAssumption DEF Init, MaxRetries
  <2>2. exts \in Seq(SUBSET TaskId)
    BY DEF Init
  <2>3. tasks \subseteq Task /\ gated \subseteq TaskId /\ executed \subseteq Task
    BY DEF Init
  <2>4. claims \in BOOLEAN /\ extending \in BOOLEAN /\ phase = "approved"
    BY DEF Init
  <2>. QED BY <2>1, <2>2, <2>3, <2>4 DEF TypeOK
<1>2. Sound(tasks)
  BY DEF Init, Sound, Distinct, Rooted, IdsOf
<1>. QED BY <1>1, <1>2 DEF Init, PlanInv, RecordsInv, NothingBefore

LEMMA TypeStep ==
    ASSUME TypeOK, [Next \/ Redraft]_vars
    PROVE  TypeOK'
<1>. USE PlanAssumption DEF TypeOK, plan, MaxRetries
<1>1. CASE Generate
  BY <1>1 DEF Generate
<1>2. CASE Reject
  BY <1>2 DEF Reject
<1>3. CASE GiveUp
  BY <1>3 DEF GiveUp
<1>4. ASSUME NEW a \in Answer, AcceptPlan(a) PROVE TypeOK'
  <2>1. a \subseteq Task
    BY FiniteAnswer
  <2>2. gated' \subseteq TaskId
    BY <1>4, <2>1 DEF AcceptPlan, Task
  <2>. QED BY <1>4, <2>1, <2>2 DEF AcceptPlan
<1>5. ASSUME NEW a \in Answer, AcceptDelta(a) PROVE TypeOK'
  <2>1. a \subseteq Task
    BY FiniteAnswer
  <2>2. IdsOf(a) \in SUBSET TaskId
    BY <2>1, FiniteIds
  <2>. QED BY <1>5, <2>1, <2>2 DEF AcceptDelta
<1>6. CASE AcceptNothing
  BY <1>6 DEF AcceptNothing
<1>7. ASSUME NEW t \in tasks, Execute(t) PROVE TypeOK'
  BY <1>7 DEF Execute
<1>8. CASE Ship
  BY <1>8 DEF Ship
<1>9. CASE Extend
  BY <1>9 DEF Extend
<1>10. CASE Redraft
  <2>1. redrafts' \in 0..MaxRedrafts
    BY <1>10 DEF Redraft
  <2>2. phase' = "approved" /\ extending' = FALSE
    BY <1>10 DEF Redraft
  <2>3. UNCHANGED <<claims, attempt, tasks, exts, gated, executed>>
    BY <1>10 DEF Redraft
  <2>. QED BY <2>1, <2>2, <2>3
<1>11. CASE Stop \/ UNCHANGED vars
  BY <1>11 DEF Stop, vars
<1>. QED BY <1>1, <1>2, <1>3, <1>4, <1>5, <1>6, <1>7, <1>8, <1>9, <1>10, <1>11
         DEF Next, Answering, Executing

\* The plan changes where an answer is accepted, and nowhere else.
LEMMA PlanChanges ==
    ASSUME [Next \/ Redraft]_vars, tasks' # tasks
    PROVE  \E a \in Answer : AcceptPlan(a) \/ AcceptDelta(a)
BY DEF Next, Answering, Executing, Generate, Reject, GiveUp, AcceptNothing, Execute, Ship, Extend,
       Redraft, Stop, vars, plan

LEMMA PlanStep ==
    ASSUME PlanInv, [Next \/ Redraft]_vars
    PROVE  PlanInv'
<1>1. TypeOK'
  BY TypeStep DEF PlanInv
<1>2. Sound(tasks')
  <2>1. CASE tasks' = tasks
    BY <2>1 DEF PlanInv
  <2>2. ASSUME NEW a \in Answer, AcceptPlan(a) PROVE Sound(tasks')
    BY <2>2, FirstIsSound DEF AcceptPlan, Valid
  <2>3. ASSUME NEW a \in Answer, AcceptDelta(a) PROVE Sound(tasks')
    <3>1. ValidDelta(a, tasks) /\ tasks' = tasks \union a
      BY <2>3 DEF AcceptDelta, Valid
    <3>2. tasks \in SUBSET Task /\ Sound(tasks)
      BY DEF PlanInv, TypeOK
    <3>. QED BY <3>1, <3>2, DeltaIsSound
  <2>. QED BY <2>1, <2>2, <2>3, PlanChanges
<1>3. (Sound(tasks))'
  BY <1>2 DEF Sound, Distinct, Rooted, IdsOf, DepsOf
<1>. QED BY <1>1, <1>3 DEF PlanInv

LEMMA RecordsStep ==
    ASSUME RecordsInv, [Next]_vars
    PROVE  RecordsInv'
<1>. USE DEF plan
<1>1. PlanInv'
  BY PlanStep DEF RecordsInv
<1>. SUFFICES executed' \subseteq tasks' /\ NothingBefore'
  BY <1>1 DEF RecordsInv
<1>. USE DEF RecordsInv, NothingBefore
<1>2. CASE Generate
  BY <1>2 DEF Generate
<1>3. CASE Reject \/ GiveUp \/ AcceptNothing
  BY <1>3 DEF Reject, GiveUp, AcceptNothing
<1>4. ASSUME NEW a \in Answer, AcceptPlan(a) PROVE executed' \subseteq tasks' /\ NothingBefore'
  BY <1>4 DEF AcceptPlan
<1>5. ASSUME NEW a \in Answer, AcceptDelta(a) PROVE executed' \subseteq tasks' /\ NothingBefore'
  BY <1>5 DEF AcceptDelta
<1>6. ASSUME NEW t \in tasks, Execute(t) PROVE executed' \subseteq tasks' /\ NothingBefore'
  BY <1>6 DEF Execute
<1>7. CASE Ship \/ Extend
  BY <1>7 DEF Ship, Extend
<1>8. CASE Stop \/ UNCHANGED vars
  BY <1>8 DEF Stop, vars
<1>. QED BY <1>2, <1>3, <1>4, <1>5, <1>6, <1>7, <1>8 DEF Next, Answering, Executing

(***************************************************************************)
(* Theorems                                                                *)
(***************************************************************************)
\* Each variable keeps its shape, however often a plan is extended or sent back.
THEOREM TypeCorrect == RedraftSpec => []TypeOK
<1>1. PlanInv => TypeOK
  BY DEF PlanInv
<1>. QED BY PlanInit, PlanStep, <1>1, PTL DEF RedraftSpec

(* Every plan that is on disk can be executed: the first plan was checked alone, each delta
   only within itself and against the ids of the plan before it, and still the whole has no
   cycle, no task twice and no dependency missing, so that the batches are a partition of it
   in the order of the dependencies.  It holds for plans that are sent back as well. *)
THEOREM PlansAreSound == RedraftSpec => []PlanIsSound
<1>1. PlanInv => PlanIsSound
  BY SoundIsBatched DEF PlanInv
<1>. QED BY PlanInit, PlanStep, <1>1, PTL DEF RedraftSpec

(* Where no plan is sent back, the DONE records that a project takes along through all its
   extensions are records of tasks of the plan, each under its own id. *)
THEOREM RecordsMatch == Spec => []RecordsMatchPlan
<1>1. RecordsInv => RecordsMatchPlan
  BY DEF RecordsInv, PlanInv, Sound, Distinct, RecordsMatchPlan
<1>. QED BY PlanInit, RecordsStep, <1>1, PTL DEF Spec

==============================================================================
