--------------------------- MODULE RecursionProofs ---------------------------
(***************************************************************************)
(* What the other proofs need of recursive functions: induction over the   *)
(* natural numbers stated for sets, the existence of the function that     *)
(* iterates a step, and with it the batches of TaskDag.                    *)
(***************************************************************************)
EXTENDS Integers, WellFoundedInduction, TLAPS

(***************************************************************************)
(* Induction over the natural numbers, for sets                            *)
(***************************************************************************)
LEMMA NatMin ==
    ASSUME NEW T \in SUBSET Nat, T # {}
    PROVE  \E m \in T : \A k \in T : m <= k
<1>. DEFINE R == {ss \in Nat \X Nat : ss[1] < ss[2]}
<1>1. IsWellFoundedOn(R, Nat)
  BY NatLessThanWellFounded DEF OpToRel
<1>2. \A x, y \in Nat : y < x => <<y, x>> \in R
  OBVIOUS
<1>. HIDE DEF R
<1>3. PICK x \in T : \A y \in T : ~(<<y, x>> \in R)
  BY <1>1, WFMin
<1>4. ASSUME NEW k \in T PROVE x <= k
  <2>1. <<k, x>> \notin R /\ k \in Nat /\ x \in Nat
    BY <1>3
  <2>2. ~(k < x)
    BY <2>1, <1>2
  <2>. QED BY <2>1, <2>2
<1>. QED BY <1>4

LEMMA NatInd ==
    ASSUME NEW T, 0 \in T, \A n \in Nat : n \in T => n + 1 \in T
    PROVE  \A n \in Nat : n \in T
<1>. DEFINE Missing == {n \in Nat : n \notin T}
<1>1. SUFFICES ASSUME Missing # {} PROVE FALSE
  OBVIOUS
<1>2. PICK m \in Missing : \A k \in Missing : m <= k
  BY <1>1, NatMin
<1>3. m # 0 /\ m - 1 \in Nat /\ m - 1 \notin Missing
  BY <1>2
<1>. QED BY <1>2, <1>3

(***************************************************************************)
(* Layers: what a step function makes of a set, again and again            *)
(***************************************************************************)
Iterates(S, F, z, n, g) ==
    /\ g \in [0..n -> S]
    /\ g[0] = z
    /\ \A k \in 1..n : g[k] = F[g[k - 1]]

LEMMA IterateTo ==
    ASSUME NEW S, NEW F \in [S -> S], NEW z \in S
    PROVE  \A n \in Nat : \E g : Iterates(S, F, z, n, g)
<1>. DEFINE T == {n \in Nat : \E g : Iterates(S, F, z, n, g)}
<1>1. 0 \in T
  <2>. DEFINE g == [k \in 0..0 |-> z]
  <2>1. g \in [0..0 -> S] /\ g[0] = z
    OBVIOUS
  <2>2. Iterates(S, F, z, 0, g)
    BY <2>1 DEF Iterates
  <2>. QED BY <2>2
<1>2. ASSUME NEW n \in Nat, n \in T PROVE n + 1 \in T
  <2>1. PICK h : Iterates(S, F, z, n, h)
    BY <1>2
  <2>. DEFINE g == [k \in 0..(n + 1) |-> IF k <= n THEN h[k] ELSE F[h[n]]]
  <2>2. h \in [0..n -> S] /\ h[n] \in S /\ h[0] = z
    BY <2>1 DEF Iterates
  <2>3. g \in [0..(n + 1) -> S] /\ g[0] = z
    BY <2>2
  <2>4. ASSUME NEW k \in 1..(n + 1) PROVE g[k] = F[g[k - 1]]
    <3>1. CASE k = n + 1
      BY <3>1
    <3>2. CASE k \in 1..n
      <4>1. g[k] = h[k] /\ g[k - 1] = h[k - 1]
        BY <3>2
      <4>. QED BY <4>1, <3>2, <2>1 DEF Iterates
    <3>. QED BY <3>1, <3>2
  <2>. HIDE DEF g
  <2>5. Iterates(S, F, z, n + 1, g)
    BY <2>3, <2>4 DEF Iterates
  <2>. QED BY <2>5
<1>. HIDE DEF T
<1>3. \A n \in Nat : n \in T
  BY <1>1, <1>2, NatInd
<1>. QED BY <1>3 DEF T

LEMMA IterateUnique ==
    ASSUME NEW S, NEW F, NEW z, NEW m \in Nat, NEW n \in Nat, m <= n, NEW g, NEW h,
           Iterates(S, F, z, m, g), Iterates(S, F, z, n, h)
    PROVE  g[m] = h[m]
<1>. DEFINE T == {k \in Nat : k <= m => g[k] = h[k]}
<1>1. 0 \in T
  BY DEF Iterates
<1>2. ASSUME NEW k \in Nat, k \in T PROVE k + 1 \in T
  <2>. SUFFICES ASSUME k + 1 <= m PROVE g[k + 1] = h[k + 1]
    OBVIOUS
  <2>1. k + 1 \in 1..m /\ k + 1 \in 1..n /\ (k + 1) - 1 = k /\ g[k] = h[k]
    BY <1>2
  <2>. QED BY <2>1 DEF Iterates
<1>. HIDE DEF T
<1>3. \A k \in Nat : k \in T
  BY <1>1, <1>2, NatInd
<1>. QED BY <1>3 DEF T

\* The recursive function that iterates F exists.
LEMMA IterateExists ==
    ASSUME NEW S, NEW F \in [S -> S], NEW z \in S
    PROVE  \E f \in [Nat -> S] : f[0] = z /\ \A n \in Nat \ {0} : f[n] = F[f[n - 1]]
<1>. DEFINE G(n) == CHOOSE g : Iterates(S, F, z, n, g)
            f == [n \in Nat |-> G(n)[n]]
<1>1. \A n \in Nat : Iterates(S, F, z, n, G(n))
  BY IterateTo
<1>. HIDE DEF G
<1>2. f \in [Nat -> S]
  BY <1>1 DEF Iterates
<1>3. f[0] = z
  BY <1>1 DEF Iterates
<1>4. ASSUME NEW n \in Nat \ {0} PROVE f[n] = F[f[n - 1]]
  <2>1. n - 1 \in Nat /\ n - 1 <= n /\ n \in 1..n
    OBVIOUS
  <2>2. G(n)[n] = F[G(n)[n - 1]]
    BY <1>1, <2>1 DEF Iterates
  <2>3. G(n - 1)[n - 1] = G(n)[n - 1]
    BY <1>1, <2>1, IterateUnique
  <2>. QED BY <2>1, <2>2, <2>3
<1>. QED BY <1>2, <1>3, <1>4

(***************************************************************************)
(* The batches of TaskDag                                                  *)
(***************************************************************************)
\* Placed of TaskDag, by its equations
IsPlaced(ids, deps, f) ==
    /\ f \in [Nat -> SUBSET ids]
    /\ f[0] = {}
    /\ \A n \in Nat \ {0} : f[n] = {i \in ids : deps[i] \subseteq f[n - 1]}

LEMMA PlacedExists ==
    ASSUME NEW ids, NEW deps
    PROVE  LET D(f) == [n \in Nat |-> IF n = 0 THEN {} ELSE {i \in ids : deps[i] \subseteq f[n - 1]}]
           IN  (\E f : f = D(f)) /\ \A f : f = D(f) => IsPlaced(ids, deps, f)
<1>. DEFINE D(f) == [n \in Nat |-> IF n = 0 THEN {} ELSE {i \in ids : deps[i] \subseteq f[n - 1]}]
            F == [X \in SUBSET ids |-> {i \in ids : deps[i] \subseteq X}]
            S == SUBSET ids
<1>1. F \in [S -> S] /\ {} \in S
  OBVIOUS
<1>2. PICK f \in [Nat -> S] : f[0] = {} /\ \A n \in Nat \ {0} : f[n] = F[f[n - 1]]
  <2>. HIDE DEF F, S
  <2>. QED BY <1>1, IterateExists
<1>3. f = D(f)
  <2>1. \A n \in Nat : f[n] = IF n = 0 THEN {} ELSE {i \in ids : deps[i] \subseteq f[n - 1]}
    <3>. SUFFICES ASSUME NEW n \in Nat \ {0} PROVE f[n] = {i \in ids : deps[i] \subseteq f[n - 1]}
      BY <1>2
    <3>1. f[n - 1] \in SUBSET ids
      <4>1. n - 1 \in Nat /\ f \in [Nat -> SUBSET ids]
        BY <1>2
      <4>. HIDE DEF F
      <4>. QED BY <4>1
    <3>2. f[n] = F[f[n - 1]]
      <4>. HIDE DEF F, S
      <4>. QED BY <1>2
    <3>3. F[f[n - 1]] = {i \in ids : deps[i] \subseteq f[n - 1]}
      BY <3>1
    <3>. QED BY <3>2, <3>3
  <2>. QED BY <2>1
<1>4. ASSUME NEW g, g = D(g) PROVE IsPlaced(ids, deps, g)
  <2>1. \A n \in Nat : g[n] = D(g)[n]
    BY <1>4
  <2>2. g[0] = {} /\ \A n \in Nat \ {0} : g[n] = {i \in ids : deps[i] \subseteq g[n - 1]}
    BY <2>1
  <2>3. g = [n \in Nat |-> g[n]]
    BY <1>4
  <2>4. \A n \in Nat : g[n] \in SUBSET ids
    BY <2>2
  <2>5. g \in [Nat -> SUBSET ids]
    BY <2>3, <2>4
  <2>. QED BY <2>2, <2>5 DEF IsPlaced
<1>. QED BY <1>3, <1>4

\* What is placed stays placed.
LEMMA PlacedGrows ==
    ASSUME NEW ids, NEW deps, NEW f, IsPlaced(ids, deps, f)
    PROVE  \A n \in Nat : \A m \in 0..n : f[m] \subseteq f[n]
<1>. DEFINE T == {n \in Nat : f[n] \subseteq f[n + 1]}
<1>1. 0 \in T
  BY DEF IsPlaced
<1>2. ASSUME NEW n \in Nat, n \in T PROVE n + 1 \in T
  <2>1. f[n + 1] = {i \in ids : deps[i] \subseteq f[n]} /\ f[n + 2] = {i \in ids : deps[i] \subseteq f[n + 1]}
    <3>1. n + 1 \in Nat \ {0} /\ (n + 1) - 1 = n /\ n + 2 \in Nat \ {0} /\ (n + 2) - 1 = n + 1
      OBVIOUS
    <3>. QED BY <3>1 DEF IsPlaced
  <2>2. f[n] \subseteq f[n + 1] /\ (n + 1) + 1 = n + 2
    BY <1>2
  <2>. QED BY <2>1, <2>2
<1>. HIDE DEF T
<1>3. \A n \in Nat : n \in T
  BY <1>1, <1>2, NatInd
<1>. DEFINE U == {n \in Nat : \A m \in 0..n : f[m] \subseteq f[n]}
<1>4. 0 \in U
  OBVIOUS
<1>5. ASSUME NEW n \in Nat, n \in U PROVE n + 1 \in U
  <2>1. f[n] \subseteq f[n + 1]
    BY <1>3 DEF T
  <2>2. \A m \in 0..(n + 1) : m \in 0..n \/ m = n + 1
    OBVIOUS
  <2>. QED BY <1>5, <2>1, <2>2
<1>. HIDE DEF U
<1>6. \A n \in Nat : n \in U
  BY <1>4, <1>5, NatInd
<1>. QED BY <1>6 DEF U
==============================================================================
