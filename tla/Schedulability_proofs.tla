----------------------- MODULE Schedulability_proofs -----------------------
(***************************************************************************)
(* Proofs about Simulation, continued: what the tests of schedulability.c  *)
(* say of the three simulations, for every set of tasks.                   *)
(***************************************************************************)
EXTENDS Simulation_proofs

-----------------------------------------------------------------------------
(* Sums over sets of tasks                                                 *)

\* Induction over the subsets of a finite set.
LEMMA SetInduct ==
  ASSUME NEW D, IsFiniteSet(D), NEW S, {} \in S,
         \A t \in SUBSET D : t # {} /\ (\A x \in t : t \ {x} \in S) => t \in S
  PROVE  SUBSET D \subseteq S
<1> DEFINE N == {n \in Nat : \A s \in SUBSET D : Cardinality(s) <= n => s \in S}
<1>1. \A s \in SUBSET D : IsFiniteSet(s) /\ Cardinality(s) \in Nat
  BY FS_Subset, FS_CardinalityType
<1>2. 0 \in N
  <2>1. ASSUME NEW s \in SUBSET D, Cardinality(s) <= 0 PROVE s \in S
    <3>1. Cardinality(s) = 0
      BY <1>1, <2>1
    <3>2. s = {}
      BY <1>1, <3>1, FS_EmptySet
    <3> QED
      BY <3>2
  <2> QED
    BY <2>1
<1>3. ASSUME NEW n \in N PROVE n + 1 \in N
  <2>1. ASSUME NEW s \in SUBSET D, Cardinality(s) <= n + 1 PROVE s \in S
    <3>1. ASSUME NEW x \in s PROVE s \ {x} \in S
      <4>1. Cardinality(s \ {x}) = Cardinality(s) - 1
        BY <1>1, FS_RemoveElement
      <4>2. Cardinality(s \ {x}) <= n
        BY <1>1, <2>1, <4>1
      <4> QED
        BY <4>2
    <3> QED
      BY <3>1
  <2> QED
    BY <2>1
<1> HIDE DEF N
<1>4. ASSUME NEW s \in SUBSET D PROVE s \in S
  <2>1. Cardinality(s) \in N
    BY <1>1, <1>2, <1>3, Induct
  <2> QED
    BY <1>1, <2>1 DEF N
<1> QED
  BY <1>4

\* The recursive equation of MapThenSumSet.
SumStep(f, g) ==
  [s \in SUBSET DOMAIN f |->
     IF s = {} THEN 0 ELSE f[Pick(s)] + g[s \ {Pick(s)}]]
Sums(f) == CHOOSE g : g = SumStep(f, g)
Total(f, s) == Sums(f)[s]

LEMMA SumExists ==
  ASSUME NEW D, IsFiniteSet(D), NEW f \in [D -> Int]
  PROVE  \E g : g = SumStep(f, g)
<1> DEFINE Solves(g, n) ==
             \A s \in SUBSET D : Cardinality(s) <= n => g[s] = SumStep(f, g)[s]
           S == {n \in Nat : \E g \in [SUBSET D -> Int] : Solves(g, n)}
<1>1. ASSUME NEW g \in [SUBSET D -> Int]
      PROVE  SumStep(f, g) \in [SUBSET D -> Int]
  <2>1. ASSUME NEW s \in SUBSET D, s # {} PROVE f[Pick(s)] + g[s \ {Pick(s)}] \in Int
    <3>1. Pick(s) \in s
      BY <2>1 DEF Pick
    <3>2. f[Pick(s)] \in Int /\ g[s \ {Pick(s)}] \in Int
      BY <3>1
    <3> QED
      BY <3>2
  <2>2. DOMAIN f = D
    OBVIOUS
  <2> QED
    BY <2>1, <2>2 DEF SumStep
<1>2. \A s \in SUBSET D : IsFiniteSet(s) /\ Cardinality(s) \in Nat
  BY FS_Subset, FS_CardinalityType
<1>3. 0 \in S
  <2> DEFINE g == [s \in SUBSET D |-> 0]
  <2>1. g \in [SUBSET D -> Int]
    OBVIOUS
  <2>2. ASSUME NEW s \in SUBSET D, Cardinality(s) <= 0 PROVE g[s] = SumStep(f, g)[s]
    <3>1. Cardinality(s) = 0
      BY <1>2, <2>2
    <3>2. s = {}
      BY <1>2, <3>1, FS_EmptySet
    <3> QED
      BY <3>2 DEF SumStep
  <2> HIDE DEF g
  <2>3. Solves(g, 0)
    BY <2>2
  <2> QED
    BY <2>1, <2>3
<1>4. ASSUME NEW n \in S PROVE n + 1 \in S
  <2>1. PICK g \in [SUBSET D -> Int] : Solves(g, n)
    OBVIOUS
  <2> DEFINE h == SumStep(f, g)
  <2>2. h \in [SUBSET D -> Int]
    BY <1>1
  <2>3. ASSUME NEW s \in SUBSET D, Cardinality(s) <= n + 1
        PROVE  h[s] = SumStep(f, h)[s]
    <3>1. CASE s = {}
      BY <3>1 DEF SumStep
    <3>2. CASE s # {}
      <4> DEFINE t == s \ {Pick(s)}
      <4>1. t \in SUBSET D /\ Cardinality(t) <= n
        BY <1>2, <2>3, <3>2, PickSmaller
      <4>2. g[t] = h[t]
        BY <2>1, <4>1
      <4> HIDE DEF h
      <4>3. SumStep(f, g)[s] = f[Pick(s)] + g[t]
        BY <3>2 DEF SumStep
      <4>4. SumStep(f, h)[s] = f[Pick(s)] + h[t]
        BY <3>2 DEF SumStep
      <4> QED
        BY <4>2, <4>3, <4>4 DEF h
    <3> QED
      BY <3>1, <3>2
  <2> HIDE DEF h
  <2>4. Solves(h, n + 1)
    BY <2>3
  <2> QED
    BY <2>2, <2>4
<1> HIDE DEF S
<1>5. Cardinality(D) \in S
  BY <1>2, <1>3, <1>4, Induct
<1>6. PICK g \in [SUBSET D -> Int] : Solves(g, Cardinality(D))
  BY <1>5 DEF S
<1>7. ASSUME NEW s \in SUBSET D PROVE g[s] = SumStep(f, g)[s]
  <2>1. Cardinality(s) <= Cardinality(D)
    BY FS_Subset
  <2> QED
    BY <1>6, <2>1
<1> DEFINE h == SumStep(f, g)
<1>8. h \in [SUBSET D -> Int] /\ \A s \in SUBSET D : g[s] = h[s]
  BY <1>1, <1>7
<1> HIDE DEF h
<1>9. g = h
  BY <1>8
<1> QED
  BY <1>9 DEF h

\* A sum does not depend on the order in which its terms are taken.
LEMMA SumFacts ==
  ASSUME NEW D, IsFiniteSet(D), NEW f \in [D -> Int]
  PROVE  /\ Total(f, {}) = 0
         /\ \A s \in SUBSET D :
              /\ Total(f, s) \in Int
              /\ \A x \in s : Total(f, s) = f[x] + Total(f, s \ {x})
<1> DEFINE g == Sums(f)
<1>1. g = SumStep(f, g)
  BY SumExists DEF Sums
<1> HIDE DEF g
<1>2. ASSUME NEW s \in SUBSET D
      PROVE  g[s] = IF s = {} THEN 0 ELSE f[Pick(s)] + g[s \ {Pick(s)}]
  <2>1. SumStep(f, g)[s] = IF s = {} THEN 0 ELSE f[Pick(s)] + g[s \ {Pick(s)}]
    BY DEF SumStep
  <2> QED
    BY <1>1, <2>1
<1>3. g[{}] = 0
  BY <1>2
<1>4. \A s \in SUBSET D : g[s] \in Int
  <2> DEFINE S == {s \in SUBSET D : g[s] \in Int}
  <2>1. {} \in S
    BY <1>3
  <2>2. ASSUME NEW s \in SUBSET D, s # {}, \A x \in s : s \ {x} \in S PROVE s \in S
    <3>1. Pick(s) \in s
      BY <2>2 DEF Pick
    <3>2. f[Pick(s)] \in Int /\ g[s \ {Pick(s)}] \in Int
      BY <2>2, <3>1
    <3>3. g[s] = f[Pick(s)] + g[s \ {Pick(s)}]
      BY <1>2, <2>2
    <3> HIDE DEF S
    <3>4. g[s] \in Int
      BY <3>2, <3>3
    <3> QED
      BY <3>4 DEF S
  <2> HIDE DEF S
  <2>3. SUBSET D \subseteq S
    BY <2>1, <2>2, SetInduct
  <2> QED
    BY <2>3 DEF S
<1> DEFINE Right(s) == \A x \in s : g[s] = f[x] + g[s \ {x}]
           S == {s \in SUBSET D : Right(s)}
<1>5. {} \in S
  OBVIOUS
<1>6. ASSUME NEW s \in SUBSET D, s # {}, \A x \in s : s \ {x} \in S
      PROVE  s \in S
  <2> DEFINE y == Pick(s)
  <2>1. y \in s
    BY <1>6 DEF Pick
  <2>2. g[s] = f[y] + g[s \ {y}]
    BY <1>2, <1>6
  <2> HIDE DEF y
  <2>3. ASSUME NEW x \in s, x # y PROVE g[s] = f[x] + g[s \ {x}]
    <3> DEFINE t == (s \ {x}) \ {y}
    <3>1. t = (s \ {y}) \ {x} /\ x \in s \ {y} /\ y \in s \ {x} /\ t \in SUBSET D
      BY <2>1, <2>3
    <3>2. Right(s \ {x}) /\ Right(s \ {y})
      BY <1>6, <2>1, <2>3
    <3>3. g[s \ {x}] = f[y] + g[t]
      BY <3>1, <3>2
    <3>4. g[s \ {y}] = f[x] + g[t]
      BY <3>1, <3>2
    <3>5. f[x] \in Int /\ f[y] \in Int /\ g[t] \in Int
      BY <1>4, <2>1, <2>3, <3>1
    <3> HIDE DEF t
    <3> QED
      BY <2>2, <3>3, <3>4, <3>5
  <2>4. \A x \in s : g[s] = f[x] + g[s \ {x}]
    BY <2>2, <2>3
  <2> QED
    BY <2>4
<1> HIDE DEF S
<1>7. SUBSET D \subseteq S
  BY <1>5, <1>6, SetInduct
<1> QED
  BY <1>3, <1>4, <1>7 DEF Total, g, S

LEMMA TotalTake ==
  ASSUME NEW D, IsFiniteSet(D), NEW f \in [D -> Int], NEW s \in SUBSET D, NEW x \in s
  PROVE  Total(f, s) = f[x] + Total(f, s \ {x})
BY SumFacts

LEMMA TotalLess ==
  ASSUME NEW D, IsFiniteSet(D), NEW f \in [D -> Int], NEW g \in [D -> Int]
  PROVE  \A s \in SUBSET D : (\A i \in s : f[i] <= g[i]) => Total(f, s) <= Total(g, s)
<1> DEFINE Right(s) == (\A i \in s : f[i] <= g[i]) => Total(f, s) <= Total(g, s)
           S == {s \in SUBSET D : Right(s)}
<1>1. {} \in S
  <2>1. Total(f, {}) = 0 /\ Total(g, {}) = 0
    BY SumFacts
  <2> QED
    BY <2>1
<1>2. ASSUME NEW s \in SUBSET D, s # {}, \A x \in s : s \ {x} \in S PROVE s \in S
  <2> SUFFICES ASSUME \A i \in s : f[i] <= g[i] PROVE Total(f, s) <= Total(g, s)
    OBVIOUS
  <2>1. PICK x \in s : TRUE
    BY <1>2
  <2>2. Total(f, s) = f[x] + Total(f, s \ {x}) /\ Total(g, s) = g[x] + Total(g, s \ {x})
    BY SumFacts
  <2>3. Total(f, s \ {x}) \in Int /\ Total(g, s \ {x}) \in Int
    <3>1. s \ {x} \in SUBSET D
      OBVIOUS
    <3> QED
      BY <3>1, SumFacts
  <2>4. Total(f, s \ {x}) <= Total(g, s \ {x})
    BY <1>2
  <2>5. f[x] \in Int /\ g[x] \in Int /\ f[x] <= g[x]
    OBVIOUS
  <2> QED
    BY <2>2, <2>3, <2>4, <2>5
<1> HIDE DEF S
<1>3. SUBSET D \subseteq S
  BY <1>1, <1>2, SetInduct
<1> QED
  BY <1>3 DEF S

LEMMA TotalPlus ==
  ASSUME NEW D, IsFiniteSet(D), NEW f \in [D -> Int], NEW g \in [D -> Int],
         NEW h \in [D -> Int], \A i \in D : h[i] = f[i] + g[i]
  PROVE  \A s \in SUBSET D : Total(h, s) = Total(f, s) + Total(g, s)
<1> DEFINE S == {s \in SUBSET D : Total(h, s) = Total(f, s) + Total(g, s)}
<1>1. {} \in S
  <2>1. Total(f, {}) = 0 /\ Total(g, {}) = 0 /\ Total(h, {}) = 0
    BY SumFacts
  <2> QED
    BY <2>1
<1>2. ASSUME NEW s \in SUBSET D, s # {}, \A x \in s : s \ {x} \in S PROVE s \in S
  <2>1. PICK x \in s : TRUE
    BY <1>2
  <2>2. /\ Total(f, s) = f[x] + Total(f, s \ {x})
        /\ Total(g, s) = g[x] + Total(g, s \ {x})
        /\ Total(h, s) = h[x] + Total(h, s \ {x})
    BY SumFacts
  <2>3. Total(f, s \ {x}) \in Int /\ Total(g, s \ {x}) \in Int
    <3>1. s \ {x} \in SUBSET D
      OBVIOUS
    <3> QED
      BY <3>1, SumFacts
  <2>4. Total(h, s \ {x}) = Total(f, s \ {x}) + Total(g, s \ {x})
    BY <1>2
  <2>5. f[x] \in Int /\ g[x] \in Int /\ h[x] = f[x] + g[x]
    OBVIOUS
  <2>6. Total(h, s) = Total(f, s) + Total(g, s)
    BY <2>2, <2>3, <2>4, <2>5
  <2> QED
    BY <2>6
<1> HIDE DEF S
<1>3. SUBSET D \subseteq S
  BY <1>1, <1>2, SetInduct
<1> QED
  BY <1>3 DEF S

LEMMA TotalTimes ==
  ASSUME NEW D, IsFiniteSet(D), NEW f \in [D -> Int], NEW g \in [D -> Int],
         NEW k \in Int, \A i \in D : g[i] = k * f[i]
  PROVE  \A s \in SUBSET D : Total(g, s) = k * Total(f, s)
<1> DEFINE S == {s \in SUBSET D : Total(g, s) = k * Total(f, s)}
<1>1. {} \in S
  <2>1. Total(f, {}) = 0 /\ Total(g, {}) = 0
    BY SumFacts
  <2> QED
    BY <2>1
<1>2. ASSUME NEW s \in SUBSET D, s # {}, \A x \in s : s \ {x} \in S PROVE s \in S
  <2>1. PICK x \in s : TRUE
    BY <1>2
  <2>2. Total(f, s) = f[x] + Total(f, s \ {x}) /\ Total(g, s) = g[x] + Total(g, s \ {x})
    BY SumFacts
  <2>3. Total(f, s \ {x}) \in Int
    <3>1. s \ {x} \in SUBSET D
      OBVIOUS
    <3> QED
      BY <3>1, SumFacts
  <2>4. Total(g, s \ {x}) = k * Total(f, s \ {x})
    BY <1>2
  <2>5. f[x] \in Int /\ g[x] = k * f[x]
    OBVIOUS
  <2>6. Total(g, s) = k * Total(f, s)
    BY <2>2, <2>3, <2>4, <2>5
  <2> QED
    BY <2>6
<1> HIDE DEF S
<1>3. SUBSET D \subseteq S
  BY <1>1, <1>2, SetInduct
<1> QED
  BY <1>3 DEF S

\* A sum in which one term is one smaller.
LEMMA TotalSpend ==
  ASSUME NEW D, IsFiniteSet(D), NEW f \in [D -> Int], NEW g \in [D -> Int], NEW x \in D,
         \A i \in D : g[i] = IF i = x THEN f[i] - 1 ELSE f[i]
  PROVE  Total(g, D) = Total(f, D) - 1
<1>1. /\ Total(f, D) = f[x] + Total(f, D \ {x})
      /\ Total(g, D) = g[x] + Total(g, D \ {x})
      /\ Total(f, D \ {x}) \in Int
  BY SumFacts
<1> DEFINE E == D \ {x}
<1>2. E \in SUBSET D /\ \A i \in E : f[i] <= g[i] /\ g[i] <= f[i]
  OBVIOUS
<1>3. Total(f, E) <= Total(g, E) /\ Total(g, E) <= Total(f, E)
  BY <1>2, TotalLess
<1>4. Total(f, E) \in Int /\ Total(g, E) \in Int
  BY <1>2, SumFacts
<1> HIDE DEF E
<1>5. Total(f, E) = Total(g, E)
  BY <1>3, <1>4
<1> QED
  BY <1>1, <1>4, <1>5 DEF E

\* Two sums, one of which has a term that is larger by k.
LEMMA TotalMore ==
  ASSUME NEW D, IsFiniteSet(D), NEW f \in [D -> Int], NEW g \in [D -> Int], NEW x \in D,
         NEW k \in Int, \A i \in D : f[i] <= g[i], f[x] + k <= g[x]
  PROVE  Total(f, D) + k <= Total(g, D)
<1>1. /\ Total(f, D) = f[x] + Total(f, D \ {x})
      /\ Total(g, D) = g[x] + Total(g, D \ {x})
  BY SumFacts
<1> DEFINE E == D \ {x}
<1>2. E \in SUBSET D /\ \A i \in E : f[i] <= g[i]
  OBVIOUS
<1>3. Total(f, E) <= Total(g, E)
  BY <1>2, TotalLess
<1>4. Total(f, E) \in Int /\ Total(g, E) \in Int
  BY <1>2, SumFacts
<1>5. f[x] \in Int /\ g[x] \in Int
  OBVIOUS
<1> HIDE DEF E
<1> QED
  BY <1>1, <1>3, <1>4, <1>5 DEF E

LEMMA TotalZero ==
  ASSUME NEW D, IsFiniteSet(D), NEW f \in [D -> Int], \A i \in D : f[i] = 0
  PROVE  Total(f, D) = 0
<1>1. \A i \in D : f[i] = 0 * f[i]
  OBVIOUS
<1>2. Total(f, D) = 0 * Total(f, D)
  BY <1>1, TotalTimes
<1>3. Total(f, D) \in Int
  BY SumFacts
<1> QED
  BY <1>2, <1>3

LEMMA TotalNat ==
  ASSUME NEW D, IsFiniteSet(D), NEW f \in [D -> Nat]
  PROVE  \A s \in SUBSET D : Total(f, s) \in Nat
<1> DEFINE R == {s \in SUBSET D : Total(f, s) \in Nat}
<1>1. f \in [D -> Int]
  OBVIOUS
<1>2. {} \in R
  BY <1>1, SumFacts
<1>3. ASSUME NEW s \in SUBSET D, s # {}, \A x \in s : s \ {x} \in R PROVE s \in R
  <2>1. PICK x \in s : TRUE
    BY <1>3
  <2>2. Total(f, s) = f[x] + Total(f, s \ {x})
    BY <1>1, SumFacts
  <2>3. Total(f, s \ {x}) \in Nat /\ f[x] \in Nat
    BY <1>3
  <2>4. Total(f, s) \in Nat
    BY <2>2, <2>3
  <2> QED
    BY <2>4
<1> HIDE DEF R
<1>4. SUBSET D \subseteq R
  BY <1>2, <1>3, SetInduct
<1> QED
  BY <1>4 DEF R

LEMMA TotalRaised ==
  ASSUME NEW D, IsFiniteSet(D), NEW f \in [D -> Int], NEW g \in [D -> Int],
         NEW h \in Int, \A i \in D : g[i] = h + f[i]
  PROVE  Total(g, D) = Total(f, D) + Cardinality(D) * h
<1> DEFINE R == {s \in SUBSET D : Total(g, s) = Total(f, s) + Cardinality(s) * h}
<1>1. {} \in R
  <2>1. Total(g, {}) = 0 /\ Total(f, {}) = 0 /\ Cardinality({}) = 0
    BY SumFacts, FS_EmptySet
  <2>2. Total(g, {}) = Total(f, {}) + Cardinality({}) * h
    BY <2>1
  <2> QED
    BY <2>2
<1>2. ASSUME NEW s \in SUBSET D, s # {}, \A x \in s : s \ {x} \in R PROVE s \in R
  <2>1. PICK x \in s : TRUE
    BY <1>2
  <2> DEFINE t == s \ {x}
  <2>2. Total(g, s) = g[x] + Total(g, t) /\ Total(f, s) = f[x] + Total(f, t)
    BY SumFacts
  <2>3. Total(g, t) = Total(f, t) + Cardinality(t) * h
    BY <1>2
  <2>4. Cardinality(t) = Cardinality(s) - 1 /\ Cardinality(s) \in Nat
    <3>1. IsFiniteSet(s)
      BY FS_Subset
    <3> QED
      BY <3>1, FS_RemoveElement, FS_CardinalityType
  <2>5. Total(f, t) \in Int /\ g[x] = h + f[x] /\ f[x] \in Int
    <3>1. t \in SUBSET D
      OBVIOUS
    <3> QED
      BY <3>1, SumFacts
  <2> HIDE DEF t
  <2>6. Total(g, s) = Total(f, s) + Cardinality(s) * h
    BY <2>2, <2>3, <2>4, <2>5
  <2> QED
    BY <2>6
<1> HIDE DEF R
<1>3. SUBSET D \subseteq R
  BY <1>1, <1>2, SetInduct
<1> QED
  BY <1>3 DEF R

LEMMA TotalOnly ==
  ASSUME NEW D, IsFiniteSet(D), NEW f \in [D -> Int], NEW g \in [D -> Int], NEW s \in SUBSET D,
         \A i \in D : g[i] = IF i \in s THEN f[i] ELSE 0
  PROVE  Total(g, D) = Total(f, s)
<1> DEFINE R == {u \in SUBSET D : Total(g, u) = Total(f, u \cap s)}
<1>1. {} \in R
  <2>1. Total(g, {}) = 0 /\ Total(f, {}) = 0 /\ {} \cap s = {}
    BY SumFacts
  <2>2. Total(g, {}) = Total(f, {} \cap s)
    BY <2>1
  <2> QED
    BY <2>2
<1>2. ASSUME NEW u \in SUBSET D, u # {}, \A x \in u : u \ {x} \in R PROVE u \in R
  <2>1. PICK x \in u : TRUE
    BY <1>2
  <2> DEFINE v == u \ {x}
  <2>2. Total(g, v) = Total(f, v \cap s)
    BY <1>2
  <2>3. Total(g, u) = g[x] + Total(g, v)
    BY TotalTake
  <2>4. Total(g, v) \in Int /\ x \in D /\ f[x] \in Int
    <3>1. v \in SUBSET D
      OBVIOUS
    <3> QED
      BY <3>1, SumFacts
  <2>5. CASE x \in s
    <3> DEFINE w == u \cap s
    <3>1. x \in w /\ w \in SUBSET D /\ w \ {x} = v \cap s
      BY <2>5
    <3>2. Total(f, w) = f[x] + Total(f, w \ {x})
      BY <3>1, TotalTake
    <3>3. Total(g, u) = Total(f, w)
      BY <2>2, <2>3, <2>4, <2>5, <3>1, <3>2
    <3> QED
      BY <3>3
  <2>6. CASE x \notin s
    <3>1. v \cap s = u \cap s /\ g[x] = 0
      BY <2>4, <2>6
    <3>2. Total(g, u) = Total(g, v)
      BY <2>3, <2>4, <3>1
    <3>3. Total(g, u) = Total(f, u \cap s)
      BY <2>2, <3>1, <3>2, Zenon
    <3> QED
      BY <3>3
  <2> QED
    BY <2>5, <2>6
<1> HIDE DEF R
<1>3. SUBSET D \subseteq R
  BY <1>1, <1>2, SetInduct
<1>4. Total(g, D) = Total(f, D \cap s)
  BY <1>3 DEF R
<1>5. D \cap s = s
  OBVIOUS
<1> QED
  BY <1>4, <1>5

-----------------------------------------------------------------------------
(* The demand of the tasks                                                 *)

\* h \div p, when p divides h.
LEMMA Quotient ==
  ASSUME NEW p \in Nat \ {0}, NEW h \in Nat, h % p = 0
  PROVE  h \div p \in Nat /\ h = p * (h \div p)
<1>1. PICK q \in Nat : h = p * q
  BY Multiple
<1>2. h \div p = q
  BY <1>1
<1> QED
  BY <1>1, <1>2

LEMMA Floor ==
  ASSUME NEW p \in Nat \ {0}, NEW s \in Nat
  PROVE  s \div p \in Nat /\ p * (s \div p) <= s /\ s < p * (s \div p) + p
<1>1. PICK q \in Nat, r \in 0 .. p - 1 : s = p * q + r
  BY Division
<1>2. s \div p = q
  BY <1>1
<1> QED
  BY <1>1, <1>2

LEMMA FloorNext ==
  ASSUME NEW p \in Nat \ {0}, NEW s \in Nat
  PROVE  (s + p) \div p = (s \div p) + 1
<1>1. PICK q \in Nat, r \in 0 .. p - 1 : s = p * q + r
  BY Division
<1>2. s \div p = q
  BY <1>1
<1>3. s + p = p * (q + 1) + r
  BY <1>1
<1>4. (s + p) \div p = q + 1
  BY <1>3
<1> QED
  BY <1>2, <1>4

LEMMA FloorZero ==
  ASSUME NEW p \in Nat \ {0}, NEW s \in 0 .. p - 1
  PROVE  s \div p = 0
OBVIOUS

Needs == [i \in Tasks |-> Execution(i) * (hyper \div Period(i))]

LEMMA DemandIsTotal == Demand = Total(Needs, Tasks)
<1> DEFINE Step(g) ==
             [s \in SUBSET Tasks |->
                IF s = {} THEN 0
                ELSE Execution(Pick(s)) * (hyper \div Period(Pick(s))) + g[s \ {Pick(s)}]]
<1>1. Demand = (CHOOSE g : g = Step(g))[Tasks]
  BY DEF Demand, MapThenSumSet, MapThenFoldSet, Pick
<1>2. ASSUME NEW g PROVE Step(g) = SumStep(Needs, g)
  <2>1. ASSUME NEW s \in SUBSET Tasks, s # {}
        PROVE  Needs[Pick(s)] = Execution(Pick(s)) * (hyper \div Period(Pick(s)))
    <3>1. Pick(s) \in Tasks
      BY <2>1 DEF Pick
    <3> QED
      BY <3>1 DEF Needs
  <2>2. DOMAIN Needs = Tasks
    BY DEF Needs
  <2> QED
    BY <2>1, <2>2 DEF SumStep
<1> HIDE DEF Step
<1>3. (CHOOSE g : g = Step(g)) = (CHOOSE g : g = SumStep(Needs, g))
  BY <1>2
<1> QED
  BY <1>1, <1>3 DEF Total, Sums

LEMMA NeedsTypes ==
  ASSUME SimIInv
  PROVE  /\ IsFiniteSet(Tasks) /\ Needs \in [Tasks -> Nat]
         /\ \A i \in Tasks : /\ hyper \div Period(i) \in Nat
                             /\ hyper = Period(i) * (hyper \div Period(i))
<1>1. IsFiniteSet(Tasks)
  BY ConfigFacts DEF SimIInv, TypeOK
<1>2. ASSUME NEW i \in Tasks
      PROVE  /\ hyper \div Period(i) \in Nat
             /\ hyper = Period(i) * (hyper \div Period(i))
             /\ Execution(i) * (hyper \div Period(i)) \in Nat
  <2>1. /\ Execution(i) \in Nat /\ Period(i) \in Nat \ {0} /\ hyper \in Nat
        /\ hyper % Period(i) = 0
    BY ReadyFacts
  <2>2. hyper \div Period(i) \in Nat /\ hyper = Period(i) * (hyper \div Period(i))
    BY <2>1, Quotient
  <2> QED
    BY <2>1, <2>2
<1> QED
  BY <1>1, <1>2 DEF Needs

\* The work of the jobs of each task that are released and due in any d slots.
\* The tasks need no more slots than there are.
Feasible == Demand <= hyper

WorkWithin(d) == [i \in Tasks |-> Execution(i) * (d \div Period(i))]

\* A feasible set of tasks needs no more than d.
LEMMA WorkFits ==
  ASSUME SimIInv, Feasible, NEW d \in Nat
  PROVE  WorkWithin(d) \in [Tasks -> Nat] /\ Total(WorkWithin(d), Tasks) <= d
<1>1. \A i \in Tasks : Execution(i) \in Nat /\ Period(i) \in Nat \ {0}
  BY ReadyFacts
<1>2. hyper \in Nat \ {0} /\ IsFiniteSet(Tasks) /\ Needs \in [Tasks -> Nat]
  BY ReadyFacts, NeedsTypes
<1>3. ASSUME NEW i \in Tasks
      PROVE  /\ Execution(i) * (d \div Period(i)) \in Nat
             /\ hyper * (Execution(i) * (d \div Period(i))) <= d * Needs[i]
  <2> DEFINE e == Execution(i)
             p == Period(i)
             k == d \div Period(i)
             q == hyper \div Period(i)
  <2>1. /\ e \in Nat /\ p \in Nat \ {0} /\ k \in Nat /\ p * k <= d
        /\ q \in Nat /\ hyper = p * q
    BY <1>1, Floor, NeedsTypes
  <2>2. Needs[i] = e * q
    BY DEF Needs
  <2> HIDE DEF e, p, k, q
  <2>3. e * k \in Nat /\ e * q \in Nat
    BY <2>1
  <2>4. (p * k) * (e * q) <= d * (e * q)
    BY <2>1, <2>3
  <2>5. hyper * (e * k) = (p * k) * (e * q)
    BY <2>1
  <2> QED
    BY <2>2, <2>3, <2>4, <2>5 DEF e, k
<1> DEFINE W == WorkWithin(d)
           f == [i \in Tasks |-> hyper * W[i]]
           g == [i \in Tasks |-> d * Needs[i]]
<1>4. W \in [Tasks -> Nat] /\ \A i \in Tasks : W[i] = Execution(i) * (d \div Period(i))
  BY <1>3 DEF WorkWithin
<1> HIDE DEF W
<1>5. \A i \in Tasks : W[i] \in Int /\ Needs[i] \in Int
  BY <1>2, <1>4
<1>6. /\ W \in [Tasks -> Int] /\ Needs \in [Tasks -> Int]
      /\ f \in [Tasks -> Int] /\ g \in [Tasks -> Int]
      /\ \A i \in Tasks : f[i] = hyper * W[i] /\ g[i] = d * Needs[i]
  BY <1>2, <1>4, <1>5
<1>7. \A i \in Tasks : f[i] <= g[i]
  BY <1>3, <1>4, <1>6
<1> HIDE DEF f, g
<1>8. Total(f, Tasks) <= Total(g, Tasks)
  BY <1>2, <1>6, <1>7, TotalLess
<1>9. Total(f, Tasks) = hyper * Total(W, Tasks)
  <2>1. hyper \in Int /\ \A i \in Tasks : f[i] = hyper * W[i]
    BY <1>2, <1>6
  <2>2. f \in [Tasks -> Int] /\ W \in [Tasks -> Int] /\ IsFiniteSet(Tasks)
    BY <1>2, <1>6
  <2> QED
    BY <2>1, <2>2, TotalTimes
<1>10. Total(g, Tasks) = d * Total(Needs, Tasks)
  <2>1. d \in Int /\ \A i \in Tasks : g[i] = d * Needs[i]
    BY <1>2, <1>6
  <2>2. g \in [Tasks -> Int] /\ Needs \in [Tasks -> Int] /\ IsFiniteSet(Tasks)
    BY <1>2, <1>6
  <2> QED
    BY <2>1, <2>2, TotalTimes
<1>11. Total(W, Tasks) \in Int /\ Total(Needs, Tasks) \in Int
  BY <1>2, <1>6, SumFacts
<1>12. Total(Needs, Tasks) <= hyper
  BY DemandIsTotal DEF Feasible
<1>13. d * Total(Needs, Tasks) <= d * hyper
  BY <1>2, <1>11, <1>12
<1>14. hyper * Total(W, Tasks) <= hyper * d
  BY <1>2, <1>8, <1>9, <1>10, <1>11, <1>13
<1>15. Total(W, Tasks) <= d
  BY <1>2, <1>11, <1>14
<1> QED
  BY <1>4, <1>15 DEF W

-----------------------------------------------------------------------------
(* edf and llf: what is due by any slot fits before it                     *)

\* The work of task i that is due by slot d: what is left of its job and all of
\* its later jobs, seen before and after the releases of the slot.
Owed(d) ==
  [i \in Tasks |->
     IF NextDeadline(i) <= d
       THEN timeLeft[i] + Execution(i) * ((d - NextDeadline(i)) \div Period(i))
       ELSE 0]
OwedNow(d) ==
  [i \in Tasks |->
     IF DueAt(i) <= d THEN Ready[i] + Execution(i) * ((d - DueAt(i)) \div Period(i))
                      ELSE 0]

LEMMA DueFacts ==
  ASSUME SimIInv, NEW i \in Tasks
  PROVE  /\ DueAt(i) \in Nat /\ DueAt(i) > slot /\ DueAt(i) <= slot + Period(i)
         /\ DueAt(i) % Period(i) = 0
         /\ NextDeadline(i) = IF slot % Period(i) = 0 THEN slot ELSE DueAt(i)
         /\ slot % Period(i) = 0 => DueAt(i) = slot + Period(i)
         /\ NextDeadline(i) \in Nat /\ slot <= NextDeadline(i)
<1>1. slot \in Nat /\ Period(i) \in Nat \ {0}
  BY ReadyFacts
<1>2. /\ DueAt(i) \in Nat /\ DueAt(i) > slot /\ DueAt(i) <= slot + Period(i)
      /\ DueAt(i) % Period(i) = 0
  BY <1>1, NextMultiple DEF DueAt
<1>3. NextDeadline(i) = IF slot % Period(i) = 0 THEN slot ELSE DueAt(i)
  BY DEF NextDeadline, DueAt
<1>4. slot % Period(i) = 0 => DueAt(i) = slot + Period(i)
  BY <1>1 DEF DueAt
<1> QED
  BY <1>1, <1>2, <1>3, <1>4

LEMMA OwedTypes ==
  ASSUME SimIInv, NEW d \in Nat
  PROVE  Owed(d) \in [Tasks -> Nat] /\ OwedNow(d) \in [Tasks -> Nat]
<1>1. ASSUME NEW i \in Tasks, NEW due \in Nat, due <= d, NEW w \in Nat
      PROVE  w + Execution(i) * ((d - due) \div Period(i)) \in Nat
  <2>1. Execution(i) \in Nat /\ Period(i) \in Nat \ {0} /\ d - due \in Nat
    BY <1>1, ReadyFacts
  <2>2. (d - due) \div Period(i) \in Nat
    BY <2>1, Floor
  <2> QED
    BY <2>1, <2>2
<1>2. \A i \in Tasks : Ready[i] \in Nat /\ timeLeft[i] \in Nat
  BY ReadyFacts
<1>3. \A i \in Tasks : DueAt(i) \in Nat /\ NextDeadline(i) \in Nat
  BY DueFacts
<1> QED
  BY <1>1, <1>2, <1>3 DEF Owed, OwedNow

\* A release does not change what is owed.
LEMMA OwedAfterReleases ==
  ASSUME SimIInv, slot # 0, MissedNow = {}, NEW d \in Nat, slot <= d
  PROVE  Owed(d) = OwedNow(d)
<1>1. ASSUME NEW i \in Tasks PROVE Owed(d)[i] = OwedNow(d)[i]
  <2> DEFINE p == Period(i)
             e == Execution(i)
             due == DueAt(i)
             left == timeLeft[i]
  <2>1. /\ slot \in Nat /\ p \in Nat \ {0} /\ e \in Nat /\ left \in Nat
        /\ Ready[i] = IF slot % p = 0 THEN e ELSE left
    BY ReadyFacts
  <2>2. /\ due \in Nat /\ NextDeadline(i) = IF slot % p = 0 THEN slot ELSE due
        /\ slot % p = 0 => due = slot + p
    BY DueFacts
  <2>3. slot % p = 0 => left = 0
    BY DEF MissedNow
  <2>4. Owed(d)[i] = IF NextDeadline(i) <= d
                       THEN left + e * ((d - NextDeadline(i)) \div p) ELSE 0
    BY DEF Owed
  <2>5. OwedNow(d)[i] = IF due <= d THEN Ready[i] + e * ((d - due) \div p) ELSE 0
    BY DEF OwedNow
  <2> HIDE DEF p, e, due, left
  <2>6. CASE slot % p # 0
    BY <2>1, <2>2, <2>4, <2>5, <2>6
  <2>7. CASE slot % p = 0
    <3>1. Owed(d)[i] = e * ((d - slot) \div p)
      <4>1. (d - slot) \div p \in Nat
        BY <2>1, Floor
      <4> QED
        BY <2>1, <2>2, <2>3, <2>4, <2>7, <4>1
    <3>2. CASE slot + p <= d
      <4> DEFINE k == (d - (slot + p)) \div p
      <4>1. d - (slot + p) \in Nat /\ (d - (slot + p)) + p = d - slot
        BY <2>1, <3>2
      <4>2. k \in Nat /\ (d - slot) \div p = k + 1
        BY <2>1, <4>1, Floor, FloorNext
      <4>3. OwedNow(d)[i] = e + e * k
        BY <2>1, <2>2, <2>5, <2>7, <3>2
      <4> HIDE DEF k
      <4> QED
        BY <2>1, <3>1, <4>2, <4>3
    <3>3. CASE ~(slot + p <= d)
      <4>1. d - slot \in 0 .. p - 1
        BY <2>1, <3>3
      <4>2. (d - slot) \div p = 0
        BY <2>1, <4>1, FloorZero
      <4>3. OwedNow(d)[i] = 0
        BY <2>2, <2>5, <2>7, <3>3
      <4> QED
        BY <2>1, <3>1, <4>2, <4>3
    <3> QED
      BY <3>2, <3>3
  <2> QED
    BY <2>6, <2>7
<1>2. Owed(d) = [i \in Tasks |-> Owed(d)[i]] /\ OwedNow(d) = [i \in Tasks |-> OwedNow(d)[i]]
  BY DEF Owed, OwedNow
<1> QED
  BY <1>1, <1>2

\* In the first slot, all that is due by d fits if the test approves the set.
LEMMA FitsAtStart ==
  ASSUME SimIInv, Feasible, slot = 0, NEW d \in Nat
  PROVE  Total(OwedNow(d), Tasks) <= d
<1>1. ASSUME NEW i \in Tasks PROVE OwedNow(d)[i] <= WorkWithin(d)[i]
  <2> DEFINE p == Period(i)
             e == Execution(i)
  <2>1. p \in Nat \ {0} /\ e \in Nat /\ Ready[i] = IF 0 % p = 0 THEN e ELSE timeLeft[i]
    BY ReadyFacts
  <2>2. 0 % p = 0
    BY <2>1, ZeroMultiple
  <2>3. DueAt(i) = p
    BY <2>1, <2>2, DueFacts
  <2>4. OwedNow(d)[i] = IF p <= d THEN e + e * ((d - p) \div p) ELSE 0
    BY <2>1, <2>2, <2>3 DEF OwedNow
  <2>5. WorkWithin(d)[i] = e * (d \div p)
    BY DEF WorkWithin
  <2> HIDE DEF p, e
  <2>6. CASE p <= d
    <3>1. d - p \in Nat /\ (d - p) + p = d
      BY <2>1, <2>6
    <3>2. (d - p) \div p \in Nat /\ d \div p = ((d - p) \div p) + 1
      BY <2>1, <3>1, Floor, FloorNext
    <3> QED
      BY <2>1, <2>4, <2>5, <2>6, <3>2
  <2>7. CASE ~(p <= d)
    <3>1. d \div p \in Nat
      BY <2>1, Floor
    <3>2. e * (d \div p) \in Nat
      BY <2>1, <3>1
    <3> QED
      BY <2>4, <2>5, <2>7, <3>2
  <2> QED
    BY <2>6, <2>7
<1>2. /\ IsFiniteSet(Tasks) /\ OwedNow(d) \in [Tasks -> Nat]
      /\ WorkWithin(d) \in [Tasks -> Nat] /\ Total(WorkWithin(d), Tasks) <= d
  BY NeedsTypes, OwedTypes, WorkFits
<1>3. OwedNow(d) \in [Tasks -> Int] /\ WorkWithin(d) \in [Tasks -> Int]
  BY <1>2
<1>4. Total(OwedNow(d), Tasks) <= Total(WorkWithin(d), Tasks)
  BY <1>1, <1>2, <1>3, TotalLess
<1>5. Total(OwedNow(d), Tasks) \in Int /\ Total(WorkWithin(d), Tasks) \in Int
  BY <1>2, <1>3, SumFacts
<1> QED
  BY <1>2, <1>4, <1>5

\* No later slot is overfull.
NowFits == \A d \in Nat : slot <= d => Total(OwedNow(d), Tasks) <= d - slot

LEMMA FloorMonotone ==
  ASSUME NEW p \in Nat \ {0}, NEW a \in Nat, NEW b \in Nat, a <= b
  PROVE  a \div p <= b \div p
<1>1. /\ a \div p \in Nat /\ p * (a \div p) <= a
      /\ b \div p \in Nat /\ b < p * (b \div p) + p
  BY Floor
<1> DEFINE j == a \div p
           k == b \div p
<1>2. j \in Nat /\ k \in Nat /\ p * j < p * (k + 1)
  BY <1>1
<1> HIDE DEF j, k
<1>3. ~(j >= k + 1)
  <2> SUFFICES ASSUME j >= k + 1 PROVE FALSE
    OBVIOUS
  <2>1. p * j >= p * (k + 1)
    BY <1>2
  <2>2. p * j \in Nat /\ p * (k + 1) \in Nat
    BY <1>2
  <2> QED
    BY <1>2, <2>1, <2>2
<1>4. j <= k
  BY <1>2, <1>3
<1> QED
  BY <1>4 DEF j, k

\* If nothing that is due by d has work left, a slot can be spared.
LEMMA IdleFits ==
  ASSUME SimIInv, Feasible, NEW d \in Nat, slot < d,
         \A k \in Tasks : Ready[k] # 0 => DueAt(k) > d
  PROVE  Total(OwedNow(d), Tasks) <= d - slot - 1
<1> DEFINE n == d - slot - 1
<1>1. slot \in Nat /\ n \in Nat
  BY ReadyFacts
<1>2. ASSUME NEW i \in Tasks PROVE OwedNow(d)[i] <= WorkWithin(n)[i]
  <2> DEFINE p == Period(i)
             e == Execution(i)
             due == DueAt(i)
  <2>1. p \in Nat \ {0} /\ e \in Nat /\ Ready[i] \in Nat
    BY ReadyFacts
  <2>2. due \in Nat /\ due > slot
    BY DueFacts
  <2>3. OwedNow(d)[i] = IF due <= d THEN Ready[i] + e * ((d - due) \div p) ELSE 0
    BY DEF OwedNow
  <2>4. WorkWithin(n)[i] = e * (n \div p)
    BY DEF WorkWithin
  <2>5. Ready[i] = 0 \/ due > d
    OBVIOUS
  <2> HIDE DEF p, e, due
  <2>6. n \div p \in Nat
    BY <1>1, <2>1, Floor
  <2>7. CASE due <= d
    <3>1. d - due \in Nat /\ d - due <= n
      BY <1>1, <2>2, <2>7
    <3>2. (d - due) \div p \in Nat /\ (d - due) \div p <= n \div p
      BY <1>1, <2>1, <3>1, Floor, FloorMonotone
    <3>3. e * ((d - due) \div p) <= e * (n \div p)
      BY <2>1, <2>6, <3>2
    <3>4. OwedNow(d)[i] = e * ((d - due) \div p)
      <4>1. Ready[i] = 0
        BY <2>2, <2>5, <2>7
      <4>2. e * ((d - due) \div p) \in Nat
        BY <2>1, <3>2
      <4> QED
        BY <2>3, <2>7, <4>1, <4>2
    <3> QED
      BY <2>4, <3>3, <3>4
  <2>8. CASE ~(due <= d)
    <3>1. e * (n \div p) \in Nat
      BY <2>1, <2>6
    <3> QED
      BY <2>3, <2>4, <2>8, <3>1
  <2> QED
    BY <2>7, <2>8
<1> HIDE DEF n
<1>3. /\ IsFiniteSet(Tasks) /\ OwedNow(d) \in [Tasks -> Nat]
      /\ WorkWithin(n) \in [Tasks -> Nat] /\ Total(WorkWithin(n), Tasks) <= n
  BY <1>1, NeedsTypes, OwedTypes, WorkFits
<1>4. OwedNow(d) \in [Tasks -> Int] /\ WorkWithin(n) \in [Tasks -> Int]
  BY <1>3
<1>5. Total(OwedNow(d), Tasks) <= Total(WorkWithin(n), Tasks)
  BY <1>2, <1>3, <1>4, TotalLess
<1>6. Total(OwedNow(d), Tasks) \in Int /\ Total(WorkWithin(n), Tasks) \in Int
  BY <1>3, <1>4, SumFacts
<1>7. Total(OwedNow(d), Tasks) <= n
  BY <1>1, <1>3, <1>5, <1>6
<1> QED
  BY <1>7 DEF n

\* A task that llf prefers, though it is due after d, leaves a slot before d:
\* else its own work would not fit before its deadline.
LEMMA LaxityFits ==
  ASSUME SimIInv, NowFits, NEW d \in Nat, NEW i \in Tasks, NEW k \in Tasks,
         Ready[k] # 0, DueAt(k) <= d, d < DueAt(i),
         DueAt(i) - slot - Ready[i] <= DueAt(k) - slot - Ready[k]
  PROVE  Total(OwedNow(d), Tasks) <= d - slot - 1
<1> DEFINE D == DueAt(i)
           f == OwedNow(d)
           g == OwedNow(D)
<1>1. /\ slot \in Nat /\ D \in Nat /\ D > slot /\ DueAt(k) \in Nat
      /\ Ready[i] \in Nat /\ Ready[k] \in Nat
  BY ReadyFacts, DueFacts
<1>2. /\ IsFiniteSet(Tasks) /\ f \in [Tasks -> Nat] /\ g \in [Tasks -> Nat]
  BY <1>1, NeedsTypes, OwedTypes
<1>3. f[i] = 0
  BY <1>1 DEF OwedNow
<1>4. g[i] = Ready[i]
  <2>1. Period(i) \in Nat \ {0} /\ Execution(i) \in Nat
    BY ReadyFacts
  <2>2. (D - D) \div Period(i) = 0
    <3>1. D - D \in 0 .. Period(i) - 1
      BY <1>1, <2>1
    <3> QED
      BY <2>1, <3>1, FloorZero
  <2>3. g[i] = Ready[i] + Execution(i) * ((D - D) \div Period(i))
    <3>1. D <= D
      BY <1>1
    <3> QED
      BY <3>1 DEF OwedNow
  <2> HIDE DEF g
  <2>4. Execution(i) * 0 = 0
    BY <2>1
  <2> QED
    BY <1>1, <2>2, <2>3, <2>4
<1>5. ASSUME NEW j \in Tasks PROVE f[j] <= g[j]
  <2> DEFINE p == Period(j)
             e == Execution(j)
             due == DueAt(j)
  <2>1. p \in Nat \ {0} /\ e \in Nat /\ Ready[j] \in Nat /\ due \in Nat
    BY ReadyFacts, DueFacts
  <2>2. f[j] = IF due <= d THEN Ready[j] + e * ((d - due) \div p) ELSE 0
    BY DEF OwedNow
  <2>3. g[j] = IF due <= D THEN Ready[j] + e * ((D - due) \div p) ELSE 0
    BY DEF OwedNow
  <2>4. g[j] \in Nat
    BY <1>2
  <2>5. d <= D
    BY <1>1
  <2> HIDE DEF p, e, due, f, g, D
  <2>6. CASE due <= d
    <3>1. d - due \in Nat /\ D - due \in Nat /\ d - due <= D - due /\ due <= D
      BY <1>1, <2>1, <2>5, <2>6
    <3>2. /\ (d - due) \div p \in Nat /\ (D - due) \div p \in Nat
          /\ (d - due) \div p <= (D - due) \div p
      BY <2>1, <3>1, Floor, FloorMonotone
    <3>3. e * ((d - due) \div p) <= e * ((D - due) \div p)
      BY <2>1, <3>2
    <3>4. e * ((d - due) \div p) \in Nat /\ e * ((D - due) \div p) \in Nat
      BY <2>1, <3>2
    <3> QED
      BY <2>1, <2>2, <2>3, <2>6, <3>1, <3>3, <3>4
  <2>7. CASE ~(due <= d)
    BY <2>2, <2>4, <2>7
  <2> QED
    BY <2>6, <2>7
<1>6. Total(g, Tasks) <= D - slot
  BY <1>1 DEF NowFits
<1> HIDE DEF f, g
<1>7. f \in [Tasks -> Int] /\ g \in [Tasks -> Int] /\ Ready[i] \in Int
      /\ f[i] + Ready[i] <= g[i]
  BY <1>1, <1>2, <1>3, <1>4
<1>8. Total(f, Tasks) + Ready[i] <= Total(g, Tasks)
  BY <1>2, <1>5, <1>7, TotalMore
<1>9. Total(f, Tasks) \in Int /\ Total(g, Tasks) \in Int
  BY <1>2, <1>7, SumFacts
<1> HIDE DEF D
<1>10. D - slot - Ready[i] <= d - slot - 1
  BY <1>1 DEF D
<1>11. Total(f, Tasks) <= d - slot - 1
  BY <1>1, <1>6, <1>8, <1>9, <1>10
<1> QED
  BY <1>11 DEF f

\* In every slot that edf or llf gives to a task, whatever is due by d and
\* fills the slots up to d gets it.
LEMMA MostUrgentFits ==
  ASSUME SimIInv, Feasible, policy # "rm", NowFits, NEW i, MostUrgent(i),
         NEW d \in Nat, slot < d
  PROVE  \/ i # None /\ DueAt(i) <= d
         \/ Total(OwedNow(d), Tasks) <= d - slot - 1
<1> SUFFICES ASSUME i = None \/ ~(DueAt(i) <= d)
             PROVE  Total(OwedNow(d), Tasks) <= d - slot - 1
  OBVIOUS
<1>1. CASE \A k \in Tasks : Ready[k] # 0 => DueAt(k) > d
  BY <1>1, IdleFits
<1>2. CASE \E k \in Tasks : Ready[k] # 0 /\ ~(DueAt(k) > d)
  <2>1. PICK k \in Tasks : Ready[k] # 0 /\ ~(DueAt(k) > d)
    BY <1>2
  <2>2. k \in Unfinished
    BY <2>1 DEF Unfinished
  <2>3. i \in Tasks /\ UrgencyNow(i) <= UrgencyNow(k)
    BY <2>2 DEF MostUrgent, Unfinished
  <2>4. DueAt(i) \in Nat /\ DueAt(k) \in Nat /\ i # None
    BY <2>3, DueFacts, ReadyFacts
  <2>5. DueAt(k) <= d /\ d < DueAt(i)
    BY <2>1, <2>4
  <2>6. policy \in {"edf", "llf"}
    BY DEF SimIInv, TypeOK, Policies
  <2>7. CASE policy = "edf"
    <3>1. DueAt(i) <= DueAt(k)
      BY <2>3, <2>7 DEF UrgencyNow
    <3> QED
      BY <2>4, <2>5, <3>1
  <2>8. CASE policy = "llf"
    <3>1. DueAt(i) - slot - Ready[i] <= DueAt(k) - slot - Ready[k]
      BY <2>3, <2>8 DEF UrgencyNow
    <3> QED
      BY <2>1, <2>3, <2>5, <3>1, LaxityFits
  <2> QED
    BY <2>6, <2>7, <2>8
<1> QED
  BY <1>1, <1>2

\* What edf and llf make of a feasible set, while they run.
FitsInv ==
  policy # "rm" /\ Feasible =>
    /\ run
    /\ slot \in 1 .. hyper =>
         \A d \in Nat : slot <= d => Total(Owed(d), Tasks) <= d - slot

LEMMA FitsNow ==
  ASSUME SimIInv, FitsInv, Feasible, policy # "rm", slot \in 0 .. hyper
  PROVE  MissedNow = {} /\ NowFits
<1>1. slot \in Nat /\ IsFiniteSet(Tasks)
  BY ReadyFacts, NeedsTypes
<1>2. CASE slot = 0
  <2>1. MissedNow = {}
    BY <1>2 DEF MissedNow
  <2>2. ASSUME NEW d \in Nat PROVE Total(OwedNow(d), Tasks) <= d - slot
    <3>1. d - slot = d
      BY <1>2
    <3> QED
      BY <1>2, <3>1, FitsAtStart
  <2> QED
    BY <2>1, <2>2 DEF NowFits
<1>3. CASE slot # 0
  <2>1. slot \in 1 .. hyper
    BY <1>1, <1>3
  <2>2. \A d \in Nat : slot <= d => Total(Owed(d), Tasks) <= d - slot
    BY <2>1 DEF FitsInv
  <2>3. ASSUME NEW i \in MissedNow PROVE FALSE
    <3> DEFINE f == Owed(slot)
               z == [j \in Tasks |-> 0]
    <3>1. i \in Tasks /\ slot % Period(i) = 0 /\ timeLeft[i] # 0 /\ timeLeft[i] \in Nat
      BY ReadyFacts DEF MissedNow
    <3>2. NextDeadline(i) = slot /\ Period(i) \in Nat \ {0} /\ Execution(i) \in Nat
      BY <3>1, DueFacts, ReadyFacts
    <3>3. (slot - slot) \div Period(i) = 0
      <4>1. slot - slot \in 0 .. Period(i) - 1
        BY <1>1, <3>2
      <4> QED
        BY <3>2, <4>1, FloorZero
    <3>4. f[i] = timeLeft[i] + Execution(i) * ((slot - slot) \div Period(i))
      <4>1. slot <= slot
        BY <1>1
      <4> QED
        BY <3>1, <3>2, <4>1 DEF Owed
    <3>5. Execution(i) * 0 = 0
      BY <3>2
    <3>6. f \in [Tasks -> Nat]
      BY <1>1, OwedTypes
    <3>7. Total(f, Tasks) <= 0
      <4>1. slot <= slot /\ slot - slot = 0
        BY <1>1
      <4> QED
        BY <1>1, <2>2, <4>1
    <3> HIDE DEF f
    <3>8. f[i] >= 1
      BY <3>1, <3>3, <3>4, <3>5
    <3>9. /\ f \in [Tasks -> Int] /\ z \in [Tasks -> Int]
          /\ \A j \in Tasks : z[j] = 0 /\ z[j] <= f[j]
          /\ z[i] + 1 <= f[i]
      BY <3>1, <3>6, <3>8
    <3> HIDE DEF z
    <3>10. Total(z, Tasks) + 1 <= Total(f, Tasks)
      BY <1>1, <3>1, <3>9, TotalMore
    <3>11. Total(z, Tasks) = 0
      BY <1>1, <3>9, TotalZero
    <3>12. Total(f, Tasks) \in Int
      BY <1>1, <3>9, SumFacts
    <3> QED
      BY <3>7, <3>10, <3>11, <3>12
  <2>4. MissedNow = {}
    BY <2>3
  <2>5. ASSUME NEW d \in Nat, slot <= d PROVE Total(OwedNow(d), Tasks) <= d - slot
    BY <1>3, <2>2, <2>4, <2>5, OwedAfterReleases
  <2> QED
    BY <2>4, <2>5 DEF NowFits
<1> QED
  BY <1>2, <1>3

LEMMA WorkTurnFacts ==
  ASSUME SimIInv, NEW i, WorkTurn(i)
  PROVE  /\ slot' = slot + 1 /\ Tasks' = Tasks /\ hyper' = hyper
         /\ \A j \in Tasks :
              /\ Execution(j)' = Execution(j) /\ Period(j)' = Period(j)
              /\ NextDeadline(j)' = DueAt(j)
              /\ timeLeft'[j] = IF j = i THEN Ready[j] - 1 ELSE Ready[j]
<1>1. /\ slot' = slot + 1 /\ timeLeft' = Spend(Ready, i) /\ i \in Tasks \cup {None}
      /\ (i # None => Ready[i] # 0) /\ UNCHANGED input
  BY DEF WorkTurn
<1>2. /\ Tasks' = Tasks /\ hyper' = hyper
      /\ \A j : Execution(j)' = Execution(j) /\ Period(j)' = Period(j)
  BY <1>1 DEF input, Tasks, Execution, Period
<1>3. /\ slot \in Nat /\ None \notin Tasks /\ Ready \in [Tasks -> Nat]
      /\ \A j \in Tasks : Period(j) \in Nat \ {0}
  BY ReadyFacts
<1>4. \A j \in Tasks : timeLeft'[j] = IF j = i THEN Ready[j] - 1 ELSE Ready[j]
  BY <1>1, <1>3, SpendTypes
<1>5. ASSUME NEW j \in Tasks PROVE NextDeadline(j)' = DueAt(j)
  BY <1>1, <1>2, <1>3, DeadlineStays DEF NextDeadline, DueAt
<1> QED
  BY <1>1, <1>2, <1>4, <1>5

\* The work of the slot is no longer owed.
LEMMA OwedAfterTurn ==
  ASSUME SimIInv, SimIInv', NEW i, WorkTurn(i), NEW d \in Nat
  PROVE  Total(Owed(d), Tasks)' =
           IF i # None /\ DueAt(i) <= d THEN Total(OwedNow(d), Tasks) - 1
                                        ELSE Total(OwedNow(d), Tasks)
<1> DEFINE f == OwedNow(d)
           g == Owed(d)'
<1>1. IsFiniteSet(Tasks) /\ None \notin Tasks /\ i \in Tasks \cup {None}
      /\ Tasks' = Tasks
  BY NeedsTypes, ReadyFacts, WorkTurnFacts DEF WorkTurn
<1>2. f \in [Tasks -> Nat]
  BY OwedTypes
<1>3. g = [j \in Tasks |-> g[j]]
  BY <1>1 DEF Owed
<1>4. ASSUME NEW j \in Tasks
      PROVE  g[j] = IF j = i /\ DueAt(j) <= d THEN f[j] - 1 ELSE f[j]
  <2> DEFINE p == Period(j)
             e == Execution(j)
             due == DueAt(j)
  <2>1. /\ Execution(j)' = e /\ Period(j)' = p /\ NextDeadline(j)' = due
        /\ timeLeft'[j] = IF j = i THEN Ready[j] - 1 ELSE Ready[j]
    BY WorkTurnFacts
  <2>2. g[j] = IF due <= d THEN timeLeft'[j] + e * ((d - due) \div p) ELSE 0
    BY <1>1, <2>1 DEF Owed
  <2>3. f[j] = IF due <= d THEN Ready[j] + e * ((d - due) \div p) ELSE 0
    BY DEF OwedNow
  <2>4. Ready[j] \in Nat /\ e \in Nat /\ p \in Nat \ {0} /\ due \in Nat
    BY ReadyFacts, DueFacts
  <2> HIDE DEF p, e, f, g
  <2>5. CASE due <= d
    <3>1. d - due \in Nat
      BY <2>4, <2>5
    <3>2. e * ((d - due) \div p) \in Nat
      <4>1. (d - due) \div p \in Nat
        BY <2>4, <3>1, Floor
      <4> QED
        BY <2>4, <4>1
    <3> QED
      BY <2>1, <2>2, <2>3, <2>4, <2>5, <3>2
  <2>6. CASE ~(due <= d)
    BY <2>2, <2>3, <2>6
  <2> QED
    BY <2>5, <2>6
<1>5. Total(Owed(d), Tasks)' = Total(g, Tasks)
  BY <1>1
<1> HIDE DEF f, g
<1>6. f \in [Tasks -> Int] /\ g \in [Tasks -> Int]
  <2>1. \A j \in Tasks : f[j] \in Int /\ g[j] \in Int
    BY <1>2, <1>4
  <2> QED
    BY <1>2, <1>3, <2>1
<1>7. CASE i # None /\ DueAt(i) <= d
  <2>1. i \in Tasks /\ \A j \in Tasks : g[j] = IF j = i THEN f[j] - 1 ELSE f[j]
    BY <1>1, <1>4, <1>7
  <2>2. Total(g, Tasks) = Total(f, Tasks) - 1
    BY <1>1, <1>6, <2>1, TotalSpend
  <2> QED
    BY <1>5, <1>7, <2>2 DEF f
<1>8. CASE ~(i # None /\ DueAt(i) <= d)
  <2>1. \A j \in Tasks : g[j] = f[j]
    BY <1>1, <1>4, <1>8
  <2>2. g = f
    BY <1>6, <2>1
  <2> QED
    BY <1>5, <1>8, <2>2 DEF f
<1> QED
  BY <1>7, <1>8

LEMMA TestStays ==
  ASSUME UNCHANGED input
  PROVE  /\ policy' = policy /\ hyper' = hyper /\ Tasks' = Tasks /\ Needs' = Needs
         /\ Feasible' = Feasible /\ Demand' = Demand /\ testability_rm' = testability_rm
<1>1. policy' = policy /\ hyper' = hyper /\ Tasks' = Tasks /\ Needs' = Needs
  BY DEF input, Tasks, Needs, Execution, Period
<1>2. (Demand = Total(Needs, Tasks))'
  BY DemandIsTotal, PTL
<1>3. Demand = Total(Needs, Tasks)
  BY DemandIsTotal
<1>4. Demand' = Demand
  BY <1>1, <1>2, <1>3
<1>5. MuLow' = MuLow /\ MuHigh' = MuHigh /\ One' = One
  BY <1>1, <1>4 DEF MuLow, MuHigh, One
<1> QED
  BY <1>1, <1>4, <1>5 DEF Feasible, testability_rm

LEMMA FitsStep ==
  ASSUME SimIInv, SimIInv', TurnOf, FitsInv
  PROVE  FitsInv'
<1> SUFFICES ASSUME policy # "rm", Feasible
             PROVE  /\ run'
                    /\ slot' \in 1 .. hyper' =>
                         \A d \in Nat : slot' <= d => Total(Owed(d), Tasks)' <= d - slot'
  BY TestStays DEF FitsInv, TurnOf
<1>1. /\ run /\ slot \in 0 .. hyper /\ slot' = slot + 1 /\ UNCHANGED input
      /\ MissedNow = {} =>
           /\ UNCHANGED <<misses, missIdx, run>>
           /\ slot < hyper => \E i : WorkTurn(i) /\ MostUrgent(i)
  BY DEF TurnOf
<1>2. MissedNow = {} /\ NowFits
  BY <1>1, FitsNow
<1>3. slot \in Nat /\ hyper \in Nat /\ hyper' = hyper
  BY <1>1, ReadyFacts, TestStays
<1>4. ASSUME slot' \in 1 .. hyper', NEW d \in Nat, slot' <= d
      PROVE  Total(Owed(d), Tasks)' <= d - slot'
  <2>1. slot < hyper /\ slot < d /\ slot <= d
    BY <1>1, <1>3, <1>4
  <2>2. PICK i : WorkTurn(i) /\ MostUrgent(i)
    BY <1>1, <1>2, <2>1
  <2>3. \/ i # None /\ DueAt(i) <= d
        \/ Total(OwedNow(d), Tasks) <= d - slot - 1
    BY <1>2, <2>1, <2>2, MostUrgentFits
  <2>4. Total(OwedNow(d), Tasks) <= d - slot
    BY <1>2, <2>1 DEF NowFits
  <2>5. Total(Owed(d), Tasks)' =
           IF i # None /\ DueAt(i) <= d THEN Total(OwedNow(d), Tasks) - 1
                                        ELSE Total(OwedNow(d), Tasks)
    BY <2>2, OwedAfterTurn
  <2>6. Total(OwedNow(d), Tasks) \in Int
    <3>1. IsFiniteSet(Tasks) /\ OwedNow(d) \in [Tasks -> Nat]
      BY NeedsTypes, OwedTypes
    <3>2. OwedNow(d) \in [Tasks -> Int]
      BY <3>1
    <3> QED
      BY <3>1, <3>2, SumFacts
  <2> QED
    BY <1>1, <1>3, <2>3, <2>4, <2>5, <2>6
<1> QED
  BY <1>1, <1>2, <1>4

-----------------------------------------------------------------------------
(* All policies: a schedule without a miss serves all jobs                 *)

\* What the schedule has done for each task, before and after the releases.
Done ==
  [i \in Tasks |-> Execution(i) * (NextDeadline(i) \div Period(i)) - timeLeft[i]]
DoneNow ==
  [i \in Tasks |-> Execution(i) * (DueAt(i) \div Period(i)) - Ready[i]]

\* It does one unit of work in a slot.
DoneInv ==
  run => /\ slot \in 1 .. hyper => Total(Done, Tasks) <= slot
         /\ slot = hyper + 1 => Demand <= hyper

LEMMA DoneTypes ==
  ASSUME SimIInv
  PROVE  /\ Done \in [Tasks -> Int] /\ DoneNow \in [Tasks -> Int] /\ IsFiniteSet(Tasks)
         /\ \A i \in Tasks : /\ DueAt(i) \div Period(i) \in Nat
                             /\ NextDeadline(i) \div Period(i) \in Nat
<1>1. ASSUME NEW i \in Tasks
      PROVE  /\ DueAt(i) \div Period(i) \in Nat /\ NextDeadline(i) \div Period(i) \in Nat
             /\ Execution(i) * (NextDeadline(i) \div Period(i)) - timeLeft[i] \in Int
             /\ Execution(i) * (DueAt(i) \div Period(i)) - Ready[i] \in Int
  <2>1. /\ Period(i) \in Nat \ {0} /\ Execution(i) \in Nat /\ timeLeft[i] \in Nat
        /\ Ready[i] \in Nat /\ DueAt(i) \in Nat /\ NextDeadline(i) \in Nat
    BY ReadyFacts, DueFacts
  <2>2. DueAt(i) \div Period(i) \in Nat /\ NextDeadline(i) \div Period(i) \in Nat
    BY <2>1, Floor
  <2> QED
    BY <2>1, <2>2
<1> QED
  BY <1>1, NeedsTypes DEF Done, DoneNow

\* Without a miss, a release does not change what is done.
LEMMA DoneAtReleases ==
  ASSUME SimIInv, slot # 0, MissedNow = {}
  PROVE  Done = DoneNow
<1>1. ASSUME NEW i \in Tasks PROVE Done[i] = DoneNow[i]
  <2> DEFINE p == Period(i)
             e == Execution(i)
             due == DueAt(i)
             left == timeLeft[i]
  <2>1. /\ slot \in Nat /\ p \in Nat \ {0} /\ e \in Nat /\ left \in Nat
        /\ Ready[i] = IF slot % p = 0 THEN e ELSE left
    BY ReadyFacts
  <2>2. /\ due \in Nat /\ NextDeadline(i) = IF slot % p = 0 THEN slot ELSE due
        /\ slot % p = 0 => due = slot + p
    BY DueFacts
  <2>3. slot % p = 0 => left = 0
    BY DEF MissedNow
  <2>4. Done[i] = e * (NextDeadline(i) \div p) - left
    BY DEF Done
  <2>5. DoneNow[i] = e * (due \div p) - Ready[i]
    BY DEF DoneNow
  <2>6. slot \div p \in Nat /\ (slot + p) \div p = (slot \div p) + 1
    BY <2>1, Floor, FloorNext
  <2> HIDE DEF p, e, due, left
  <2>7. CASE slot % p # 0
    BY <2>1, <2>2, <2>4, <2>5, <2>7
  <2>8. CASE slot % p = 0
    BY <2>1, <2>2, <2>3, <2>4, <2>5, <2>6, <2>8
  <2> QED
    BY <2>7, <2>8
<1> QED
  BY <1>1 DEF Done, DoneNow

LEMMA DoneNothing ==
  ASSUME SimIInv, slot = 0
  PROVE  \A i \in Tasks : DoneNow[i] = 0
<1>1. ASSUME NEW i \in Tasks PROVE DoneNow[i] = 0
  <2> DEFINE p == Period(i)
             e == Execution(i)
  <2>1. p \in Nat \ {0} /\ e \in Nat /\ Ready[i] = IF 0 % p = 0 THEN e ELSE timeLeft[i]
    BY ReadyFacts
  <2>2. 0 % p = 0
    BY <2>1, ZeroMultiple
  <2>3. DueAt(i) = p
    BY <2>1, <2>2, DueFacts
  <2>4. DoneNow[i] = e * (p \div p) - e
    BY <2>1, <2>2, <2>3 DEF DoneNow
  <2>5. p \div p = 1
    <3>1. 0 \div p = 0 /\ (0 + p) \div p = (0 \div p) + 1
      <4>1. 0 \in Nat /\ 0 \in 0 .. p - 1
        BY <2>1
      <4> HIDE DEF p
      <4> QED
        BY <2>1, <4>1, FloorZero, FloorNext
    <3>2. 0 + p = p
      BY <2>1
    <3> HIDE DEF p
    <3> QED
      BY <3>1, <3>2
  <2> HIDE DEF p, e
  <2> QED
    BY <2>1, <2>4, <2>5
<1> QED
  BY <1>1

LEMMA DoneAtStart ==
  ASSUME SimIInv, slot = 0
  PROVE  Total(DoneNow, Tasks) = 0
BY DoneNothing, DoneTypes, TotalZero

LEMMA DoneAfterTurn ==
  ASSUME SimIInv, NEW i, WorkTurn(i)
  PROVE  /\ Total(Done, Tasks)' \in Int
         /\ Total(Done, Tasks)' <= Total(DoneNow, Tasks) + 1
<1> DEFINE f == DoneNow
           g == Done'
<1>1. IsFiniteSet(Tasks) /\ None \notin Tasks /\ i \in Tasks \cup {None}
      /\ Tasks' = Tasks
  BY NeedsTypes, ReadyFacts, WorkTurnFacts DEF WorkTurn
<1>2. f \in [Tasks -> Int] /\ \A j \in Tasks : f[j] \in Int
  BY DoneTypes
<1>3. ASSUME NEW j \in Tasks
      PROVE  g[j] = IF j = i THEN f[j] + 1 ELSE f[j]
  <2> DEFINE p == Period(j)
             e == Execution(j)
             due == DueAt(j)
  <2>1. /\ Execution(j)' = e /\ Period(j)' = p /\ NextDeadline(j)' = due
        /\ timeLeft'[j] = IF j = i THEN Ready[j] - 1 ELSE Ready[j]
    BY WorkTurnFacts
  <2>2. g[j] = e * (due \div p) - timeLeft'[j]
    BY <1>1, <2>1 DEF Done
  <2>3. f[j] = e * (due \div p) - Ready[j]
    BY DEF DoneNow
  <2>4. Ready[j] \in Nat /\ e \in Nat /\ due \div p \in Nat
    BY ReadyFacts, DoneTypes
  <2>5. e * (due \div p) \in Nat
    BY <2>4
  <2> HIDE DEF p, e, f, g
  <2> QED
    BY <2>1, <2>2, <2>3, <2>4, <2>5
<1>4. g = [j \in Tasks |-> g[j]]
  BY <1>1 DEF Done
<1>5. Total(Done, Tasks)' = Total(g, Tasks)
  BY <1>1
<1> HIDE DEF f, g
<1>6. g \in [Tasks -> Int]
  <2>1. \A j \in Tasks : g[j] \in Int
    BY <1>2, <1>3
  <2> QED
    BY <1>4, <2>1
<1>7. Total(f, Tasks) \in Int /\ Total(g, Tasks) \in Int
  BY <1>1, <1>2, <1>6, SumFacts
<1>8. CASE i \in Tasks
  <2>1. \A j \in Tasks : f[j] = IF j = i THEN g[j] - 1 ELSE g[j]
    BY <1>2, <1>3
  <2>2. Total(f, Tasks) = Total(g, Tasks) - 1
    BY <1>1, <1>2, <1>6, <1>8, <2>1, TotalSpend
  <2> QED
    BY <1>5, <1>7, <2>2 DEF f
<1>9. CASE i = None
  <2>1. \A j \in Tasks : g[j] = f[j]
    BY <1>1, <1>3, <1>9
  <2>2. g = f
    BY <1>2, <1>6, <2>1
  <2> QED
    BY <1>5, <1>7, <2>2 DEF f
<1> QED
  BY <1>1, <1>8, <1>9

LEMMA DoneStep ==
  ASSUME SimIInv, TurnOf, DoneInv
  PROVE  DoneInv'
<1> SUFFICES ASSUME run'
             PROVE  /\ slot' \in 1 .. hyper' => Total(Done, Tasks)' <= slot'
                    /\ slot' = hyper' + 1 => Demand' <= hyper'
  BY DEF DoneInv
<1>1. /\ run /\ slot \in 0 .. hyper /\ slot' = slot + 1 /\ UNCHANGED input
      /\ MissedNow # {} => run' = FALSE
      /\ slot < hyper /\ MissedNow = {} => \E i : WorkTurn(i)
  BY DEF TurnOf
<1>2. MissedNow = {}
  BY <1>1
<1>3. slot \in Nat /\ hyper \in Nat \ {0} /\ hyper' = hyper /\ Demand' = Demand
  BY <1>1, ReadyFacts, TestStays
<1>4. Total(DoneNow, Tasks) \in Int /\ Total(DoneNow, Tasks) <= slot
  <2>1. Total(DoneNow, Tasks) \in Int
    BY DoneTypes, SumFacts
  <2>2. CASE slot = 0
    BY <2>1, <2>2, DoneAtStart
  <2>3. CASE slot # 0
    <3>1. slot \in 1 .. hyper
      BY <1>1, <1>3, <2>3
    <3>2. Total(Done, Tasks) <= slot
      BY <1>1, <3>1 DEF DoneInv
    <3> QED
      BY <1>2, <2>1, <2>3, <3>2, DoneAtReleases
  <2> QED
    BY <2>2, <2>3
<1>5. ASSUME slot' \in 1 .. hyper' PROVE Total(Done, Tasks)' <= slot'
  <2>1. slot < hyper
    BY <1>1, <1>3, <1>5
  <2>2. PICK i : WorkTurn(i)
    BY <1>1, <1>2, <2>1
  <2>3. /\ Total(Done, Tasks)' \in Int
        /\ Total(Done, Tasks)' <= Total(DoneNow, Tasks) + 1
    BY <2>2, DoneAfterTurn
  <2> QED
    BY <1>1, <1>3, <1>4, <2>3
<1>6. ASSUME slot' = hyper' + 1 PROVE Demand' <= hyper'
  <2>1. slot = hyper /\ slot # 0
    BY <1>1, <1>3, <1>6
  <2>2. ASSUME NEW j \in Tasks PROVE Needs[j] = DoneNow[j]
    <3>1. /\ hyper % Period(j) = 0 /\ Execution(j) \in Nat /\ Period(j) \in Nat \ {0}
          /\ Ready[j] = Execution(j)
      BY <2>1, ReadyFacts
    <3>2. DueAt(j) = hyper + Period(j)
      BY <2>1, <3>1, DueFacts
    <3>3. hyper \div Period(j) \in Nat
          /\ (hyper + Period(j)) \div Period(j) = (hyper \div Period(j)) + 1
      BY <1>3, <3>1, Floor, FloorNext
    <3>4. /\ Needs[j] = Execution(j) * (hyper \div Period(j))
          /\ DoneNow[j] = Execution(j) * (DueAt(j) \div Period(j)) - Ready[j]
      BY DEF Needs, DoneNow
    <3> QED
      BY <3>1, <3>2, <3>3, <3>4
  <2>3. Needs = DoneNow
    BY <2>2 DEF Needs, DoneNow
  <2> QED
    BY <1>3, <1>4, <2>1, <2>3, DemandIsTotal
<1> QED
  BY <1>5, <1>6

\* edf and llf meet all the deadlines of the feasible sets, and of no others.
LEMMA ExactTest ==
  ASSUME SimIInv, FitsInv, DoneInv, Over, policy \in {"edf", "llf"}
  PROVE  Feasible <=> misses = {}
<1>1. (run <=> misses = {}) /\ policy # "rm"
  BY DEF SimIInv, RunInv
<1>2. ASSUME run PROVE Demand <= hyper
  <2>1. slot \in 0 .. hyper + 1 /\ hyper \in Nat /\ slot > hyper
    BY <1>2 DEF SimIInv, TypeOK, Over
  <2>2. slot = hyper + 1
    BY <2>1
  <2> QED
    BY <1>2, <2>2 DEF DoneInv
<1> QED
  BY <1>1, <1>2 DEF FitsInv, Feasible

LEMMA PrecisionFacts ==
  ASSUME SimIInv
  PROVE  /\ Precision \in Nat \ {0, 1}
         /\ \A i \in Tasks : Period(i) + 2 <= Precision
<1>1. PICK n \in 1 .. MaxTasks : config \in [0 .. n - 1 -> ValidTasks]
  BY DEF SimIInv, TypeOK, Configs
<1>2. Tasks = 0 .. n - 1
  BY <1>1 DEF Tasks
<1>3. 0 \in Tasks
  BY <1>2, MaxTasksAssumption
<1>4. ASSUME NEW i \in Tasks
      PROVE  Period(i) \in Nat \ {0} /\ Period(i) + 2 <= Precision
  <2>1. PICK p \in Periods : config[i] \in [execution : 1 .. p, period : {p}]
    BY <1>1, <1>2 DEF ValidTasks
  <2>2. p \in Nat \ {0} /\ p + 2 <= Precision
    BY PeriodsAssumption, PrecisionAssumption
  <2> QED
    BY <2>1, <2>2 DEF Period
<1>5. Precision \in Nat
  BY PrecisionAssumption
<1>6. Period(0) \in Nat \ {0} /\ Period(0) + 2 <= Precision
  BY <1>3, <1>4
<1>7. Precision \notin {0, 1}
  BY <1>5, <1>6
<1> QED
  BY <1>4, <1>5, <1>7

\* EPSILON takes up what the sum is off, and only whole slots are missing.
LEMMA RoundingOfOne ==
  ASSUME SimIInv
  PROVE  /\ Feasible <=> testability_edf_llf = {TRUE}
         /\ 2 * hyper < Precision - 1 /\ TRUE \in testability_edf_llf => Feasible
<1>1. PICK d \in Nat, h \in Nat \ {0}, p \in Nat \ {0, 1} :
        d = Demand /\ h = hyper /\ p = Precision
  <2>1. Demand \in Nat
    BY DemandIsTotal, NeedsTypes, TotalNat
  <2> QED
    BY <2>1, ReadyFacts, PrecisionFacts
<1>2. /\ MuLow = (p - 1) * d /\ MuHigh = (p + 1) * d
      /\ One + hyper = (p + 1) * h
  BY <1>1 DEF MuLow, MuHigh, One
<1>3. TRUE \in testability_edf_llf <=> (p - 1) * d <= (p + 1) * h
  BY <1>2 DEF testability_edf_llf
<1>4. FALSE \in testability_edf_llf <=> (p + 1) * d > (p + 1) * h
  BY <1>2 DEF testability_edf_llf
<1>5. testability_edf_llf \subseteq BOOLEAN
  BY DEF testability_edf_llf
<1>6. (p + 1) * d > (p + 1) * h <=> d > h
  BY <1>1
<1>7. d <= h => (p - 1) * d <= (p + 1) * h
  <2>1. SUFFICES ASSUME d <= h PROVE (p - 1) * d <= (p + 1) * h
    OBVIOUS
  <2>2. (p - 1) * d <= (p - 1) * h
    BY <2>1
  <2>3. (p - 1) * h <= (p + 1) * h
    OBVIOUS
  <2> QED
    BY <2>2, <2>3
<1>8. 2 * h < p - 1 /\ (p - 1) * d <= (p + 1) * h => d <= h
  <2>1. SUFFICES ASSUME 2 * h < p - 1, d >= h + 1 PROVE (p - 1) * d > (p + 1) * h
    OBVIOUS
  <2>2. (p - 1) * d >= (p - 1) * (h + 1)
    BY <2>1
  <2>3. (p - 1) * (h + 1) = (p + 1) * h - 2 * h + (p - 1)
    OBVIOUS
  <2>4. (p - 1) * d \in Int /\ (p - 1) * (h + 1) \in Int /\ (p + 1) * h \in Int
    OBVIOUS
  <2> QED
    BY <2>1, <2>2, <2>3, <2>4
<1>9. Feasible <=> d <= h
  BY <1>1 DEF Feasible
<1>10. (d > h <=> ~(d <= h)) /\ h = hyper /\ p = Precision
  BY <1>1
<1>11. testability_edf_llf = {TRUE}
         <=> TRUE \in testability_edf_llf /\ FALSE \notin testability_edf_llf
  BY <1>5
<1> QED
  BY <1>3, <1>4, <1>6, <1>7, <1>8, <1>9, <1>10, <1>11

-----------------------------------------------------------------------------
(* Powers                                                                  *)

\* The recursive equation of Power.
PowerStep(b, n, p) == [k \in 0 .. n |-> IF k = 0 THEN 1 ELSE b * p[k - 1]]

LEMMA PowerUnfold ==
  ASSUME NEW b, NEW n
  PROVE  Power(b, n) = (CHOOSE p : p = PowerStep(b, n, p))[n]
BY Zenon DEF Power, PowerStep

LEMMA PowerExists ==
  ASSUME NEW b \in Nat, NEW n \in Nat
  PROVE  \E p \in [0 .. n -> Nat] : p = PowerStep(b, n, p)
<1> DEFINE S == {m \in Nat : \E p \in [0 .. m -> Nat] : p = PowerStep(b, m, p)}
<1>1. 0 \in S
  <2> DEFINE p == [k \in 0 .. 0 |-> 1]
  <2>1. p \in [0 .. 0 -> Nat]
    OBVIOUS
  <2>2. p = PowerStep(b, 0, p)
    BY DEF PowerStep
  <2> QED
    BY <2>1, <2>2
<1>2. ASSUME NEW m \in S, m \in Nat PROVE m + 1 \in S
  <2>1. PICK p \in [0 .. m -> Nat] : p = PowerStep(b, m, p)
    OBVIOUS
  <2> DEFINE q == [k \in 0 .. m + 1 |-> IF k = m + 1 THEN b * p[m] ELSE p[k]]
  <2>2. \A k \in 0 .. m + 1 : k # m + 1 => k \in 0 .. m
    BY <1>2
  <2>3. p[m] \in Nat /\ b * p[m] \in Nat
    <3>1. p[m] \in Nat
      BY <1>2, <2>1
    <3> QED
      BY <3>1
  <2>4. q \in [0 .. m + 1 -> Nat]
    BY <2>1, <2>2, <2>3
  <2>5. ASSUME NEW k \in 0 .. m + 1
        PROVE  q[k] = IF k = 0 THEN 1 ELSE b * q[k - 1]
    <3>1. CASE k = m + 1
      <4>1. k - 1 = m /\ k - 1 \in 0 .. m + 1 /\ m # m + 1 /\ k # 0
        BY <1>2, <3>1
      <4> QED
        BY <3>1, <4>1
    <3>2. CASE k # m + 1
      <4>1. k \in 0 .. m
        BY <2>2, <3>2
      <4>2. p[k] = IF k = 0 THEN 1 ELSE b * p[k - 1]
        BY <2>1, <4>1 DEF PowerStep
      <4>3. k # 0 => k - 1 \in 0 .. m + 1 /\ k - 1 # m + 1
        BY <1>2, <4>1
      <4> QED
        BY <3>2, <4>2, <4>3
    <3> QED
      BY <3>1, <3>2
  <2> HIDE DEF q
  <2>6. q = PowerStep(b, m + 1, q)
    BY <2>4, <2>5 DEF PowerStep
  <2> QED
    BY <1>2, <2>4, <2>6
<1> HIDE DEF S
<1>3. n \in S
  BY <1>1, <1>2, Induct
<1> QED
  BY <1>3 DEF S

LEMMA PowerFacts ==
  ASSUME NEW b \in Nat
  PROVE  /\ Power(b, 0) = 1
         /\ \A n \in Nat : Power(b, n) \in Nat /\ Power(b, n + 1) = b * Power(b, n)
<1> DEFINE p(n) == CHOOSE q : q = PowerStep(b, n, q)
<1>1. ASSUME NEW n \in Nat
      PROVE  /\ p(n) = PowerStep(b, n, p(n)) /\ Power(b, n) = p(n)[n]
  BY PowerExists, PowerUnfold
<1> HIDE DEF p
<1>2. ASSUME NEW n \in Nat, NEW k \in 0 .. n
      PROVE  p(n)[k] = IF k = 0 THEN 1 ELSE b * p(n)[k - 1]
  <2>1. PowerStep(b, n, p(n))[k] = IF k = 0 THEN 1 ELSE b * p(n)[k - 1]
    BY DEF PowerStep
  <2> QED
    BY <1>1, <2>1
<1>3. ASSUME NEW n \in Nat, NEW m \in Nat, n <= m
      PROVE  p(n)[n] = p(m)[n] /\ p(n)[n] \in Nat
  <2> DEFINE S == {k \in Nat : k <= n => p(n)[k] = p(m)[k] /\ p(n)[k] \in Nat}
  <2>1. 0 \in S
    <3>1. 0 \in 0 .. n /\ 0 \in 0 .. m
      OBVIOUS
    <3>2. p(n)[0] = 1 /\ p(m)[0] = 1
      BY <1>2, <3>1
    <3> QED
      BY <3>2
  <2>2. ASSUME NEW k \in S, k \in Nat PROVE k + 1 \in S
    <3>1. ASSUME k + 1 <= n PROVE p(n)[k + 1] = p(m)[k + 1] /\ p(n)[k + 1] \in Nat
      <4>1. /\ k + 1 \in 0 .. n /\ k + 1 \in 0 .. m /\ k + 1 # 0
            /\ (k + 1) - 1 = k /\ k <= n
        BY <1>3, <2>2, <3>1
      <4>2. p(n)[k] = p(m)[k] /\ p(n)[k] \in Nat
        BY <4>1
      <4>3. p(n)[k + 1] = b * p(n)[k] /\ p(m)[k + 1] = b * p(m)[k]
        BY <1>2, <4>1
      <4> QED
        BY <4>2, <4>3
    <3> QED
      BY <2>2, <3>1
  <2> HIDE DEF S
  <2>3. n \in S
    BY <2>1, <2>2, Induct
  <2> QED
    BY <2>3 DEF S
<1>4. Power(b, 0) = 1
  <2>1. 0 \in Nat /\ 0 \in 0 .. 0
    OBVIOUS
  <2> QED
    BY <1>1, <1>2, <2>1
<1>5. ASSUME NEW n \in Nat PROVE Power(b, n) \in Nat /\ Power(b, n + 1) = b * Power(b, n)
  <2>1. n + 1 \in Nat /\ n + 1 \in 0 .. n + 1 /\ n + 1 # 0 /\ (n + 1) - 1 = n
        /\ n <= n + 1
    OBVIOUS
  <2>2. p(n + 1)[n + 1] = b * p(n + 1)[n]
    BY <1>2, <2>1
  <2>3. p(n)[n] = p(n + 1)[n] /\ p(n)[n] \in Nat
    BY <1>3, <2>1
  <2> QED
    BY <1>1, <2>1, <2>2, <2>3
<1> QED
  BY <1>4, <1>5

LEMMA PowerPositive ==
  ASSUME NEW b \in Nat \ {0}, NEW n \in Nat
  PROVE  Power(b, n) \in Nat \ {0}
<1> DEFINE S == {m \in Nat : Power(b, m) \in Nat \ {0}}
<1>1. 0 \in S
  BY PowerFacts
<1>2. ASSUME NEW m \in S, m \in Nat PROVE m + 1 \in S
  <2>1. Power(b, m + 1) = b * Power(b, m) /\ Power(b, m) \in Nat \ {0}
    BY <1>2, PowerFacts
  <2>2. b * Power(b, m) \in Nat \ {0}
    BY <2>1
  <2> QED
    BY <1>2, <2>1, <2>2
<1> HIDE DEF S
<1>3. n \in S
  BY <1>1, <1>2, Induct
<1> QED
  BY <1>3 DEF S

LEMMA PowerOfProduct ==
  ASSUME NEW a \in Nat, NEW b \in Nat, NEW n \in Nat
  PROVE  Power(a * b, n) = Power(a, n) * Power(b, n)
<1> DEFINE c == a * b
           S == {m \in Nat : Power(c, m) = Power(a, m) * Power(b, m)}
<1>1. c \in Nat
  OBVIOUS
<1> HIDE DEF c
<1>2. 0 \in S
  BY <1>1, PowerFacts
<1>3. ASSUME NEW m \in S, m \in Nat PROVE m + 1 \in S
  <2> DEFINE x == Power(a, m)
             y == Power(b, m)
  <2>1. /\ x \in Nat /\ y \in Nat
        /\ Power(c, m + 1) = c * Power(c, m)
        /\ Power(a, m + 1) = a * x /\ Power(b, m + 1) = b * y
    BY <1>1, <1>3, PowerFacts
  <2>2. Power(c, m) = x * y
    OBVIOUS
  <2> HIDE DEF x, y
  <2>3. (a * b) * (x * y) = (a * x) * (b * y)
    BY <2>1
  <2>4. Power(c, m + 1) = Power(a, m + 1) * Power(b, m + 1)
    BY <2>1, <2>2, <2>3 DEF c
  <2> QED
    BY <1>3, <2>4
<1> HIDE DEF S
<1>4. n \in S
  BY <1>2, <1>3, Induct
<1> QED
  BY <1>4 DEF S, c

\* The power u^(k+1) lies above its tangent in v.
LEMMA Tangent ==
  ASSUME NEW u \in Nat, NEW v \in Nat, NEW k \in Nat
  PROVE  Power(u, k + 1) >= Power(v, k) * (v + (k + 1) * (u - v))
<1> DEFINE S == {m \in Nat : Power(u, m + 1) >= Power(v, m) * (v + (m + 1) * (u - v))}
<1>1. 0 \in S
  <2>1. 0 \in Nat /\ Power(u, 0) = 1 /\ Power(v, 0) = 1 /\ Power(u, 0 + 1) = u * Power(u, 0)
    BY PowerFacts
  <2>2. Power(u, 0 + 1) = u
    BY <2>1
  <2>3. 1 * (v + (0 + 1) * (u - v)) = u
    OBVIOUS
  <2>4. Power(u, 0 + 1) >= Power(v, 0) * (v + (0 + 1) * (u - v))
    BY <2>1, <2>2, <2>3
  <2> QED
    BY <2>4
<1>2. ASSUME NEW m \in S, m \in Nat PROVE m + 1 \in S
  <2> DEFINE x == Power(u, m + 1)
             y == Power(v, m)
             d == u - v
             X == v + (m + 1) * d
             Y == v + (m + 2) * d
  <2>1. /\ m + 1 \in Nat /\ x \in Nat /\ y \in Nat
        /\ Power(u, (m + 1) + 1) = u * x /\ Power(v, m + 1) = v * y
    <3>1. m + 1 \in Nat
      BY <1>2
    <3> QED
      BY <1>2, <3>1, PowerFacts
  <2>2. x >= y * X
    OBVIOUS
  <2>3. d \in Int /\ u = v + d /\ X \in Int /\ Y \in Int
    BY <1>2
  <2>4. u * X - v * Y = (m + 1) * (d * d)
    <3> HIDE DEF d
    <3>1. v * (m + 1) * d + v * d = v * ((m + 2) * d)
      BY <1>2, <2>3
    <3> QED
      BY <1>2, <2>3, <3>1
  <2>5. (m + 1) * (d * d) >= 0
    <3> HIDE DEF d
    <3>1. d * d >= 0 /\ d * d \in Int
      BY <2>3
    <3> QED
      BY <2>1, <3>1
  <2> HIDE DEF x, y, X, Y, d
  <2>6. u * X >= v * Y
    <3>1. u * X \in Int /\ v * Y \in Int
      BY <2>3
    <3> QED
      BY <2>4, <2>5, <3>1
  <2>7. u * x >= u * (y * X)
    <3>1. y * X \in Int
      BY <2>1, <2>3
    <3> QED
      BY <2>1, <2>2, <3>1
  <2>8. y * (u * X) >= y * (v * Y)
    <3>1. u * X \in Int /\ v * Y \in Int
      BY <2>3
    <3> QED
      BY <2>1, <2>6, <3>1
  <2>9. u * (y * X) = y * (u * X) /\ y * (v * Y) = (v * y) * Y
    BY <2>1, <2>3
  <2>10. u * x >= (v * y) * Y
    <3>1. u * x \in Int /\ u * (y * X) \in Int /\ y * (u * X) \in Int /\ (v * y) * Y \in Int
      BY <2>1, <2>3
    <3> QED
      BY <2>7, <2>8, <2>9, <3>1
  <2>11. Y = v + ((m + 1) + 1) * (u - v)
    <3>1. (m + 1) + 1 = m + 2
      BY <1>2
    <3> QED
      BY <3>1 DEF Y, d
  <2> QED
    BY <2>1, <2>10, <2>11
<1> HIDE DEF S
<1>3. k \in S
  BY <1>1, <1>2, Induct
<1> QED
  BY <1>3 DEF S

\* The mean of n + 1 numbers, n of them with the sum b and one a.
LEMMA Mean ==
  ASSUME NEW a \in Nat, NEW b \in Nat, NEW n \in Nat, n = 0 => b = 0
  PROVE  Power(n, n) * Power(b + a, n + 1) >= Power(n + 1, n + 1) * (Power(b, n) * a)
<1>1. CASE n = 0
  <2>1. 0 \in Nat /\ 1 \in Nat /\ b + a = a /\ n + 1 = 0 + 1 /\ 0 + 1 = 1
    BY <1>1
  <2>2. /\ Power(0, 0) = 1 /\ Power(b, 0) = 1
        /\ Power(1, 0 + 1) = 1 * Power(1, 0) /\ Power(1, 0) = 1
        /\ Power(a, 0 + 1) = a * Power(a, 0) /\ Power(a, 0) = 1
    BY <2>1, PowerFacts
  <2>3. Power(1, 1) = 1 /\ Power(a, 1) = a
    BY <2>1, <2>2
  <2>4. Power(n, n) = 1 /\ Power(b + a, n + 1) = a /\ Power(n + 1, n + 1) = 1
        /\ Power(b, n) = 1
    BY <1>1, <2>1, <2>2, <2>3
  <2> QED
    BY <2>4
<1>2. CASE n # 0
  <2> DEFINE u == n * (b + a)
             v == (n + 1) * b
             N == Power(n, n)
             M == Power(n + 1, n)
             B == Power(b, n)
             C == Power(b + a, n + 1)
  <2>1. u \in Nat /\ v \in Nat /\ n + 1 \in Nat /\ b + a \in Nat
    OBVIOUS
  <2>2. N \in Nat /\ M \in Nat /\ B \in Nat /\ C \in Nat
    BY <2>1, PowerFacts
  <2>3. Power(u, n + 1) >= Power(v, n) * (v + (n + 1) * (u - v))
    BY <2>1, Tangent
  <2>4. Power(u, n + 1) = Power(n, n + 1) * C
    BY <2>1, PowerOfProduct
  <2>5. Power(v, n) = M * B
    BY <2>1, PowerOfProduct
  <2>6. Power(n, n + 1) = n * N /\ Power(n + 1, n + 1) = (n + 1) * M
    BY <2>1, PowerFacts
  <2>7. v + (n + 1) * (u - v) = n * ((n + 1) * a)
    OBVIOUS
  <2> HIDE DEF u, v, N, M, B, C
  <2>8. (n * N) * C >= (M * B) * (n * ((n + 1) * a))
    BY <2>3, <2>4, <2>5, <2>6, <2>7
  <2>9. /\ (n * N) * C = n * (N * C)
        /\ (M * B) * (n * ((n + 1) * a)) = n * (((n + 1) * M) * (B * a))
    BY <2>2
  <2>10. N * C \in Int /\ ((n + 1) * M) * (B * a) \in Int
    BY <2>2
  <2>11. N * C >= ((n + 1) * M) * (B * a)
    <3> DEFINE y == N * C
               z == ((n + 1) * M) * (B * a)
    <3>1. y \in Int /\ z \in Int /\ n * y >= n * z /\ n > 0
      BY <1>2, <2>8, <2>9, <2>10
    <3> HIDE DEF y, z
    <3>2. y >= z
      BY <3>1
    <3> QED
      BY <3>2 DEF y, z
  <2> QED
    BY <2>6, <2>11 DEF N, B, C
<1> QED
  BY <1>1, <1>2

-----------------------------------------------------------------------------
(* Liu and Layland: the least demand of tasks that fill a period           *)

LEMMA LargestOf ==
  ASSUME NEW D, IsFiniteSet(D), NEW P \in [D -> Nat]
  PROVE  \A s \in SUBSET D : s # {} => \E l \in s : \A k \in s : P[k] <= P[l]
<1> DEFINE Right(s) == s # {} => \E l \in s : \A k \in s : P[k] <= P[l]
           S == {s \in SUBSET D : Right(s)}
<1>1. {} \in S
  OBVIOUS
<1>2. ASSUME NEW s \in SUBSET D, s # {}, \A x \in s : s \ {x} \in S PROVE s \in S
  <2>1. PICK x \in s : TRUE
    BY <1>2
  <2>2. \A k \in s : P[k] \in Nat
    OBVIOUS
  <2>3. CASE s \ {x} = {}
    BY <2>2, <2>3
  <2>4. CASE s \ {x} # {}
    <3>1. PICK l \in s \ {x} : \A k \in s \ {x} : P[k] <= P[l]
      BY <1>2, <2>4
    <3>2. CASE P[x] <= P[l]
      BY <3>1, <3>2
    <3>3. CASE ~(P[x] <= P[l])
      BY <2>2, <3>1, <3>3
    <3> QED
      BY <3>2, <3>3
  <2> QED
    BY <2>3, <2>4
<1> HIDE DEF S
<1>3. SUBSET D \subseteq S
  BY <1>1, <1>2, SetInduct
<1> QED
  BY <1>3 DEF S

\* Sets of tasks that contain all tasks with a smaller P.
Closed(D, P, s) == \A k \in s, j \in D : P[j] < P[k] => j \in s

\* What the induction shows of n tasks with the sum b of h + w, and of demand q;
\* S is the demand of all tasks.
Reaches(n, b, h, S, q) == Power(b, n) * S >= Power(n, n) * (Power(h, n) * q)
Exceeds(n, b, h, S, q) == Power(b, n) * S > Power(n, n) * (Power(h, n) * q)

\* Work w in h slots is work E in P slots.
Share(w, P, E, h) == w \in Nat \ {0} /\ P \in Nat /\ E \in Nat /\ w * P = E * h
More(q, P) == q > P
Known(n, b, h, S, q) ==
  /\ n \in Nat /\ b \in Nat /\ h \in Nat \ {0} /\ S \in Nat /\ q \in Nat
  /\ n = 0 => b = 0

\* One step of it.
LEMMA CrowdStep ==
  ASSUME NEW n, NEW A, NEW h, NEW w, NEW P, NEW E, NEW S, NEW Q,
         Known(n, A, h, S, Q), Reaches(n, A, h, S, Q), Share(w, P, E, h), More(Q, P)
  PROVE  \A m, b, q : m = n + 1 /\ b = A + (h + w) /\ q = Q + E => Exceeds(m, b, h, S, q)
<1> SUFFICES Exceeds(n + 1, A + (h + w), h, S, Q + E)
  OBVIOUS
<1> USE DEF Share, Known, More
<1> DEFINE a == h + w
           X == Power(A, n)
           Y == Power(A + a, n + 1)
           N == Power(n, n)
           M == Power(n + 1, n + 1)
           H == Power(h, n)
<1>1. a \in Nat /\ n + 1 \in Nat \ {0} /\ A + a \in Nat
  OBVIOUS
<1>2. /\ X \in Nat /\ Y \in Nat /\ H \in Nat \ {0} /\ M \in Nat \ {0}
      /\ Power(h, n + 1) = h * H
  BY <1>1, PowerFacts, PowerPositive
<1>3. N \in Nat \ {0}
  <2>1. n = 0 => N = 1
    BY PowerFacts
  <2> QED
    BY <2>1, PowerPositive
<1>4. N * Y >= M * (X * a)
  BY <1>1, Mean
<1> HIDE DEF X, Y, N, M, H
<1>5. a * Q > h * (Q + E)
  <2>1. w * Q > w * P
    BY SMT
  <2>2. a * Q = h * Q + w * Q
    BY DEF a
  <2>3. h * (Q + E) = h * Q + w * P
    OBVIOUS
  <2>4. h * Q \in Nat /\ w * Q \in Nat /\ w * P \in Nat
    OBVIOUS
  <2> QED
    BY <2>1, <2>2, <2>3, <2>4
<1> DEFINE Z == h * (Q + E)
<1>6. Z \in Nat /\ a * Q \in Nat
  BY <1>1
<1> HIDE DEF a
<1>7. a * Q > Z
  BY <1>5
<1> HIDE DEF Z
<1>8. a * (X * S) >= (N * H) * (a * Q)
  <2>1. X * S >= N * (H * Q)
    BY DEF Reaches, X, N, H
  <2>2. X * S \in Nat /\ N * (H * Q) \in Nat
    BY <1>2, <1>3
  <2>3. a * (X * S) >= a * (N * (H * Q))
    BY <1>1, <2>1, <2>2
  <2>4. a * (N * (H * Q)) = (N * H) * (a * Q)
    BY <1>1, <1>2, <1>3
  <2> QED
    BY <2>3, <2>4
<1>9. (N * H) * (a * Q) > (N * H) * Z
  <2>1. N * H \in Nat \ {0}
    BY <1>2, <1>3
  <2> QED
    BY <1>6, <1>7, <2>1
<1>10. a * (X * S) > (N * H) * Z
  <2>1. a * (X * S) \in Int /\ (N * H) * (a * Q) \in Int /\ (N * H) * Z \in Int
    BY <1>1, <1>2, <1>3, <1>6
  <2> QED
    BY <1>8, <1>9, <2>1
<1>11. M * (a * (X * S)) > M * ((N * H) * Z)
  <2>1. a * (X * S) \in Int /\ (N * H) * Z \in Int
    BY <1>1, <1>2, <1>3, <1>6
  <2> QED
    BY <1>2, <1>10, <2>1
<1>12. (N * Y) * S >= (M * (X * a)) * S
  <2>1. N * Y \in Int /\ M * (X * a) \in Int
    BY <1>1, <1>2, <1>3
  <2> QED
    BY <1>4, <2>1
<1>13. N * (Y * S) > N * (M * (H * Z))
  <2>1. (N * Y) * S = N * (Y * S)
    BY <1>2, <1>3
  <2>2. (M * (X * a)) * S = M * (a * (X * S))
    BY <1>1, <1>2
  <2>3. M * ((N * H) * Z) = N * (M * (H * Z))
    BY <1>2, <1>3, <1>6
  <2>4. /\ N * (Y * S) \in Int /\ M * (a * (X * S)) \in Int
        /\ N * (M * (H * Z)) \in Int
    BY <1>1, <1>2, <1>3, <1>6
  <2> QED
    BY <1>11, <1>12, <2>1, <2>2, <2>3, <2>4
<1>14. Y * S > M * (H * Z)
  <2> DEFINE y == Y * S
             z == M * (H * Z)
  <2>1. y \in Int /\ z \in Int /\ N * y > N * z
    BY <1>2, <1>6, <1>13
  <2> HIDE DEF y, z
  <2>2. y > z
    BY <1>3, <2>1
  <2> QED
    BY <2>2 DEF y, z
<1>15. H * Z = Power(h, n + 1) * (Q + E)
  BY <1>2 DEF Z
<1> QED
  BY <1>14, <1>15 DEF Exceeds, Y, M, a

\* The demand of all, with that of the tasks ahead of task l, is more than P[l].
Crowds(D, E, P) ==
  \A s \in SUBSET D : \A l \in D \ s :
    (\A j \in D : P[j] < P[l] => j \in s) => Total(E, D) + Total(E, s) > P[l]

(* Such tasks need more than the test of rm allows.  The tasks are taken   *)
(* in the order of P; with q the demand of all and of the tasks taken so   *)
(* far, the next one raises q by less than the factor (h + w) / h, and the *)
(* product of n such factors is at most the n-th power of their mean.      *)
LEMMA LiuLayland ==
  ASSUME NEW D, IsFiniteSet(D), D # {}, NEW E \in [D -> Nat], NEW P \in [D -> Nat],
         NEW w \in [D -> Nat \ {0}], NEW h \in Nat \ {0}, Total(E, D) > 0,
         \A j \in D : w[j] * P[j] = E[j] * h, Crowds(D, E, P)
  PROVE  LET n == Cardinality(D)
         IN  Power(Total(w, D) + n * h, n) > 2 * Power(n * h, n)
<1> DEFINE a == [j \in D |-> h + w[j]]
           S == Total(E, D)
           Q(s) == S + Total(E, s)
           n(s) == Cardinality(s)
           Meets(s) == Reaches(n(s), Total(a, s), h, S, Q(s))
           Beats(s) == Exceeds(n(s), Total(a, s), h, S, Q(s))
           Right(s) == Closed(D, P, s) => Meets(s) /\ (s # {} => Beats(s))
           R == {s \in SUBSET D : Right(s)}
<1>1. /\ \A j \in D : E[j] \in Nat /\ P[j] \in Nat /\ w[j] \in Nat \ {0}
      /\ \A j \in D : a[j] = h + w[j] /\ a[j] \in Nat
      /\ a \in [D -> Int] /\ E \in [D -> Int] /\ w \in [D -> Int]
  OBVIOUS
<1>2. a \in [D -> Nat]
  OBVIOUS
<1> HIDE DEF a
<1>3. \A s \in SUBSET D : n(s) \in Nat /\ IsFiniteSet(s)
  BY FS_Subset, FS_CardinalityType
<1>4. \A s \in SUBSET D : Total(E, s) \in Nat /\ Total(a, s) \in Nat /\ Q(s) \in Nat
  <2>1. \A s \in SUBSET D : Total(E, s) \in Nat
    BY TotalNat
  <2>2. \A s \in SUBSET D : Total(a, s) \in Nat
    BY <1>2, TotalNat
  <2>3. D \in SUBSET D
    OBVIOUS
  <2> QED
    BY <2>1, <2>2, <2>3
<1>5. S \in Nat \ {0}
  <2>1. D \in SUBSET D
    OBVIOUS
  <2>2. Total(E, D) \in Nat
    BY <1>4, <2>1
  <2> QED
    BY <2>2
<1>6. Total(E, {}) = 0 /\ Total(a, {}) = 0
  BY <1>1, SumFacts
<1>7. ASSUME NEW s \in SUBSET D, NEW x \in s
      PROVE  /\ Total(a, s) = a[x] + Total(a, s \ {x})
             /\ Total(E, s) = E[x] + Total(E, s \ {x})
  <2>1. Total(a, s) = a[x] + Total(a, s \ {x})
    BY <1>1, TotalTake
  <2>2. Total(E, s) = E[x] + Total(E, s \ {x})
    BY <1>1, TotalTake
  <2> QED
    BY <2>1, <2>2
<1>8. {} \in R
  <2>1. n({}) = 0
    BY FS_EmptySet
  <2>2. 0 \in Nat /\ Power(0, 0) = 1 /\ Power(h, 0) = 1
    BY PowerFacts
  <2>3. Meets({})
    <3>1. n({}) = 0 /\ Q({}) = S + 0 /\ Total(a, {}) = 0
      BY <1>6, <2>1
    <3>2. Reaches(0, 0, h, S, S + 0)
      <4> HIDE DEF S
      <4> QED
        BY <1>5, <2>2 DEF Reaches
    <3> HIDE DEF n, Q, S
    <3> QED
      BY <3>1, <3>2
  <2> HIDE DEF Meets
  <2> QED
    BY <2>3
<1>9. ASSUME NEW s \in SUBSET D, s # {}, \A x \in s : s \ {x} \in R PROVE s \in R
  <2> SUFFICES ASSUME Closed(D, P, s) PROVE Beats(s)
    <3>1. ASSUME Beats(s) PROVE Meets(s)
      <4>1. n(s) \in Nat /\ Total(a, s) \in Nat /\ Q(s) \in Nat /\ h \in Nat
        BY <1>3, <1>4
      <4> HIDE DEF n, Q, S
      <4>2. /\ Power(Total(a, s), n(s)) \in Nat /\ Power(n(s), n(s)) \in Nat
            /\ Power(h, n(s)) \in Nat
        BY <4>1, PowerFacts
      <4> QED
        BY <1>5, <3>1, <4>1, <4>2 DEF Reaches, Exceeds
    <3> HIDE DEF Meets, Beats
    <3> QED
      BY <3>1
  <2>1. PICK l \in s : \A k \in s : P[k] <= P[l]
    BY <1>9, LargestOf
  <2> DEFINE t == s \ {l}
  <2>2. t \in SUBSET D /\ l \notin t /\ l \in D
    OBVIOUS
  <2>3. Closed(D, P, t)
    <3>1. ASSUME NEW k \in t, NEW j \in D, P[j] < P[k] PROVE j \in t
      <4>1. j \in s
        BY <3>1 DEF Closed
      <4>2. P[k] <= P[l] /\ P[j] \in Nat /\ P[k] \in Nat /\ P[l] \in Nat
        BY <1>1, <2>1, <2>2
      <4>3. j # l
        BY <3>1, <4>2
      <4> QED
        BY <4>1, <4>3
    <3> QED
      BY <3>1 DEF Closed
  <2>4. Meets(t)
    <3>1. t \in R
      BY <1>9
    <3> HIDE DEF t, Meets, Beats
    <3> QED
      BY <2>3, <3>1
  <2>5. Q(t) > P[l]
    <3>1. ASSUME NEW j \in D, P[j] < P[l] PROVE j \in t
      <4>1. j \in s
        BY <2>2, <3>1 DEF Closed
      <4>2. j # l
        BY <1>1, <2>2, <3>1
      <4> QED
        BY <4>1, <4>2
    <3> HIDE DEF t
    <3> QED
      BY <2>2, <3>1 DEF Crowds
  <2>6. n(s) = n(t) + 1
    <3>1. n(t) = n(s) - 1
      BY <1>3, <2>1, FS_RemoveElement
    <3>2. n(s) \in Nat
      BY <1>3
    <3> HIDE DEF n, t
    <3> QED
      BY <3>1, <3>2
  <2>7. Total(a, s) = Total(a, t) + (h + w[l]) /\ Q(s) = Q(t) + E[l]
    <3>1. Total(a, s) = a[l] + Total(a, t) /\ Total(E, s) = E[l] + Total(E, t)
      BY <1>7
    <3>2. Total(a, t) \in Nat /\ Total(E, t) \in Nat /\ E[l] \in Nat /\ w[l] \in Nat
          /\ a[l] = h + w[l]
      BY <1>1, <1>4, <2>2
    <3> HIDE DEF t, S
    <3> QED
      BY <1>5, <3>1, <3>2
  <2>8. n(t) = 0 => Total(a, t) = 0
    <3>1. n(t) = 0 => t = {}
      BY <1>3, <2>2, FS_EmptySet
    <3> QED
      BY <1>6, <3>1
  <2>9. n(t) \in Nat /\ Total(a, t) \in Nat /\ Q(t) \in Nat
    BY <1>3, <1>4, <2>2
  <2>10. w[l] \in Nat \ {0} /\ P[l] \in Nat /\ E[l] \in Nat /\ w[l] * P[l] = E[l] * h
    BY <1>1, <2>2
  <2> DEFINE m == n(t)
             A == Total(a, t)
             q == Q(t)
  <2>11. /\ m \in Nat /\ A \in Nat /\ q \in Nat
         /\ m = 0 => A = 0
         /\ q > P[l] /\ Reaches(m, A, h, S, q)
    BY <2>4, <2>5, <2>8, <2>9
  <2>12. Beats(s) <=> Exceeds(m + 1, A + (h + w[l]), h, S, q + E[l])
    BY <2>6, <2>7
  <2> HIDE DEF m, A, q, S, Meets, Beats, n, Q, t
  <2>13. Exceeds(m + 1, A + (h + w[l]), h, S, q + E[l])
    <3>1. /\ Known(m, A, h, S, q) /\ Reaches(m, A, h, S, q)
          /\ Share(w[l], P[l], E[l], h) /\ More(q, P[l])
      <4>1. S \in Nat
        BY <1>5
      <4>2. Known(m, A, h, S, q)
        BY <2>11, <4>1 DEF Known
      <4>3. Share(w[l], P[l], E[l], h)
        BY <2>10, Zenon DEF Share
      <4> QED
        BY <2>11, <4>2, <4>3 DEF More
    <3>2. \A x, b, y : x = m + 1 /\ b = A + (h + w[l]) /\ y = q + E[l]
                       => Exceeds(x, b, h, S, y)
      BY <3>1, CrowdStep
    <3> QED
      BY <3>2, Zenon
  <2> QED
    BY <2>12, <2>13
<1> HIDE DEF R
<1>10. SUBSET D \subseteq R
  BY <1>8, <1>9, SetInduct
<1>11. Beats(D)
  <2>1. D \in R /\ Closed(D, P, D)
    BY <1>10 DEF Closed
  <2> HIDE DEF Beats, Meets
  <2> QED
    BY <2>1 DEF R
<1> DEFINE N == Cardinality(D)
<1>12. Total(a, D) = Total(w, D) + N * h
  BY <1>1, TotalRaised
<1> DEFINE X == Power(Total(w, D) + N * h, N)
           Y == Power(N * h, N)
<1>13. N \in Nat /\ N * h \in Nat /\ Total(a, D) \in Nat
  <2>1. D \in SUBSET D
    OBVIOUS
  <2>2. N \in Nat /\ Total(a, D) \in Nat
    BY <1>3, <1>4, <2>1
  <2> QED
    BY <2>2
<1>14. X \in Nat /\ Y \in Nat /\ Y = Power(N, N) * Power(h, N)
       /\ Power(N, N) \in Nat /\ Power(h, N) \in Nat
  <2>1. Total(w, D) + N * h \in Nat
    BY <1>12, <1>13
  <2> DEFINE x == Total(w, D) + N * h
             y == N * h
  <2>2. x \in Nat /\ y \in Nat /\ h \in Nat
    BY <1>13, <2>1
  <2> HIDE DEF x, y
  <2>3. /\ Power(x, N) \in Nat /\ Power(y, N) \in Nat
        /\ Power(N, N) \in Nat /\ Power(h, N) \in Nat
    BY <1>13, <2>2, PowerFacts
  <2>4. Power(N * h, N) = Power(N, N) * Power(h, N)
    BY <1>13, <2>2, PowerOfProduct
  <2> QED
    BY <2>3, <2>4 DEF x, y
<1>15. X * S > Power(N, N) * (Power(h, N) * (S + S))
  BY <1>11, <1>12 DEF Exceeds
<1> HIDE DEF X, Y, S, N
<1>16. X * S > (2 * Y) * S
  <2>1. Power(N, N) * (Power(h, N) * (S + S)) = (2 * Y) * S
    BY <1>5, <1>14
  <2> QED
    BY <1>15, <2>1
<1>17. X > 2 * Y
  BY <1>5, <1>14, <1>16
<1> QED
  BY <1>17 DEF X, Y, N

-----------------------------------------------------------------------------
(* rm: before a miss there is a busy period as long as the task's period   *)

\* The number of releases before slot s, one every p slots.
Ceil(s, p) == (s + p - 1) \div p

LEMMA CeilFacts ==
  ASSUME NEW p \in Nat \ {0}, NEW s \in Nat
  PROVE  Ceil(s, p) \in Nat /\ s <= p * Ceil(s, p) /\ p * Ceil(s, p) < s + p
<1> DEFINE k == s + p - 1
           n == k \div p
<1>1. k \in Nat
  OBVIOUS
<1> HIDE DEF k
<1>2. n \in Nat /\ p * n <= k /\ k < p * n + p
  BY <1>1, Floor
<1> HIDE DEF n
<1>3. s <= p * n /\ p * n < s + p
  <2>1. p * n \in Nat
    BY <1>2
  <2> QED
    BY <1>2, <2>1 DEF k
<1> QED
  BY <1>2, <1>3 DEF Ceil, n, k

LEMMA CeilUnique ==
  ASSUME NEW p \in Nat \ {0}, NEW s \in Nat, NEW d \in Nat, d % p = 0, s <= d, d < s + p
  PROVE  Ceil(s, p) = d \div p
<1> DEFINE n == Ceil(s, p)
           q == d \div p
<1>1. n \in Nat /\ s <= p * n /\ p * n < s + p
  BY CeilFacts
<1>2. q \in Nat /\ d = p * q
  BY Quotient
<1> HIDE DEF n, q
<1>3. ~(n <= q - 1)
  <2> SUFFICES ASSUME n <= q - 1 PROVE FALSE
    OBVIOUS
  <2>1. p * n <= p * (q - 1)
    BY <1>1, <1>2
  <2>2. p * n \in Nat /\ p * q \in Nat /\ p * (q - 1) = p * q - p
    BY <1>1, <1>2
  <2> QED
    BY <1>1, <1>2, <2>1, <2>2
<1>4. ~(q <= n - 1)
  <2> SUFFICES ASSUME q <= n - 1 PROVE FALSE
    OBVIOUS
  <2>1. p * q <= p * (n - 1)
    BY <1>1, <1>2
  <2>2. p * n \in Nat /\ p * q \in Nat /\ p * (n - 1) = p * n - p
    BY <1>1, <1>2
  <2> QED
    BY <1>1, <1>2, <2>1, <2>2
<1>5. n = q
  BY <1>1, <1>2, <1>3, <1>4
<1> QED
  BY <1>5 DEF n, q

\* Task i, and the tasks that rm may prefer to it.
Ahead(i) == {j \in Tasks : Period(j) <= Period(i)}

\* What they ask for before slot s, and what they got.
Asked(i, s) ==
  [j \in Tasks |-> IF j \in Ahead(i) THEN Execution(j) * Ceil(s, Period(j)) ELSE 0]
Served(i) == [j \in Tasks |-> IF j \in Ahead(i) THEN Done[j] ELSE 0]
ServedNow(i) == [j \in Tasks |-> IF j \in Ahead(i) THEN DoneNow[j] ELSE 0]

\* From slot t to now they had every slot, and up to last they ask for more.
BusySince(i, t, got, now, last) ==
  /\ \A j \in Tasks : Asked(i, t)[j] <= got[j]
  /\ Total(got, Tasks) = Total(Asked(i, t), Tasks) + (now - t)
  /\ \A s \in t + 1 .. last : Total(Asked(i, s), Tasks) - Total(Asked(i, t), Tasks) > s - t

BusyInv ==
  policy = "rm" /\ run /\ slot \in 1 .. hyper =>
    \A i \in Tasks : \E t \in 0 .. slot : BusySince(i, t, Served(i), slot, slot - 1)

LEMMA AskedTypes ==
  ASSUME SimIInv, NEW i \in Tasks, NEW s \in Nat
  PROVE  /\ Asked(i, s) \in [Tasks -> Nat] /\ Asked(i, s) \in [Tasks -> Int]
         /\ Total(Asked(i, s), Tasks) \in Int
<1>1. ASSUME NEW j \in Tasks PROVE Execution(j) * Ceil(s, Period(j)) \in Nat
  <2>1. Execution(j) \in Nat /\ Period(j) \in Nat \ {0}
    BY ReadyFacts
  <2>2. Ceil(s, Period(j)) \in Nat
    BY <2>1, CeilFacts
  <2> QED
    BY <2>1, <2>2
<1>2. Asked(i, s) \in [Tasks -> Nat]
  BY <1>1 DEF Asked
<1> HIDE DEF Asked
<1>3. Asked(i, s) \in [Tasks -> Int]
  BY <1>2
<1> QED
  BY <1>2, <1>3, NeedsTypes, SumFacts

\* What was asked for and is not left was served.
LEMMA ServedFacts ==
  ASSUME SimIInv, NEW i \in Tasks
  PROVE  /\ Served(i) \in [Tasks -> Int] /\ ServedNow(i) \in [Tasks -> Int]
         /\ \A j \in Tasks :
              /\ Served(i)[j] = IF j \in Ahead(i) THEN Asked(i, slot)[j] - timeLeft[j] ELSE 0
              /\ ServedNow(i)[j] =
                   IF j \in Ahead(i) THEN Asked(i, slot + 1)[j] - Ready[j] ELSE 0
              /\ j \notin Ahead(i) => Asked(i, slot)[j] = 0 /\ Asked(i, slot + 1)[j] = 0
<1>1. \A j \in Tasks : Done[j] \in Int /\ DoneNow[j] \in Int
  BY DoneTypes
<1>2. Served(i) \in [Tasks -> Int] /\ ServedNow(i) \in [Tasks -> Int]
  BY <1>1 DEF Served, ServedNow
<1>3. ASSUME NEW j \in Ahead(i)
      PROVE  /\ Done[j] = Asked(i, slot)[j] - timeLeft[j]
             /\ DoneNow[j] = Asked(i, slot + 1)[j] - Ready[j]
  <2> DEFINE p == Period(j)
             e == Execution(j)
  <2>1. j \in Tasks /\ slot \in Nat /\ p \in Nat \ {0} /\ e \in Nat
    BY ReadyFacts DEF Ahead
  <2>2. /\ DueAt(j) \in Nat /\ DueAt(j) > slot /\ DueAt(j) <= slot + p
        /\ DueAt(j) % p = 0
        /\ slot % p = 0 => DueAt(j) = slot + p
        /\ NextDeadline(j) = IF slot % p = 0 THEN slot ELSE DueAt(j)
        /\ NextDeadline(j) \in Nat
    BY <2>1, DueFacts
  <2>3. Ceil(slot + 1, p) = DueAt(j) \div p
    <3>1. slot + 1 \in Nat /\ slot + 1 <= DueAt(j) /\ DueAt(j) < (slot + 1) + p
      BY <2>1, <2>2
    <3> HIDE DEF p
    <3> QED
      BY <2>1, <2>2, <3>1, CeilUnique
  <2>4. Ceil(slot, p) = NextDeadline(j) \div p
    <3>1. /\ NextDeadline(j) % p = 0 /\ slot <= NextDeadline(j)
          /\ NextDeadline(j) < slot + p
      <4> HIDE DEF p
      <4>1. CASE slot % p = 0
        BY <2>1, <2>2, <4>1
      <4>2. CASE slot % p # 0
        <5>1. DueAt(j) # slot + p
          <6>1. slot + p = DueAt(j) => slot % p = 0
            <7>1. ASSUME DueAt(j) = slot + p PROVE slot % p = 0
              <8>1. PICK q \in Nat : DueAt(j) = p * q
                BY <2>1, <2>2, Multiple
              <8>2. slot = p * (q - 1) /\ q - 1 \in Nat
                BY <2>1, <7>1, <8>1
              <8> QED
                BY <2>1, <8>2, Multiple
            <7> QED
              BY <7>1
          <6> QED
            BY <4>2, <6>1
        <5> QED
          BY <2>1, <2>2, <4>2, <5>1
      <4> QED
        BY <4>1, <4>2
    <3> HIDE DEF p
    <3> QED
      BY <2>1, <2>2, <3>1, CeilUnique
  <2>5. /\ Done[j] = e * (NextDeadline(j) \div p) - timeLeft[j]
        /\ DoneNow[j] = e * (DueAt(j) \div p) - Ready[j]
    BY <2>1 DEF Done, DoneNow
  <2>6. Asked(i, slot)[j] = e * Ceil(slot, p) /\ Asked(i, slot + 1)[j] = e * Ceil(slot + 1, p)
    BY <2>1, <1>3 DEF Asked
  <2> QED
    BY <2>3, <2>4, <2>5, <2>6
<1>4. ASSUME NEW j \in Tasks
      PROVE  /\ Served(i)[j] = IF j \in Ahead(i) THEN Done[j] ELSE 0
             /\ ServedNow(i)[j] = IF j \in Ahead(i) THEN DoneNow[j] ELSE 0
             /\ j \notin Ahead(i) => Asked(i, slot)[j] = 0 /\ Asked(i, slot + 1)[j] = 0
  BY DEF Served, ServedNow, Asked
<1> QED
  BY <1>2, <1>3, <1>4

LEMMA BusyNow ==
  ASSUME SimIInv, BusyInv, policy = "rm", run, slot \in 1 .. hyper, NEW i \in Tasks
  PROVE  \E t \in 0 .. slot : BusySince(i, t, Served(i), slot, slot)
<1> DEFINE A(s) == Total(Asked(i, s), Tasks)
           G == Total(Served(i), Tasks)
<1>1. /\ slot \in Nat /\ IsFiniteSet(Tasks) /\ Served(i) \in [Tasks -> Int]
      /\ Asked(i, slot) \in [Tasks -> Int]
      /\ \A j \in Tasks : timeLeft[j] \in Nat
  BY ReadyFacts, NeedsTypes, ServedFacts, AskedTypes
<1>2. G \in Int /\ \A s \in Nat : A(s) \in Int
  BY <1>1, AskedTypes, SumFacts
<1>3. ASSUME NEW j \in Tasks
      PROVE  /\ Served(i)[j] = IF j \in Ahead(i) THEN Asked(i, slot)[j] - timeLeft[j] ELSE 0
             /\ j \notin Ahead(i) => Asked(i, slot)[j] = 0
             /\ Asked(i, slot)[j] \in Nat /\ timeLeft[j] \in Nat
  BY <1>1, ServedFacts, AskedTypes
<1>4. CASE \A j \in Ahead(i) : timeLeft[j] = 0
  <2>1. ASSUME NEW j \in Tasks PROVE Served(i)[j] = Asked(i, slot)[j]
    BY <1>3, <1>4
  <2>2. Served(i) = Asked(i, slot)
    BY <1>1, <2>1
  <2>3. \A j \in Tasks : Asked(i, slot)[j] <= Served(i)[j]
    BY <1>3, <2>1
  <2>4. G = A(slot) + (slot - slot)
    <3>1. slot - slot = 0
      BY <1>1
    <3>2. A(slot) \in Int
      BY <1>1, <1>2
    <3>3. G = A(slot)
      BY <2>2
    <3> HIDE DEF A, G
    <3> QED
      BY <3>1, <3>2, <3>3
  <2>5. slot + 1 .. slot = {} /\ slot \in 0 .. slot
    BY <1>1
  <2>6. BusySince(i, slot, Served(i), slot, slot)
    BY <2>3, <2>4, <2>5, Zenon DEF BusySince
  <2> QED
    BY <2>5, <2>6
<1>5. ASSUME NEW k \in Ahead(i), timeLeft[k] # 0
      PROVE  \E t \in 0 .. slot : BusySince(i, t, Served(i), slot, slot)
  <2>1. PICK t \in 0 .. slot : BusySince(i, t, Served(i), slot, slot - 1)
    BY DEF BusyInv
  <2>2. /\ \A j \in Tasks : Asked(i, t)[j] <= Served(i)[j]
        /\ G = A(t) + (slot - t)
        /\ \A s \in t + 1 .. slot - 1 : A(s) - A(t) > s - t
    BY <2>1 DEF BusySince
  <2>3. G + 1 <= A(slot)
    <3>1. k \in Tasks
      BY DEF Ahead
    <3>2. \A j \in Tasks : Served(i)[j] <= Asked(i, slot)[j]
      BY <1>3
    <3>3. Served(i)[k] + 1 <= Asked(i, slot)[k]
      BY <1>3, <1>5, <3>1
    <3> QED
      BY <1>1, <3>1, <3>2, <3>3, TotalMore
  <2> HIDE DEF A, G
  <2>4. ASSUME NEW s \in t + 1 .. slot PROVE A(s) - A(t) > s - t
    <3>1. t \in Nat /\ s \in Nat
      BY <1>1, <2>1
    <3>2. CASE s = slot
      <4>1. A(t) \in Int /\ A(slot) \in Int
        BY <1>1, <1>2, <3>1
      <4>2. A(slot) - A(t) > slot - t
        BY <1>1, <1>2, <2>2, <2>3, <3>1, <4>1
      <4> QED
        BY <3>2, <4>2
    <3>3. CASE s # slot
      <4>1. s \in t + 1 .. slot - 1
        BY <1>1, <2>4, <3>1, <3>3
      <4> QED
        BY <2>2, <4>1
    <3> QED
      BY <3>2, <3>3
  <2>5. BusySince(i, t, Served(i), slot, slot)
    BY <2>2, <2>4, Zenon DEF BusySince, A, G
  <2> QED
    BY <2>1, <2>5
<1> QED
  BY <1>4, <1>5

\* In the first slot nothing was asked for yet.
LEMMA BusyAtStart ==
  ASSUME SimIInv, slot = 0, NEW i \in Tasks
  PROVE  BusySince(i, 0, ServedNow(i), 0, 0)
<1>1. ASSUME NEW j \in Tasks PROVE Asked(i, 0)[j] = 0 /\ ServedNow(i)[j] = 0
  <2>1. Period(j) \in Nat \ {0} /\ Execution(j) \in Nat
    BY ReadyFacts
  <2>2. Ceil(0, Period(j)) = 0
    <3>1. 0 + Period(j) - 1 \in 0 .. Period(j) - 1
      BY <2>1
    <3> QED
      BY <2>1, <3>1, FloorZero DEF Ceil
  <2>3. Execution(j) * 0 = 0
    BY <2>1
  <2>4. DoneNow[j] = 0
    BY DoneNothing
  <2> QED
    BY <2>2, <2>3, <2>4 DEF Asked, ServedNow
<1>2. Asked(i, 0) = ServedNow(i)
  BY <1>1 DEF Asked, ServedNow
<1>3. Total(Asked(i, 0), Tasks) \in Int
  BY AskedTypes
<1>4. Total(ServedNow(i), Tasks) = Total(Asked(i, 0), Tasks) + (0 - 0)
  BY <1>2, <1>3
<1>5. \A j \in Tasks : Asked(i, 0)[j] <= ServedNow(i)[j]
  BY <1>1
<1>6. 0 + 1 .. 0 = {}
  OBVIOUS
<1> QED
  BY <1>4, <1>5, <1>6, Zenon DEF BusySince

LEMMA BusyAfterReleases ==
  ASSUME SimIInv, BusyInv, policy = "rm", run, slot \in 0 .. hyper, MissedNow = {},
         NEW i \in Tasks
  PROVE  \E t \in 0 .. slot : BusySince(i, t, ServedNow(i), slot, slot)
<1>1. slot \in Nat /\ hyper \in Nat
  BY ReadyFacts
<1>2. CASE slot = 0
  <2>1. BusySince(i, slot, ServedNow(i), slot, slot) /\ slot \in 0 .. slot
    BY <1>1, <1>2, BusyAtStart
  <2> QED
    BY <2>1
<1>3. CASE slot # 0
  <2>1. slot \in 1 .. hyper
    BY <1>1, <1>3
  <2>2. Served(i) = ServedNow(i)
    BY <1>3, DoneAtReleases DEF Served, ServedNow
  <2> QED
    BY <2>1, <2>2, BusyNow
<1> QED
  BY <1>2, <1>3

\* The slot goes to one of the tasks, or they have nothing left.
LEMMA BusyTurn ==
  ASSUME SimIInv, policy = "rm", NEW x, WorkTurn(x), MostUrgent(x), NEW i \in Tasks,
         NEW t \in 0 .. slot, BusySince(i, t, ServedNow(i), slot, slot)
  PROVE  \E u \in 0 .. slot + 1 : BusySince(i, u, Served(i)', slot + 1, slot)
<1> DEFINE f == ServedNow(i)
           g == Served(i)'
           B == Asked(i, slot + 1)
<1>1. /\ slot \in Nat /\ IsFiniteSet(Tasks) /\ None \notin Tasks
      /\ x \in Tasks \cup {None} /\ (x # None => Ready[x] # 0)
      /\ \A j \in Tasks : Ready[j] \in Nat /\ Period(j) \in Nat \ {0}
  BY NeedsTypes, ReadyFacts DEF WorkTurn
<1>2. f \in [Tasks -> Int] /\ \A j \in Tasks : f[j] \in Int
  BY ServedFacts
<1>3. B \in [Tasks -> Int] /\ Total(B, Tasks) \in Int /\ \A j \in Tasks : B[j] \in Nat
  BY <1>1, AskedTypes
<1>4. ASSUME NEW j \in Tasks
      PROVE  f[j] = IF j \in Ahead(i) THEN B[j] - Ready[j] ELSE 0
  BY ServedFacts
<1>5. Tasks' = Tasks /\ Ahead(i)' = Ahead(i)
  BY WorkTurnFacts DEF Ahead
<1>6. ASSUME NEW j \in Tasks
      PROVE  g[j] = IF j \in Ahead(i) /\ j = x THEN f[j] + 1 ELSE f[j]
  <2>1. /\ Execution(j)' = Execution(j) /\ Period(j)' = Period(j)
        /\ NextDeadline(j)' = DueAt(j)
        /\ timeLeft'[j] = IF j = x THEN Ready[j] - 1 ELSE Ready[j]
    BY WorkTurnFacts
  <2>2. Done'[j] = Execution(j) * (DueAt(j) \div Period(j)) - timeLeft'[j]
    BY <1>5, <2>1 DEF Done
  <2>3. DoneNow[j] = Execution(j) * (DueAt(j) \div Period(j)) - Ready[j]
    BY DEF DoneNow
  <2>4. Execution(j) * (DueAt(j) \div Period(j)) \in Nat
    <3>1. Execution(j) \in Nat /\ DueAt(j) \div Period(j) \in Nat
      BY ReadyFacts, DoneTypes
    <3> QED
      BY <3>1
  <2>5. Done'[j] = IF j = x THEN DoneNow[j] + 1 ELSE DoneNow[j]
    BY <1>1, <2>1, <2>2, <2>3, <2>4
  <2>6. g[j] = IF j \in Ahead(i) THEN Done'[j] ELSE 0
    BY <1>5 DEF Served
  <2>7. f[j] = IF j \in Ahead(i) THEN DoneNow[j] ELSE 0
    BY DEF ServedNow
  <2> HIDE DEF f, g
  <2> QED
    BY <2>5, <2>6, <2>7
<1>7. g = [j \in Tasks |-> g[j]]
  BY <1>5 DEF Served
<1>8. /\ \A j \in Tasks : Asked(i, t)[j] <= f[j]
      /\ Total(f, Tasks) = Total(Asked(i, t), Tasks) + (slot - t)
      /\ \A s \in t + 1 .. slot : Total(Asked(i, s), Tasks) - Total(Asked(i, t), Tasks) > s - t
  BY DEF BusySince
<1>9. /\ Total(Asked(i, t), Tasks) \in Int /\ \A j \in Tasks : Asked(i, t)[j] \in Int
      /\ t \in Nat /\ t \in 0 .. slot + 1
  <2>1. t \in Nat /\ t \in 0 .. slot + 1
    BY <1>1
  <2> QED
    BY <2>1, AskedTypes
<1> HIDE DEF f, g, B
<1>10. CASE x \in Ahead(i)
  <2>1. x \in Tasks
    BY <1>10 DEF Ahead
  <2>2. \A j \in Tasks : g[j] = IF j = x THEN f[j] + 1 ELSE f[j]
    BY <1>6, <1>10
  <2>3. g \in [Tasks -> Int] /\ \A j \in Tasks : f[j] = IF j = x THEN g[j] - 1 ELSE g[j]
    <3>1. \A j \in Tasks : g[j] \in Int
      BY <1>2, <2>2
    <3> QED
      BY <1>2, <1>7, <2>2, <3>1
  <2>4. Total(f, Tasks) = Total(g, Tasks) - 1
    BY <1>1, <1>2, <2>1, <2>3, TotalSpend
  <2>5. Total(g, Tasks) \in Int
    BY <1>1, <2>3, SumFacts
  <2>6. Total(g, Tasks) = Total(Asked(i, t), Tasks) + ((slot + 1) - t)
    BY <1>1, <1>8, <1>9, <2>4, <2>5
  <2>7. \A j \in Tasks : Asked(i, t)[j] <= g[j]
    BY <1>2, <1>8, <1>9, <2>2
  <2>8. BusySince(i, t, g, slot + 1, slot)
    BY <1>8, <2>6, <2>7, Zenon DEF BusySince
  <2> QED
    BY <1>9, <2>8 DEF g
<1>11. CASE x \notin Ahead(i)
  <2>1. ASSUME NEW k \in Ahead(i) PROVE Ready[k] = 0
    <3> SUFFICES ASSUME Ready[k] # 0 PROVE FALSE
      OBVIOUS
    <3>1. k \in Tasks /\ Period(k) <= Period(i)
      BY DEF Ahead
    <3>2. k \in Unfinished
      BY <3>1 DEF Unfinished
    <3>3. x \in Tasks /\ Period(x) <= Period(k)
      BY <3>2 DEF MostUrgent, UrgencyNow, Unfinished
    <3>4. Period(x) <= Period(i)
      BY <1>1, <3>1, <3>3
    <3> QED
      BY <1>11, <3>3, <3>4 DEF Ahead
  <2>2. ASSUME NEW j \in Tasks PROVE g[j] = B[j]
    <3>1. g[j] = f[j]
      BY <1>6, <1>11
    <3>2. CASE j \in Ahead(i)
      BY <1>1, <1>3, <1>4, <2>1, <3>1, <3>2
    <3>3. CASE j \notin Ahead(i)
      <4>1. B[j] = 0
        BY <3>3, ServedFacts DEF B
      <4> QED
        BY <1>4, <3>1, <3>3, <4>1
    <3> QED
      BY <3>2, <3>3
  <2>3. g = B
    BY <1>3, <1>7, <2>2
  <2>4. Total(g, Tasks) = Total(B, Tasks) + ((slot + 1) - (slot + 1))
    BY <1>1, <1>3, <2>3
  <2>5. \A j \in Tasks : B[j] <= g[j]
    BY <1>3, <2>2
  <2>6. slot + 1 + 1 .. slot = {} /\ slot + 1 \in 0 .. slot + 1
    BY <1>1
  <2>7. BusySince(i, slot + 1, g, slot + 1, slot)
    BY <2>4, <2>5, <2>6, Zenon DEF BusySince, B
  <2> QED
    BY <2>6, <2>7 DEF g
<1> QED
  BY <1>10, <1>11

LEMMA BusyStep ==
  ASSUME SimIInv, TurnOf, BusyInv
  PROVE  BusyInv'
<1> SUFFICES ASSUME policy' = "rm", run', slot' \in 1 .. hyper', NEW i \in Tasks'
             PROVE  \E t \in 0 .. slot' : BusySince(i, t, Served(i), slot, slot - 1)'
  BY DEF BusyInv
<1>1. /\ run /\ slot \in 0 .. hyper /\ slot' = slot + 1 /\ UNCHANGED input
      /\ MissedNow # {} => run' = FALSE
      /\ slot < hyper /\ MissedNow = {} => \E x : WorkTurn(x) /\ MostUrgent(x)
  BY DEF TurnOf
<1>2. slot \in Nat /\ hyper \in Nat /\ hyper' = hyper /\ policy = "rm" /\ i \in Tasks
  BY <1>1, ReadyFacts, TestStays
<1>3. slot < hyper /\ MissedNow = {}
  BY <1>1, <1>2
<1>4. PICK x : WorkTurn(x) /\ MostUrgent(x)
  BY <1>1, <1>3
<1>5. PICK t \in 0 .. slot : BusySince(i, t, ServedNow(i), slot, slot)
  BY <1>1, <1>2, <1>3, BusyAfterReleases
<1>6. PICK u \in 0 .. slot + 1 : BusySince(i, u, Served(i)', slot + 1, slot)
  BY <1>2, <1>4, <1>5, BusyTurn
<1>7. (slot - 1)' = slot
  BY <1>1, <1>2
<1>8. BusySince(i, u, Served(i), slot, slot - 1)'
        <=> BusySince(i, u, Served(i)', slot', (slot - 1)')
  BY <1>1 DEF input, BusySince, Asked, Ahead, Tasks, Execution, Period
<1> QED
  BY <1>1, <1>6, <1>7, <1>8

\* In every part of a period of task i more is asked for than there are slots.
Late(i) ==
  \E t \in Nat : \A x \in 1 .. Period(i) :
    Total(Asked(i, t + x), Tasks) - Total(Asked(i, t), Tasks) > x

LEMMA MissIsLate ==
  ASSUME SimIInv, BusyInv, policy = "rm", run, slot \in 1 .. hyper, NEW i \in MissedNow
  PROVE  i \in Tasks /\ Late(i)
<1> DEFINE p == Period(i)
           e == Execution(i)
           q == slot \div p
<1>1. /\ i \in Tasks /\ slot \in Nat /\ slot % p = 0 /\ timeLeft[i] # 0
      /\ p \in Nat \ {0} /\ e \in Nat \ {0} /\ timeLeft[i] \in Nat
  BY ReadyFacts DEF MissedNow
<1>2. q \in Nat /\ slot = p * q
  BY <1>1, Quotient
<1>3. PICK t \in 0 .. slot : BusySince(i, t, Served(i), slot, slot)
  BY <1>1, BusyNow
<1>4. t \in Nat
  BY <1>1
<1>5. i \in Ahead(i)
  BY <1>1 DEF Ahead
<1> DEFINE n == Ceil(t, p)
<1>6. n \in Nat /\ t <= p * n
  BY <1>1, <1>4, CeilFacts
<1>7. Asked(i, t)[i] = e * n
  BY <1>1, <1>5 DEF Asked
<1>8. Served(i)[i] = e * q - timeLeft[i]
  <2>1. Served(i)[i] = Asked(i, slot)[i] - timeLeft[i]
    BY <1>1, <1>5, ServedFacts
  <2>2. Asked(i, slot)[i] = e * Ceil(slot, p)
    BY <1>1, <1>5 DEF Asked
  <2>3. Ceil(slot, p) = q
    <3>1. slot <= slot /\ slot < slot + p
      BY <1>1
    <3> HIDE DEF p
    <3> QED
      BY <1>1, <3>1, CeilUnique
  <2> QED
    BY <2>1, <2>2, <2>3
<1>9. Asked(i, t)[i] <= Served(i)[i]
  BY <1>1, <1>3 DEF BusySince
<1> HIDE DEF e, n, q, p
<1>10. n < q
  <2> SUFFICES ASSUME n >= q PROVE FALSE
    BY <1>2, <1>6
  <2>1. e * n >= e * q /\ e * n \in Nat /\ e * q \in Nat
    BY <1>1, <1>2, <1>6
  <2> QED
    BY <1>1, <1>7, <1>8, <1>9, <2>1
<1>11. t + p <= slot
  <2>1. p * n <= p * (q - 1)
    BY <1>1, <1>2, <1>6, <1>10
  <2>2. p * (q - 1) = p * q - p /\ p * n \in Nat /\ p * q \in Nat
    BY <1>1, <1>2, <1>6
  <2> QED
    BY <1>1, <1>2, <1>4, <1>6, <2>1, <2>2
<1>12. ASSUME NEW x \in 1 .. p
       PROVE  Total(Asked(i, t + x), Tasks) - Total(Asked(i, t), Tasks) > x
  <2>1. t + x \in t + 1 .. slot /\ (t + x) - t = x
    BY <1>1, <1>4, <1>11
  <2>2. Total(Asked(i, t + x), Tasks) - Total(Asked(i, t), Tasks) > (t + x) - t
    BY <1>3, <2>1 DEF BusySince
  <2> QED
    BY <2>1, <2>2
<1> QED
  BY <1>1, <1>4, <1>12 DEF Late, p

\* The jobs of the tasks ahead of i that end within a period of i, if all its
\* slots are full: the work of all of them, and the last of their releases.
AllWork(i) ==
  [j \in Tasks |->
     IF j \in Ahead(i) THEN Execution(j) * (Period(i) \div Period(j)) ELSE 0]
LastRelease(i) ==
  [j \in Tasks |-> IF j \in Ahead(i) THEN Period(j) * (Period(i) \div Period(j)) ELSE 0]

LEMMA WorkFacts ==
  ASSUME SimIInv, NEW i \in Tasks
  PROVE  /\ AllWork(i) \in [Tasks -> Nat] /\ LastRelease(i) \in [Tasks -> Nat]
         /\ Needs \in [Tasks -> Nat \ {0}] /\ Total(AllWork(i), Tasks) > 0
         /\ \A j \in Tasks : /\ Needs[j] * LastRelease(i)[j] = AllWork(i)[j] * hyper
                             /\ LastRelease(i)[j] <= Period(i)
<1>1. /\ IsFiniteSet(Tasks) /\ hyper \in Nat \ {0}
      /\ \A j \in Tasks : /\ Execution(j) \in Nat \ {0} /\ Period(j) \in Nat \ {0}
                          /\ hyper \div Period(j) \in Nat
                          /\ hyper = Period(j) * (hyper \div Period(j))
  BY ReadyFacts, NeedsTypes
<1>2. ASSUME NEW j \in Tasks
      PROVE  LET e == Execution(j)
                 p == Period(j)
                 q == hyper \div Period(j)
                 k == Period(i) \div Period(j)
             IN  /\ k \in Nat /\ p * k <= Period(i) /\ p * k \in Nat /\ e * k \in Nat
                 /\ e * q \in Nat \ {0} /\ (e * q) * (p * k) = (e * k) * hyper
                 /\ Needs[j] = e * q
  <2> DEFINE e == Execution(j)
             p == Period(j)
             q == hyper \div Period(j)
             k == Period(i) \div Period(j)
  <2>1. /\ e \in Nat \ {0} /\ p \in Nat \ {0} /\ q \in Nat /\ hyper = p * q
        /\ Period(i) \in Nat
    BY <1>1
  <2>2. k \in Nat /\ p * k <= Period(i)
    BY <2>1, Floor
  <2>3. Needs[j] = e * q
    BY DEF Needs
  <2> HIDE DEF e, p, q, k
  <2>4. q # 0
    BY <1>1, <2>1
  <2>5. p * k \in Nat /\ e * k \in Nat /\ e * q \in Nat \ {0}
    BY <2>1, <2>2, <2>4
  <2>6. (e * q) * (p * k) = (e * k) * hyper
    BY <2>1, <2>2
  <2> QED
    BY <2>2, <2>3, <2>5, <2>6 DEF e, p, q, k
<1>3. AllWork(i) \in [Tasks -> Nat] /\ LastRelease(i) \in [Tasks -> Nat]
  BY <1>2 DEF AllWork, LastRelease
<1>4. Needs \in [Tasks -> Nat \ {0}]
  <2>1. \A j \in Tasks : Needs[j] \in Nat \ {0}
    BY <1>2
  <2> QED
    BY <2>1 DEF Needs
<1>5. ASSUME NEW j \in Tasks
      PROVE  /\ Needs[j] * LastRelease(i)[j] = AllWork(i)[j] * hyper
             /\ LastRelease(i)[j] <= Period(i)
  <2>1. CASE j \in Ahead(i)
    <3>1. /\ AllWork(i)[j] = Execution(j) * (Period(i) \div Period(j))
          /\ LastRelease(i)[j] = Period(j) * (Period(i) \div Period(j))
      BY <2>1 DEF AllWork, LastRelease
    <3> QED
      BY <1>2, <3>1
  <2>2. CASE j \notin Ahead(i)
    <3>1. AllWork(i)[j] = 0 /\ LastRelease(i)[j] = 0
      BY <2>2 DEF AllWork, LastRelease
    <3>2. Needs[j] \in Nat /\ hyper \in Nat /\ Period(i) \in Nat
      BY <1>1, <1>4
    <3> QED
      BY <3>1, <3>2
  <2> QED
    BY <2>1, <2>2
<1>6. Total(AllWork(i), Tasks) > 0
  <2> DEFINE f == AllWork(i)
             z == [j \in Tasks |-> 0]
  <2>1. f[i] >= 1
    <3> DEFINE e == Execution(i)
               p == Period(i)
    <3>1. e \in Nat \ {0} /\ p \in Nat \ {0} /\ i \in Ahead(i)
      BY <1>1 DEF Ahead
    <3>2. f[i] = e * (p \div p)
      BY <3>1 DEF AllWork
    <3> HIDE DEF e, p, f
    <3>3. p \div p = 1
      <4>1. 0 \in Nat /\ 0 \in 0 .. p - 1
        BY <3>1
      <4>2. 0 \div p = 0 /\ (0 + p) \div p = (0 \div p) + 1
        BY <3>1, <4>1, FloorZero, FloorNext
      <4>3. 0 + p = p
        BY <3>1
      <4> QED
        BY <4>2, <4>3
    <3> QED
      BY <3>1, <3>2, <3>3
  <2>2. f \in [Tasks -> Nat]
    BY <1>3
  <2> HIDE DEF f
  <2>3. /\ f \in [Tasks -> Int] /\ z \in [Tasks -> Int]
        /\ \A j \in Tasks : z[j] = 0 /\ z[j] <= f[j]
        /\ z[i] + 1 <= f[i]
    BY <2>1, <2>2
  <2> HIDE DEF z
  <2>4. Total(z, Tasks) + 1 <= Total(f, Tasks)
    BY <1>1, <2>3, TotalMore
  <2>5. Total(z, Tasks) = 0
    BY <1>1, <2>3, TotalZero
  <2>6. Total(f, Tasks) \in Int
    BY <1>1, <2>3, SumFacts
  <2> QED
    BY <2>4, <2>5, <2>6 DEF f
<1> QED
  BY <1>3, <1>4, <1>5, <1>6

\* In x slots, p apart, there are at most k releases if x is up to p * k.
LEMMA ReleasesWithin ==
  ASSUME NEW p \in Nat \ {0}, NEW t \in Nat, NEW x \in Nat, NEW k \in Nat, x <= p * k
  PROVE  Ceil(t + x, p) - Ceil(t, p) <= k
<1> DEFINE m == Ceil(t + x, p)
           n == Ceil(t, p)
           y == t + x
<1>1. y \in Nat /\ m \in Nat /\ p * m < y + p /\ n \in Nat /\ t <= p * n
  <2>1. y \in Nat
    OBVIOUS
  <2> HIDE DEF y
  <2> QED
    BY <2>1, CeilFacts DEF y
<1>2. p * m < p * n + p * k + p
  <2>1. p * m \in Nat /\ p * n \in Nat /\ p * k \in Nat
    BY <1>1
  <2> HIDE DEF m, n
  <2> QED
    BY <1>1, <2>1
<1> HIDE DEF m, n, y
<1>3. ~(m >= n + k + 1)
  <2> SUFFICES ASSUME m >= n + k + 1 PROVE FALSE
    OBVIOUS
  <2>1. p * m >= p * (n + k + 1)
    BY <1>1
  <2>2. p * (n + k + 1) = p * n + p * k + p /\ p * m \in Nat /\ p * n \in Nat /\ p * k \in Nat
    BY <1>1
  <2> QED
    BY <1>2, <2>1, <2>2
<1>4. m - n <= k
  BY <1>1, <1>3
<1> QED
  BY <1>4 DEF m, n

LEMMA LateCrowds ==
  ASSUME SimIInv, NEW i \in Tasks, Late(i)
  PROVE  Crowds(Tasks, AllWork(i), LastRelease(i))
<1> DEFINE E == AllWork(i)
           P == LastRelease(i)
<1> SUFFICES ASSUME NEW s \in SUBSET Tasks, NEW l \in Tasks \ s,
                    \A j \in Tasks : P[j] < P[l] => j \in s
             PROVE  Total(E, Tasks) + Total(E, s) > P[l]
  BY DEF Crowds
<1>1. /\ IsFiniteSet(Tasks) /\ E \in [Tasks -> Nat] /\ Total(E, Tasks) > 0
      /\ \A j \in Tasks : P[j] \in Nat /\ P[j] <= Period(i)
      /\ \A j \in Tasks : E[j] \in Nat
  BY NeedsTypes, WorkFacts
<1>2. E \in [Tasks -> Int]
  BY <1>1
<1>3. Total(E, Tasks) \in Nat /\ Total(E, s) \in Nat
  BY <1>1, TotalNat
<1>4. CASE P[l] = 0
  <2> HIDE DEF E, P
  <2> QED
    BY <1>1, <1>3, <1>4
<1>5. CASE P[l] # 0
  <2> DEFINE x == P[l]
  <2>1. x \in 1 .. Period(i) /\ x \in Nat /\ Period(i) \in Nat \ {0} /\ l \in Tasks
    BY <1>1, <1>5, ReadyFacts
  <2> HIDE DEF E, P, x
  <2>2. PICK t \in Nat : Total(Asked(i, t + x), Tasks) - Total(Asked(i, t), Tasks) > x
    BY <2>1 DEF Late
  <2> DEFINE f == Asked(i, t)
             g == Asked(i, t + x)
             d == [j \in Tasks |-> g[j] - f[j]]
             O == [j \in Tasks |-> IF j \in s THEN E[j] ELSE 0]
             B == [j \in Tasks |-> E[j] + O[j]]
  <2>3. /\ f \in [Tasks -> Int] /\ g \in [Tasks -> Int]
        /\ Total(f, Tasks) \in Int /\ Total(g, Tasks) \in Int
    <3>1. t + x \in Nat
      BY <2>1
    <3> QED
      BY <3>1, AskedTypes
  <2>4. ASSUME NEW j \in Tasks PROVE g[j] - f[j] <= E[j] + (IF j \in s THEN E[j] ELSE 0)
    <3>1. CASE j \notin Ahead(i)
      <4>1. f[j] = 0 /\ g[j] = 0
        BY <3>1 DEF Asked
      <4> QED
        BY <1>1, <4>1
    <3>2. CASE j \in Ahead(i)
      <4> DEFINE e == Execution(j)
                 p == Period(j)
                 k == Period(i) \div p
                 m == Ceil(t + x, p)
                 n == Ceil(t, p)
      <4>1. e \in Nat /\ p \in Nat \ {0} /\ p <= Period(i)
        BY <3>2, ReadyFacts DEF Ahead
      <4>2. k \in Nat /\ Period(i) < p * k + p
        BY <2>1, <4>1, Floor
      <4>3. m \in Nat /\ n \in Nat
        <5>1. t + x \in Nat
          BY <2>1
        <5> HIDE DEF p
        <5> QED
          BY <4>1, <5>1, CeilFacts
      <4>4. f[j] = e * n /\ g[j] = e * m /\ E[j] = e * k /\ P[j] = p * k
        BY <3>2 DEF Asked, AllWork, LastRelease, E, P
      <4> HIDE DEF e, p, k, f, g
      <4>5. k >= 1
        <5> SUFFICES ASSUME k = 0 PROVE FALSE
          BY <4>2
        <5>1. p * k = 0
          BY <4>1
        <5> QED
          BY <2>1, <4>1, <4>2, <5>1
      <4>6. g[j] - f[j] = e * (m - n)
        <5> HIDE DEF m, n
        <5> QED
          BY <4>1, <4>3, <4>4
      <4>7. CASE j \in s
        <5>1. x <= p * (k + 1) /\ k + 1 \in Nat
          <6>1. p * (k + 1) = p * k + p /\ p * k \in Nat
            BY <4>1, <4>2
          <6> QED
            BY <2>1, <4>1, <4>2, <6>1
        <5>2. m - n <= k + 1
          BY <2>1, <4>1, <5>1, ReleasesWithin
        <5> HIDE DEF m, n
        <5>3. m - n <= k + k
          BY <4>2, <4>3, <4>5, <5>2
        <5>4. e * (m - n) <= e * (k + k)
          BY <4>1, <4>2, <4>3, <5>3
        <5>5. e * (k + k) = e * k + e * k
          BY <4>1, <4>2
        <5> QED
          BY <4>4, <4>6, <4>7, <5>4, <5>5
      <4>8. CASE j \notin s
        <5>1. ~(P[j] < P[l])
          BY <4>8 DEF P
        <5>2. x <= p * k
          BY <1>1, <2>1, <4>4, <5>1 DEF x
        <5>3. m - n <= k
          BY <2>1, <4>1, <4>2, <5>2, ReleasesWithin
        <5> HIDE DEF m, n
        <5>4. e * (m - n) <= e * k /\ e * k \in Nat
          BY <4>1, <4>2, <4>3, <5>3
        <5> QED
          BY <4>4, <4>6, <4>8, <5>4
      <4> QED
        BY <4>7, <4>8
    <3> QED
      BY <3>1, <3>2
  <2> HIDE DEF f, g
  <2>5. \A j \in Tasks : f[j] \in Int /\ g[j] \in Int /\ E[j] \in Int
    BY <1>1, <2>3
  <2>6. /\ d \in [Tasks -> Int] /\ O \in [Tasks -> Int] /\ B \in [Tasks -> Int]
        /\ \A j \in Tasks : g[j] = f[j] + d[j]
        /\ \A j \in Tasks : O[j] = IF j \in s THEN E[j] ELSE 0
        /\ \A j \in Tasks : B[j] = E[j] + O[j]
        /\ \A j \in Tasks : d[j] <= B[j]
    BY <2>4, <2>5
  <2> HIDE DEF d, O, B
  <2>7. Total(g, Tasks) = Total(f, Tasks) + Total(d, Tasks)
    <3>1. /\ IsFiniteSet(Tasks) /\ f \in [Tasks -> Int] /\ d \in [Tasks -> Int]
          /\ g \in [Tasks -> Int] /\ \A j \in Tasks : g[j] = f[j] + d[j]
      BY <1>1, <2>3, <2>6
    <3>2. \A u \in SUBSET Tasks : Total(g, u) = Total(f, u) + Total(d, u)
      BY <3>1, TotalPlus
    <3> QED
      BY <3>2
  <2>8. Total(B, Tasks) = Total(E, Tasks) + Total(O, Tasks)
    <3>1. /\ IsFiniteSet(Tasks) /\ O \in [Tasks -> Int] /\ B \in [Tasks -> Int]
          /\ \A j \in Tasks : B[j] = E[j] + O[j]
      BY <1>1, <2>6
    <3>2. \A u \in SUBSET Tasks : Total(B, u) = Total(E, u) + Total(O, u)
      BY <1>2, <3>1, TotalPlus
    <3> QED
      BY <3>2
  <2>9. Total(O, Tasks) = Total(E, s)
    <3>1. /\ IsFiniteSet(Tasks) /\ O \in [Tasks -> Int]
          /\ \A j \in Tasks : O[j] = IF j \in s THEN E[j] ELSE 0
      BY <1>1, <2>6
    <3> QED
      BY <1>2, <3>1, TotalOnly
  <2>10. Total(d, Tasks) <= Total(B, Tasks)
    BY <1>1, <2>6, TotalLess
  <2>11. Total(d, Tasks) \in Int
    BY <1>1, <2>6, SumFacts
  <2>12. Total(E, Tasks) + Total(E, s) > x
    BY <1>3, <2>1, <2>2, <2>3, <2>7, <2>8, <2>9, <2>10, <2>11 DEF f, g
  <2> QED
    BY <2>12 DEF x
<1> QED
  BY <1>4, <1>5

(* Late tasks are so by a whole unit of work: what they ask for exceeds    *)
(* the release by one at least, which is more than a part in Precision of  *)
(* it.                                                                     *)
LEMMA LateByAUnit ==
  ASSUME SimIInv, NEW i \in Tasks, Late(i)
  PROVE  Crowds(Tasks, [j \in Tasks |-> (Precision - 1) * AllWork(i)[j]],
                       [j \in Tasks |-> Precision * LastRelease(i)[j]])
<1> DEFINE A == AllWork(i)
           L == LastRelease(i)
           c == Precision - 1
           E == [j \in Tasks |-> c * A[j]]
           P == [j \in Tasks |-> Precision * L[j]]
<1>1. /\ IsFiniteSet(Tasks) /\ A \in [Tasks -> Nat] /\ L \in [Tasks -> Nat]
      /\ \A j \in Tasks : L[j] <= Period(i)
      /\ Period(i) \in Nat /\ Period(i) + 2 <= Precision
      /\ Precision \in Nat /\ c \in Nat \ {0} /\ Precision = c + 1
  <2>1. IsFiniteSet(Tasks) /\ A \in [Tasks -> Nat] /\ L \in [Tasks -> Nat]
    BY NeedsTypes, WorkFacts
  <2>2. \A j \in Tasks : L[j] <= Period(i)
    BY WorkFacts
  <2>3. Precision \in Nat /\ Period(i) \in Nat /\ Period(i) + 2 <= Precision
    BY PrecisionFacts, ReadyFacts
  <2>4. Precision - 1 \in Nat \ {0} /\ Precision = (Precision - 1) + 1
    BY <2>3
  <2> QED
    BY <2>1, <2>2, <2>3, <2>4
<1>2. Crowds(Tasks, A, L)
  BY LateCrowds
<1>3. Crowds(Tasks, E, P) => Crowds(Tasks,
          [j \in Tasks |-> (Precision - 1) * AllWork(i)[j]],
          [j \in Tasks |-> Precision * LastRelease(i)[j]])
  OBVIOUS
<1> HIDE DEF A, L, c
<1>4. /\ IsFiniteSet(Tasks)
      /\ A \in [Tasks -> Int] /\ E \in [Tasks -> Int] /\ c \in Int
      /\ \A j \in Tasks : E[j] = c * A[j] /\ P[j] = Precision * L[j]
  BY <1>1
<1> HIDE DEF E, P
<1>5. \A s \in SUBSET Tasks : Total(E, s) = c * Total(A, s)
  BY <1>4, TotalTimes
<1>6. \A s \in SUBSET Tasks : Total(A, s) \in Nat
  BY <1>1, TotalNat
<1> SUFFICES ASSUME NEW s \in SUBSET Tasks, NEW l \in Tasks \ s,
                    \A j \in Tasks : P[j] < P[l] => j \in s
             PROVE  Total(E, Tasks) + Total(E, s) > P[l]
  BY <1>3 DEF Crowds
<1>7. \A j \in Tasks : L[j] < L[l] => j \in s
  <2>1. ASSUME NEW j \in Tasks, L[j] < L[l] PROVE P[j] < P[l]
    <3>1. L[j] \in Nat /\ L[l] \in Nat /\ Precision \in Nat \ {0}
      BY <1>1
    <3>2. Precision * L[j] < Precision * L[l]
      BY <2>1, <3>1
    <3> QED
      BY <1>4, <3>2
  <2> QED
    BY <2>1
<1>8. Total(A, Tasks) + Total(A, s) > L[l]
  BY <1>2, <1>7 DEF Crowds
<1>9. PICK a \in Nat, r \in Nat :
        a = Total(A, Tasks) + Total(A, s) /\ r = L[l] /\ a >= r + 1 /\ r < c
  <2>1. L[l] \in Nat /\ Total(A, Tasks) \in Nat /\ Total(A, s) \in Nat /\ L[l] <= Period(i)
    BY <1>1, <1>6
  <2> QED
    BY <1>1, <1>8, <2>1
<1>10. c * a > (c + 1) * r
  <2>1. c * a >= c * (r + 1)
    BY <1>1, <1>9
  <2>2. c * (r + 1) > (c + 1) * r
    BY <1>1, <1>9
  <2>3. c * a \in Int /\ c * (r + 1) \in Int /\ (c + 1) * r \in Int
    BY <1>1
  <2> QED
    BY <2>1, <2>2, <2>3
<1>11. Total(E, Tasks) + Total(E, s) = c * a
  <2>1. Total(E, Tasks) = c * Total(A, Tasks) /\ Total(E, s) = c * Total(A, s)
    BY <1>5
  <2>2. Total(A, Tasks) \in Nat /\ Total(A, s) \in Nat
    BY <1>6
  <2> QED
    BY <1>1, <1>9, <2>1, <2>2
<1>12. P[l] = (c + 1) * r
  BY <1>1, <1>4, <1>9
<1> QED
  BY <1>10, <1>11, <1>12

LEMMA LateIsRejected ==
  ASSUME SimIInv, NEW i \in Tasks, Late(i)
  PROVE  TRUE \notin testability_rm
<1> DEFINE n == Cardinality(Tasks)
           c == Precision - 1
           E == [j \in Tasks |-> c * AllWork(i)[j]]
           P == [j \in Tasks |-> Precision * LastRelease(i)[j]]
           w == [j \in Tasks |-> c * Needs[j]]
<1>1. /\ IsFiniteSet(Tasks) /\ Tasks # {} /\ hyper \in Nat \ {0}
      /\ Needs \in [Tasks -> Nat \ {0}] /\ Precision \in Nat \ {0} /\ c \in Nat \ {0}
  BY ReadyFacts, NeedsTypes, WorkFacts, PrecisionFacts
<1>2. One \in Nat \ {0} /\ One = hyper * Precision
  BY <1>1 DEF One
<1>3. /\ AllWork(i) \in [Tasks -> Nat] /\ LastRelease(i) \in [Tasks -> Nat]
      /\ Total(AllWork(i), Tasks) > 0
      /\ \A j \in Tasks : Needs[j] * LastRelease(i)[j] = AllWork(i)[j] * hyper
  BY WorkFacts
<1>4. Crowds(Tasks, E, P)
  BY LateByAUnit
<1> HIDE DEF c
<1>5. E \in [Tasks -> Nat] /\ P \in [Tasks -> Nat] /\ w \in [Tasks -> Nat \ {0}]
  BY <1>1, <1>3
<1>6. Total(E, Tasks) > 0
  <2>1. /\ AllWork(i) \in [Tasks -> Int] /\ E \in [Tasks -> Int] /\ c \in Int
        /\ \A j \in Tasks : E[j] = c * AllWork(i)[j]
    BY <1>1, <1>3, <1>5
  <2>2. Total(E, Tasks) = c * Total(AllWork(i), Tasks)
    BY <1>1, <2>1, TotalTimes
  <2>3. Total(AllWork(i), Tasks) \in Nat
    BY <1>1, <1>3, TotalNat
  <2> QED
    BY <1>1, <1>3, <2>2, <2>3
<1>7. \A j \in Tasks : w[j] * P[j] = E[j] * One
  <2>1. ASSUME NEW j \in Tasks PROVE w[j] * P[j] = E[j] * One
    <3>1. PICK a \in Nat, b \in Nat, e \in Nat :
            a = Needs[j] /\ b = LastRelease(i)[j] /\ e = AllWork(i)[j]
      BY <1>1, <1>3
    <3>2. a * b = e * hyper
      BY <1>3, <3>1
    <3>3. (c * a) * (Precision * b) = (c * Precision) * (a * b)
      BY <1>1
    <3>4. (c * e) * (hyper * Precision) = (c * Precision) * (e * hyper)
      BY <1>1
    <3>5. w[j] = c * a /\ P[j] = Precision * b /\ E[j] = c * e
      BY <3>1
    <3> QED
      BY <1>2, <3>2, <3>3, <3>4, <3>5
  <2> QED
    BY <2>1
<1> HIDE DEF E, P, w
<1>8. Power(Total(w, Tasks) + n * One, n) > 2 * Power(n * One, n)
  BY <1>1, <1>2, <1>4, <1>5, <1>6, <1>7, LiuLayland
<1>9. Total(w, Tasks) = MuLow
  <2>1. /\ Needs \in [Tasks -> Int] /\ w \in [Tasks -> Int] /\ c \in Int
        /\ \A j \in Tasks : w[j] = c * Needs[j]
    BY <1>1, <1>5 DEF w
  <2>2. Total(w, Tasks) = c * Total(Needs, Tasks)
    BY <1>1, <2>1, TotalTimes
  <2> QED
    BY <2>2, DemandIsTotal DEF MuLow, c
<1>10. Total(w, Tasks) \in Nat /\ n \in Nat
  BY <1>1, <1>5, TotalNat, FS_CardinalityType
<1> SUFFICES ASSUME TRUE \in testability_rm PROVE FALSE
  OBVIOUS
<1>11. Power(MuLow + n * One, n) <= 2 * Power(n * One, n)
  BY DEF testability_rm
<1> HIDE DEF n
<1>12. Power(MuLow + n * One, n) \in Nat /\ Power(n * One, n) \in Nat
  <2>1. n * One \in Nat /\ MuLow + n * One \in Nat
    BY <1>2, <1>9, <1>10
  <2> QED
    BY <1>10, <2>1, PowerFacts
<1> QED
  BY <1>8, <1>9, <1>11, <1>12

-----------------------------------------------------------------------------
(* The tests and the simulations agree                                     *)

\* What the test of rm promises.
RmTestInv == policy = "rm" /\ TRUE \in testability_rm => run

TestInv == RefineInv /\ FitsInv /\ DoneInv /\ BusyInv /\ RmTestInv

LEMMA InitTest == Init => TestInv
<1> SUFFICES ASSUME Init PROVE TestInv
  OBVIOUS
<1>1. RefineInv
  BY InitRefine
<1>2. slot = 0 /\ run = TRUE /\ hyper \in Nat \ {0}
  BY <1>1, ReadyFacts DEF Init, RefineInv
<1>3. slot \notin 1 .. hyper /\ slot # hyper + 1
  BY <1>2
<1> QED
  BY <1>1, <1>2, <1>3 DEF TestInv, FitsInv, DoneInv, BusyInv, RmTestInv

LEMMA TestFrame ==
  ASSUME RefineInv, FitsInv, DoneInv, BusyInv, RmTestInv, UNCHANGED vars
  PROVE  FitsInv' /\ DoneInv' /\ BusyInv' /\ RmTestInv'
<1>1. UNCHANGED <<policy, config, hyper, slot, run, timeLeft>> /\ UNCHANGED input
  BY DEF vars, input
<1>2. /\ Tasks' = Tasks /\ Feasible' = Feasible /\ Demand' = Demand
      /\ \A i : /\ Execution(i)' = Execution(i) /\ Period(i)' = Period(i)
                /\ NextDeadline(i)' = NextDeadline(i)
  BY <1>1, TestStays DEF Execution, Period, NextDeadline
<1>3. FitsInv'
  <2>1. \A d : Owed(d)' = Owed(d)
    BY <1>1, <1>2 DEF Owed
  <2> QED
    BY <1>1, <1>2, <2>1 DEF FitsInv
<1>4. Done' = Done
  BY <1>1, <1>2 DEF Done
<1>5. DoneInv'
  BY <1>1, <1>2, <1>4 DEF DoneInv
<1>6. BusyInv'
  <2>1. \A i : Ahead(i)' = Ahead(i)
    BY <1>2 DEF Ahead
  <2>2. \A i, s : Asked(i, s)' = Asked(i, s)
    BY <1>2, <2>1 DEF Asked
  <2>3. \A i : Served(i)' = Served(i)
    BY <1>2, <1>4, <2>1 DEF Served
  <2>4. \A i, t : BusySince(i, t, Served(i), slot, slot - 1)'
                    <=> BusySince(i, t, Served(i), slot, slot - 1)
    BY <1>1, <1>2, <2>2, <2>3 DEF BusySince
  <2> QED
    BY <1>1, <1>2, <2>4 DEF BusyInv
<1>7. RmTestInv'
  <2>1. testability_rm' = testability_rm
    BY <1>1, TestStays
  <2> QED
    BY <1>1, <2>1 DEF RmTestInv
<1> QED
  BY <1>3, <1>5, <1>6, <1>7

LEMMA RmTestStep ==
  ASSUME SimIInv, TurnOf, BusyInv, RmTestInv
  PROVE  RmTestInv'
<1> SUFFICES ASSUME policy' = "rm", TRUE \in testability_rm' PROVE run'
  BY DEF RmTestInv
<1>1. /\ run /\ slot \in 0 .. hyper /\ UNCHANGED input
      /\ MissedNow = {} => run' = run
  BY DEF TurnOf
<1>2. policy = "rm" /\ TRUE \in testability_rm
  BY <1>1, TestStays
<1>3. ASSUME NEW i \in MissedNow PROVE FALSE
  <2>1. slot # 0
    BY DEF MissedNow
  <2>2. slot \in 1 .. hyper
    BY <1>1, <2>1, ReadyFacts
  <2>3. i \in Tasks /\ Late(i)
    BY <1>1, <1>2, <2>2, MissIsLate
  <2> QED
    BY <1>2, <2>3, LateIsRejected
<1> QED
  BY <1>1, <1>3

LEMMA TestStep ==
  ASSUME Periods \subseteq 1 .. INT_MAX, TestInv, [Next]_vars
  PROVE  TestInv'
<1>1. RefineInv /\ SimIInv /\ FitsInv /\ DoneInv /\ BusyInv /\ RmTestInv
  BY DEF TestInv, RefineInv
<1>2. RefineInv' /\ SimIInv'
  BY <1>1, RefineStep DEF RefineInv
<1>3. CASE Next
  <2>1. TurnOf
    BY <1>1, <1>3, Turns
  <2>2. FitsInv'
    BY <1>1, <1>2, <2>1, FitsStep
  <2>3. DoneInv' /\ BusyInv' /\ RmTestInv'
    BY <1>1, <2>1, DoneStep, BusyStep, RmTestStep
  <2> QED
    BY <1>2, <2>2, <2>3 DEF TestInv
<1>4. CASE UNCHANGED vars
  BY <1>1, <1>2, <1>4, TestFrame DEF TestInv
<1> QED
  BY <1>3, <1>4

(* A set of tasks that testability_rm approves meets its deadlines under   *)
(* rm, whatever its periods and the order of equal ones.  Under edf, and   *)
(* under llf, those are met of exactly the sets that testability_edf_llf   *)
(* approves however it rounds; it approves no others, unless they have a   *)
(* hyperperiod of half of Precision or more (schedulability.c against the  *)
(* loops of simulation.c, which it never runs).  The periods are ints.     *)
THEOREM TestsAreRight ==
  ASSUME Periods \subseteq 1 .. INT_MAX
  PROVE  Spec => []SimulationAgreesWithTest
<1>1. Init => TestInv
  BY InitTest
<1>2. TestInv /\ [Next]_vars => TestInv'
  BY TestStep
<1>3. TestInv => SimulationAgreesWithTest
  <2> SUFFICES ASSUME TestInv, Over PROVE
        /\ policy = "rm" /\ TRUE \in testability_rm => misses = {}
        /\ policy \in {"edf", "llf"} =>
             /\ misses = {} <=> testability_edf_llf = {TRUE}
             /\ 2 * hyper < Precision - 1 /\ TRUE \in testability_edf_llf => misses = {}
    BY DEF SimulationAgreesWithTest
  <2>1. SimIInv /\ FitsInv /\ DoneInv /\ RmTestInv /\ (run <=> misses = {})
    BY DEF TestInv, RefineInv, SimIInv, RunInv
  <2>2. policy = "rm" /\ TRUE \in testability_rm => misses = {}
    BY <2>1 DEF RmTestInv
  <2>3. policy \in {"edf", "llf"} => (Feasible <=> misses = {})
    BY <2>1, ExactTest
  <2>4. /\ Feasible <=> testability_edf_llf = {TRUE}
        /\ 2 * hyper < Precision - 1 /\ TRUE \in testability_edf_llf => Feasible
    BY <2>1, RoundingOfOne
  <2> QED
    BY <2>2, <2>3, <2>4
<1> QED
  BY <1>1, <1>2, <1>3, PTL DEF Spec
=============================================================================
