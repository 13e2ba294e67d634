------------------------- MODULE Simulation_proofs -------------------------
(***************************************************************************)
(* Proofs about Simulation and TimeTables, for every set of tasks, any     *)
(* periods and any size of a page.  The least common multiple is a fold    *)
(* and the bars of a page are the result of a loop, so that something has  *)
(* to be shown of recursive functions: induction is over a set of numbers  *)
(* (Induct), and a function that satisfies its recursive equation is       *)
(* constructed step by step.                                               *)
(***************************************************************************)
EXTENDS TimeTables, FiniteSetTheorems, SequenceTheorems, WellFoundedInduction, TLAPS

-----------------------------------------------------------------------------
(* Numbers                                                                 *)

\* The least number principle and induction, for sets of numbers.
LEMMA LeastNatural ==
  ASSUME NEW S, S \subseteq Nat, S # {}
  PROVE  \E m \in S : \A n \in S : m <= n
<1>1. \E x \in S : \A y \in S : ~(<<y, x>> \in OpToRel(<, Nat))
  BY NatLessThanWellFounded, WFMin, Zenon
<1>2. ASSUME NEW x \in S, NEW y \in S, ~(<<y, x>> \in OpToRel(<, Nat)) PROVE x <= y
  <2>1. ~(<<y, x>> \in {ss \in Nat \X Nat : ss[1] < ss[2]})
    BY <1>2, Zenon DEF OpToRel
  <2> QED
    BY <2>1
<1> QED
  BY <1>1, <1>2

LEMMA Induct ==
  ASSUME NEW S, 0 \in S, \A n \in S : n \in Nat => n + 1 \in S
  PROVE  Nat \subseteq S
<1> SUFFICES ASSUME Nat \ S # {} PROVE FALSE
  OBVIOUS
<1>1. PICK m \in Nat \ S : \A n \in Nat \ S : m <= n
  BY LeastNatural
<1>2. m # 0 /\ m - 1 \in Nat
  BY <1>1
<1>3. m - 1 \in S
  BY <1>1, <1>2
<1>4. (m - 1) + 1 \in S
  BY <1>2, <1>3
<1>5. (m - 1) + 1 = m
  BY <1>1
<1> QED
  BY <1>1, <1>4, <1>5

\* The greatest number of a bounded set.
LEMMA GreatestNatural ==
  ASSUME NEW S, S \subseteq Nat, S # {}, NEW n \in Nat, \A k \in S : k <= n
  PROVE  \E m \in S : \A k \in S : m >= k
<1> DEFINE T == {n - k : k \in S}
<1>1. T \subseteq Nat /\ T # {}
  <2>1. ASSUME NEW k \in S PROVE n - k \in Nat
    OBVIOUS
  <2> QED
    BY <2>1, Zenon
<1> HIDE DEF T
<1>2. PICK d \in T : \A e \in T : d <= e
  BY <1>1, LeastNatural
<1>3. PICK m \in S : d = n - m
  BY <1>2 DEF T
<1>4. ASSUME NEW k \in S PROVE m >= k
  <2>1. n - k \in T
    BY DEF T
  <2>2. n - m <= n - k
    BY <1>2, <1>3, <2>1
  <2>3. m \in Nat /\ k \in Nat
    OBVIOUS
  <2> QED
    BY <2>2, <2>3
<1> QED
  BY <1>4

\* Division with remainder.
LEMMA Division ==
  ASSUME NEW p \in Nat \ {0}, NEW s \in Nat
  PROVE  \E q \in Nat, r \in 0 .. p - 1 : s = p * q + r
<1> DEFINE S == {n \in Nat : \E q \in Nat, r \in 0 .. p - 1 : n = p * q + r}
<1>1. 0 \in S
  <2>1. 0 = p * 0 + 0
    OBVIOUS
  <2> QED
    BY <2>1
<1>2. ASSUME NEW n \in S PROVE n + 1 \in S
  <2>1. PICK q \in Nat, r \in 0 .. p - 1 : n = p * q + r
    OBVIOUS
  <2>2. CASE r + 1 = p
    <3>1. /\ n + 1 = p * (q + 1) + 0
          /\ n + 1 \in Nat /\ q + 1 \in Nat /\ 0 \in 0 .. p - 1
      BY <2>1, <2>2
    <3> QED
      BY <3>1, Zenon
  <2>3. CASE r + 1 < p
    <3>1. /\ n + 1 = p * q + (r + 1)
          /\ n + 1 \in Nat /\ r + 1 \in 0 .. p - 1
      BY <2>1, <2>3
    <3> QED
      BY <3>1, Zenon
  <2> QED
    BY <2>2, <2>3
<1> HIDE DEF S
<1>3. s \in S
  BY <1>1, <1>2, Induct
<1> QED
  BY <1>3 DEF S

LEMMA Remainder ==
  ASSUME NEW p \in Nat \ {0}, NEW s \in Nat, NEW q \in Nat, NEW r \in 0 .. p - 1,
         s = p * q + r
  PROVE  s % p = r
OBVIOUS

\* The remainder of the next slot.
LEMMA NextRemainder ==
  ASSUME NEW p \in Nat \ {0}, NEW s \in Nat
  PROVE  /\ s % p \in 0 .. p - 1
         /\ (s + 1) % p = IF (s % p) + 1 = p THEN 0 ELSE (s % p) + 1
<1>1. PICK q \in Nat, r \in 0 .. p - 1 : s = p * q + r
  BY Division
<1>2. s % p = r
  BY <1>1, Remainder
<1>3. CASE r + 1 = p
  <2>1. /\ s + 1 = p * (q + 1) + 0
        /\ s + 1 \in Nat /\ q + 1 \in Nat /\ 0 \in 0 .. p - 1
    BY <1>1, <1>3
  <2>2. (s + 1) % p = 0
    BY <2>1, Remainder, Zenon
  <2> QED
    BY <1>2, <1>3, <2>2
<1>4. CASE r + 1 < p
  <2>1. /\ s + 1 = p * q + (r + 1)
        /\ s + 1 \in Nat /\ r + 1 \in 0 .. p - 1
    BY <1>1, <1>4
  <2>2. (s + 1) % p = r + 1
    BY <2>1, Remainder, Zenon
  <2> QED
    BY <1>2, <1>4, <2>2
<1> QED
  BY <1>3, <1>4

\* % tells the multiples.
LEMMA Multiple ==
  ASSUME NEW p \in Nat \ {0}, NEW s \in Nat
  PROVE  s % p = 0 <=> \E q \in Nat : s = p * q
<1>1. PICK q \in Nat, r \in 0 .. p - 1 : s = p * q + r
  BY Division
<1>2. s % p = r
  BY <1>1, Remainder
<1>3. ASSUME NEW k \in Nat, s = p * k PROVE s % p = 0
  <2>1. s = p * k + 0 /\ 0 \in 0 .. p - 1
    BY <1>3
  <2> QED
    BY <2>1, Remainder, Zenon
<1>4. s % p = 0 => s = p * q
  BY <1>1, <1>2
<1> QED
  BY <1>3, <1>4, Zenon

LEMMA ZeroMultiple == \A p \in Nat \ {0} : 0 % p = 0
<1>1. \A p \in Nat \ {0} : 0 = p * 0 + 0 /\ 0 \in 0 .. p - 1
  OBVIOUS
<1> QED
  BY <1>1, Remainder

LEMMA MultipleTransitive ==
  ASSUME NEW a \in Nat \ {0}, NEW b \in Nat \ {0}, NEW c \in Nat, b % a = 0, c % b = 0
  PROVE  c % a = 0
<1>1. PICK q \in Nat : b = a * q
  BY Multiple
<1>2. PICK k \in Nat : c = b * k
  BY Multiple
<1>3. c = a * (q * k) /\ q * k \in Nat
  BY <1>1, <1>2
<1> QED
  BY <1>3, Multiple

\* The first multiple after s.
LEMMA NextMultiple ==
  ASSUME NEW p \in Nat \ {0}, NEW s \in Nat
  PROVE  LET d == s - (s % p) + p
         IN  /\ d \in Nat /\ d > s /\ d <= s + p /\ d % p = 0
             /\ \A m \in Nat : m > s /\ m % p = 0 => d <= m
<1>1. PICK q \in Nat, r \in 0 .. p - 1 : s = p * q + r
  BY Division
<1>2. s % p = r
  BY <1>1, Remainder
<1> DEFINE d == s - (s % p) + p
<1>3. /\ d = p * (q + 1) + 0 /\ d > s /\ d <= s + p
      /\ d \in Nat /\ q + 1 \in Nat /\ 0 \in 0 .. p - 1
  BY <1>1, <1>2
<1> HIDE DEF d
<1>4. d % p = 0
  BY <1>3, Remainder, Zenon
<1>5. ASSUME NEW m \in Nat, m > s, m % p = 0 PROVE d <= m
  <2>1. PICK k \in Nat : m = p * k
    BY <1>5, Multiple
  <2>2. ~(k <= q)
    <3> SUFFICES ASSUME k <= q PROVE FALSE
      OBVIOUS
    <3>1. p * k <= p * q
      OBVIOUS
    <3> QED
      BY <1>1, <1>5, <2>1, <3>1
  <2>3. p * k >= p * (q + 1)
    BY <2>2
  <2> QED
    BY <1>3, <2>1, <2>3
<1> QED
  BY <1>3, <1>4, <1>5 DEF d

-----------------------------------------------------------------------------
(* The hyperperiod                                                         *)

Positive == Nat \ {0}

\* lcm is a common multiple.
LEMMA LcmOfTwo ==
  ASSUME NEW a \in Positive, NEW b \in Positive
  PROVE  lcm(a, b) \in Positive /\ lcm(a, b) % a = 0 /\ lcm(a, b) % b = 0
<1> DEFINE M == {m \in 1 .. a * b : m % a = 0 /\ m % b = 0}
<1>1. a * b \in Nat /\ a * b >= 1 /\ a * b = b * a
  BY DEF Positive
<1>2. (a * b) % a = 0 /\ (a * b) % b = 0
  <2>1. a \in Nat \ {0} /\ b \in Nat \ {0}
    BY DEF Positive
  <2> QED
    BY <1>1, <2>1, Multiple
<1>3. M \subseteq Nat /\ a * b \in M
  BY <1>1, <1>2
<1> HIDE DEF M
<1>4. \E m \in M : \A n \in M : m <= n
  BY <1>3, LeastNatural
<1>5. Min(M) \in M
  BY <1>4 DEF Min
<1>6. lcm(a, b) = Min(M)
  BY DEF lcm, M
<1> QED
  BY <1>5, <1>6 DEF M, Positive

\* The recursive equation of the fold in get_lcm_from_array.
Pick(s) == CHOOSE x \in s : TRUE
LcmStep(f, g) ==
  [s \in SUBSET DOMAIN f |->
     IF s = {} THEN 1 ELSE lcm(f[Pick(s)], g[s \ {Pick(s)}])]

LEMMA LcmUnfold ==
  ASSUME NEW f
  PROVE  get_lcm_from_array(f) = (CHOOSE g : g = LcmStep(f, g))[DOMAIN f]
BY DEF get_lcm_from_array, FoldFunction, FoldFunctionOnSet, MapThenFoldSet, LcmStep,
       Pick

LEMMA PickSmaller ==
  ASSUME NEW s, IsFiniteSet(s), s # {}
  PROVE  /\ Pick(s) \in s /\ IsFiniteSet(s \ {Pick(s)})
         /\ Cardinality(s) \in Nat
         /\ Cardinality(s \ {Pick(s)}) = Cardinality(s) - 1
BY FS_RemoveElement, FS_CardinalityType DEF Pick

\* A function that satisfies it exists.
LEMMA LcmExists ==
  ASSUME NEW D, IsFiniteSet(D), NEW f \in [D -> Positive]
  PROVE  \E g : g = LcmStep(f, g)
<1> DEFINE Solves(g, n) ==
             \A s \in SUBSET D : Cardinality(s) <= n => g[s] = LcmStep(f, g)[s]
           S == {n \in Nat : \E g \in [SUBSET D -> Positive] : Solves(g, n)}
<1>1. ASSUME NEW g \in [SUBSET D -> Positive]
      PROVE  LcmStep(f, g) \in [SUBSET D -> Positive]
  <2>1. ASSUME NEW s \in SUBSET D, s # {}
        PROVE  lcm(f[Pick(s)], g[s \ {Pick(s)}]) \in Positive
    <3>1. Pick(s) \in s
      BY <2>1 DEF Pick
    <3>2. f[Pick(s)] \in Positive /\ g[s \ {Pick(s)}] \in Positive
      BY <3>1
    <3> QED
      BY <3>2, LcmOfTwo
  <2>2. 1 \in Positive /\ DOMAIN f = D
    BY DEF Positive
  <2> QED
    BY <2>1, <2>2 DEF LcmStep
<1>2. \A s \in SUBSET D : IsFiniteSet(s) /\ Cardinality(s) \in Nat
  BY FS_Subset, FS_CardinalityType
<1>3. 0 \in S
  <2> DEFINE g == [s \in SUBSET D |-> 1]
  <2>1. g \in [SUBSET D -> Positive]
    BY DEF Positive
  <2>2. ASSUME NEW s \in SUBSET D, Cardinality(s) <= 0 PROVE g[s] = LcmStep(f, g)[s]
    <3>1. Cardinality(s) = 0
      BY <1>2, <2>2
    <3>2. s = {}
      BY <1>2, <3>1, FS_EmptySet
    <3> QED
      BY <3>2 DEF LcmStep
  <2> HIDE DEF g
  <2>3. Solves(g, 0)
    BY <2>2
  <2> QED
    BY <2>1, <2>3
<1>4. ASSUME NEW n \in S PROVE n + 1 \in S
  <2>1. PICK g \in [SUBSET D -> Positive] : Solves(g, n)
    OBVIOUS
  <2> DEFINE h == LcmStep(f, g)
  <2>2. h \in [SUBSET D -> Positive]
    BY <1>1
  <2>3. ASSUME NEW s \in SUBSET D, Cardinality(s) <= n + 1
        PROVE  h[s] = LcmStep(f, h)[s]
    <3>1. CASE s = {}
      BY <3>1 DEF LcmStep
    <3>2. CASE s # {}
      <4> DEFINE t == s \ {Pick(s)}
      <4>1. t \in SUBSET D /\ Cardinality(t) <= n
        BY <1>2, <2>3, <3>2, PickSmaller
      <4>2. g[t] = h[t]
        BY <2>1, <4>1
      <4> HIDE DEF h
      <4>3. LcmStep(f, g)[s] = lcm(f[Pick(s)], g[t])
        BY <3>2 DEF LcmStep
      <4>4. LcmStep(f, h)[s] = lcm(f[Pick(s)], h[t])
        BY <3>2 DEF LcmStep
      <4> QED
        BY <4>2, <4>3, <4>4 DEF h
    <3> QED
      BY <3>1, <3>2
  <2> HIDE DEF h
  <2>4. Solves(h, n + 1)
    BY <2>3
  <2> QED
    BY <2>2, <2>4
<1> HIDE DEF S
<1>5. Cardinality(D) \in S
  BY <1>2, <1>3, <1>4, Induct
<1>6. PICK g \in [SUBSET D -> Positive] : Solves(g, Cardinality(D))
  BY <1>5 DEF S
<1>7. ASSUME NEW s \in SUBSET D PROVE g[s] = LcmStep(f, g)[s]
  <2>1. Cardinality(s) <= Cardinality(D)
    BY FS_Subset
  <2> QED
    BY <1>6, <2>1
<1> DEFINE h == LcmStep(f, g)
<1>8. h \in [SUBSET D -> Positive] /\ \A s \in SUBSET D : g[s] = h[s]
  BY <1>1, <1>7
<1> HIDE DEF h
<1>9. g = h
  BY <1>8
<1> QED
  BY <1>9 DEF h

\* get_lcm_from_array: the hyperperiod is a multiple of every period.
LEMMA LcmOfAll ==
  ASSUME NEW D, IsFiniteSet(D), NEW f \in [D -> Positive]
  PROVE  /\ get_lcm_from_array(f) \in Positive
         /\ \A i \in D : get_lcm_from_array(f) % f[i] = 0
<1> DEFINE g == CHOOSE h : h = LcmStep(f, h)
<1>1. g = LcmStep(f, g)
  BY LcmExists
<1> HIDE DEF g
<1> DEFINE Right(s) == g[s] \in Positive /\ \A i \in s : g[s] % f[i] = 0
           S == {n \in Nat : \A s \in SUBSET D : Cardinality(s) <= n => Right(s)}
<1>2. \A s \in SUBSET D : IsFiniteSet(s) /\ Cardinality(s) \in Nat
  BY FS_Subset, FS_CardinalityType
<1>3. ASSUME NEW s \in SUBSET D
      PROVE  g[s] = IF s = {} THEN 1 ELSE lcm(f[Pick(s)], g[s \ {Pick(s)}])
  <2>1. LcmStep(f, g)[s] = IF s = {} THEN 1 ELSE lcm(f[Pick(s)], g[s \ {Pick(s)}])
    BY DEF LcmStep
  <2> QED
    BY <1>1, <2>1
<1>4. Right({})
  <2>1. g[{}] = 1
    BY <1>3
  <2> QED
    BY <2>1 DEF Positive
<1>5. 0 \in S
  <2>1. ASSUME NEW s \in SUBSET D, Cardinality(s) <= 0 PROVE Right(s)
    <3>1. Cardinality(s) = 0
      BY <1>2, <2>1
    <3>2. s = {}
      BY <1>2, <3>1, FS_EmptySet
    <3> QED
      BY <1>4, <3>2
  <2> QED
    BY <2>1
<1>6. ASSUME NEW n \in S PROVE n + 1 \in S
  <2>1. ASSUME NEW s \in SUBSET D, Cardinality(s) <= n + 1, s # {} PROVE Right(s)
    <3> DEFINE x == Pick(s)
               t == s \ {x}
    <3>1. t \in SUBSET D /\ Cardinality(t) <= n /\ x \in s
      BY <1>2, <2>1, PickSmaller
    <3>2. Right(t) /\ f[x] \in Positive
      BY <3>1
    <3>3. g[s] = lcm(f[x], g[t])
      BY <1>3, <2>1
    <3> HIDE DEF x, t
    <3>4. g[s] \in Positive /\ g[s] % f[x] = 0 /\ g[s] % g[t] = 0
      BY <3>2, <3>3, LcmOfTwo
    <3>5. ASSUME NEW i \in t PROVE g[s] % f[i] = 0
      <4>1. g[t] % f[i] = 0 /\ f[i] \in Positive
        BY <3>1, <3>2
      <4>2. /\ f[i] \in Nat \ {0} /\ g[t] \in Nat \ {0} /\ g[s] \in Nat
        BY <3>2, <3>4, <4>1 DEF Positive
      <4> QED
        BY <3>4, <4>1, <4>2, MultipleTransitive, Zenon
    <3>6. \A i \in s : i = x \/ i \in t
      BY DEF t
    <3> QED
      BY <3>4, <3>5, <3>6
  <2>2. ASSUME NEW s \in SUBSET D, Cardinality(s) <= n + 1 PROVE Right(s)
    BY <1>4, <2>1, <2>2, Zenon
  <2> HIDE DEF Right
  <2> QED
    BY <2>2
<1> HIDE DEF S
<1>7. Cardinality(D) \in S
  BY <1>2, <1>5, <1>6, Induct
<1> HIDE DEF Right
<1>8. Right(D)
  BY <1>2, <1>7 DEF S
<1>9. get_lcm_from_array(f) = g[D]
  BY LcmUnfold DEF g
<1> QED
  BY <1>8, <1>9 DEF Right

-----------------------------------------------------------------------------
(* The input and the tables                                                *)

LEMMA ConfigFacts ==
  ASSUME config \in Configs
  PROVE  /\ \E n \in 1 .. MaxTasks : Tasks = 0 .. n - 1
         /\ IsFiniteSet(Tasks) /\ Tasks # {} /\ Tasks \subseteq Nat /\ None \notin Tasks
         /\ \A i \in Tasks : /\ Execution(i) \in Nat \ {0} /\ Period(i) \in Nat \ {0}
                             /\ Execution(i) <= Period(i)
<1>1. PICK n \in 1 .. MaxTasks : config \in [0 .. n - 1 -> ValidTasks]
  BY DEF Configs
<1>2. Tasks = 0 .. n - 1 /\ n \in Nat \ {0}
  BY <1>1, MaxTasksAssumption DEF Tasks
<1>3. IsFiniteSet(0 .. n - 1)
  BY <1>2, FS_Interval
<1>4. ASSUME NEW i \in Tasks
      PROVE  /\ Execution(i) \in Nat \ {0} /\ Period(i) \in Nat \ {0}
             /\ Execution(i) <= Period(i)
  <2>1. PICK p \in Periods : config[i] \in [execution : 1 .. p, period : {p}]
    BY <1>1, <1>2 DEF ValidTasks
  <2>2. p \in Nat \ {0}
    BY PeriodsAssumption
  <2> QED
    BY <2>1, <2>2 DEF Execution, Period
<1> QED
  BY <1>2, <1>3, <1>4 DEF None

\* run is lowered when a miss is recorded; rm finds all its tasks released in
\* the first slot.
RunInv ==
  /\ run <=> misses = {}
  /\ slot = 0 => run
  /\ policy = "rm" /\ slot = 0 => \A i \in Tasks : timeLeft[i] # 0

\* deadline_completed, while edf goes on.
EdfInv == policy = "edf" /\ run => \A i \in Tasks : completed[i] <=> timeLeft[i] = 0

\* The laxities, while llf goes on.
LlfInv ==
  policy = "llf" /\ run /\ slot \in 1 .. hyper =>
    \A i \in Tasks :
      laxities[i] = IF timeLeft[i] = 0 THEN INT_MAX
                                       ELSE NextDeadline(i) - slot - timeLeft[i]

SimIInv == TypeOK /\ RunInv /\ EdfInv /\ LlfInv

LEMMA InitSim == Init => SimIInv
<1> SUFFICES ASSUME Init PROVE SimIInv
  OBVIOUS
<1>1. policy \in Policies /\ config \in Configs /\ runtime \in Bijection(Tasks, Tasks)
  BY DEF Init
<1>2. /\ IsFiniteSet(Tasks) /\ Tasks # {}
      /\ \A i \in Tasks : Execution(i) \in Nat \ {0} /\ Period(i) \in Nat \ {0}
  BY <1>1, ConfigFacts
<1>3. hyper \in Nat \ {0} /\ \A i \in Tasks : hyper % Period(i) = 0
  <2> DEFINE f == [i \in Tasks |-> Period(i)]
  <2>1. f \in [Tasks -> Positive] /\ \A i \in Tasks : f[i] = Period(i)
    BY <1>2 DEF Positive
  <2> HIDE DEF f
  <2>2. /\ get_lcm_from_array(f) \in Positive
        /\ \A i \in Tasks : get_lcm_from_array(f) % f[i] = 0
    BY <1>2, <2>1, LcmOfAll
  <2>3. hyper = get_lcm_from_array(f)
    BY DEF Init, f
  <2> QED
    BY <2>1, <2>2, <2>3 DEF Positive
<1>4. /\ slot = 0 /\ run = TRUE /\ misses = {} /\ missIdx = None
      /\ timeLeft = [i \in Tasks |-> IF policy = "llf" THEN 0 ELSE Execution(i)]
      /\ completed = [i \in Tasks |-> FALSE] /\ laxities = [i \in Tasks |-> 0]
      /\ ts = [s \in 0 .. hyper |-> None]
  BY DEF Init
<1>5. running \in Tasks \cup {None}
  BY DEF Init
<1>6. /\ timeLeft \in [Tasks -> Nat]
      /\ \A i \in Tasks : timeLeft[i] <= Execution(i)
      /\ policy # "llf" => \A i \in Tasks : timeLeft[i] # 0
  BY <1>2, <1>4
<1>7. TypeOK
  BY <1>1, <1>3, <1>4, <1>5, <1>6 DEF TypeOK
<1>8. RunInv /\ EdfInv /\ LlfInv
  BY <1>4, <1>6 DEF RunInv, EdfInv, LlfInv
<1> QED
  BY <1>7, <1>8 DEF SimIInv

-----------------------------------------------------------------------------
(* What all simulators do in a slot                                        *)

\* The slot of the next turn, and what is recorded of misses.
LEMMA RecordTypes ==
  ASSUME SimIInv, run, slot \in 0 .. hyper, NEW missed \in SUBSET Tasks,
         RecordMisses(missed)
  PROVE  /\ run' \in BOOLEAN /\ (run' <=> misses' = {}) /\ (run' <=> missed = {})
         /\ misses' \subseteq Tasks /\ missIdx' \in {None} \cup 0 .. hyper
         /\ misses' = {} <=> missIdx' = None
<1>1. misses = {} /\ missIdx = None
  BY DEF SimIInv, RunInv, TypeOK
<1>2. slot # None
  BY DEF None
<1> QED
  BY <1>1, <1>2 DEF RecordMisses

\* time_left after the releases and a slot spent by a task with work left.
LEMMA SpendTypes ==
  ASSUME NEW T, NEW left \in [T -> Nat], None \notin T, NEW i \in T \cup {None},
         i # None => left[i] # 0
  PROVE  /\ Spend(left, i) \in [T -> Nat]
         /\ \A j \in T : Spend(left, i)[j] = IF j = i THEN left[j] - 1 ELSE left[j]
<1>1. CASE i = None
  BY <1>1 DEF Spend
<1>2. CASE i # None
  <2>1. i \in T /\ left[i] \in Nat \ {0}
    BY <1>2
  <2>2. Spend(left, i) = [left EXCEPT ![i] = left[i] - 1]
    BY <1>2 DEF Spend
  <2> QED
    BY <2>1, <2>2
<1> QED
  BY <1>1, <1>2

LEMMA LeftAtStartTypes ==
  ASSUME SimIInv
  PROVE  /\ LeftAtStart \in [Tasks -> Nat]
         /\ \A i \in Tasks : LeftAtStart[i] =
              IF i \in Released THEN Execution(i) ELSE timeLeft[i]
         /\ \A i \in Tasks : LeftAtStart[i] <= Execution(i)
<1>1. \A i \in Tasks : Execution(i) \in Nat /\ timeLeft[i] \in Nat
  BY ConfigFacts DEF SimIInv, TypeOK
<1>2. \A i \in Tasks : timeLeft[i] <= Execution(i)
  BY DEF SimIInv, TypeOK
<1> QED
  BY <1>1, <1>2 DEF LeftAtStart

\* A slot is filled.
LEMMA ChartTypes ==
  ASSUME SimIInv, NEW i \in Tasks \cup {None}
  PROVE  [ts EXCEPT ![slot] = i] \in [0 .. hyper -> Tasks \cup {None}]
BY DEF SimIInv, TypeOK

\* The parts of the invariant about the turn of a loop.
Turned ==
  /\ UNCHANGED input
  /\ slot' = slot + 1
  /\ timeLeft' \in [Tasks -> Nat] /\ \A i \in Tasks : timeLeft'[i] <= Execution(i)
  /\ completed' \in [Tasks -> BOOLEAN] /\ laxities' \in [Tasks -> Int]
  /\ running' \in Tasks \cup {None}
  /\ ts' \in [0 .. hyper -> Tasks \cup {None}]
  /\ misses' \subseteq Tasks /\ missIdx' \in {None} \cup 0 .. hyper
  /\ misses' = {} <=> missIdx' = None
  /\ run' \in BOOLEAN /\ (run' <=> misses' = {})

LEMMA TurnedTypes ==
  ASSUME SimIInv, slot \in 0 .. hyper, Turned
  PROVE  TypeOK' /\ RunInv'
<1>1. UNCHANGED <<policy, config, hyper, runtime>>
  BY DEF Turned, input
<1>2. Tasks' = Tasks
  BY <1>1 DEF Tasks
<1>3. \A i : Execution(i)' = Execution(i) /\ Period(i)' = Period(i)
  BY <1>1 DEF Execution, Period
<1>4. slot' \in 0 .. hyper + 1 /\ slot' # 0
  BY DEF Turned, SimIInv, TypeOK
<1>5. /\ policy \in Policies /\ config \in Configs
      /\ hyper \in Nat \ {0} /\ \A i \in Tasks : hyper % Period(i) = 0
      /\ runtime \in Bijection(Tasks, Tasks)
  BY DEF SimIInv, TypeOK
<1>6. TypeOK'
  BY <1>1, <1>2, <1>3, <1>4, <1>5 DEF TypeOK, Turned
<1>7. RunInv'
  BY <1>4 DEF RunInv, Turned
<1> QED
  BY <1>6, <1>7

-----------------------------------------------------------------------------
(* Rate monotonic                                                          *)

LEMMA RmRunsStep ==
  ASSUME SimIInv, policy = "rm", NEW i \in Tasks \cup {None},
         NEW left \in [Tasks -> Nat], \A j \in Tasks : left[j] <= Execution(j),
         i # None => left[i] # 0, RmRuns(i, left)
  PROVE  /\ UNCHANGED input
         /\ slot' = slot + 1
         /\ timeLeft' \in [Tasks -> Nat] /\ \A j \in Tasks : timeLeft'[j] <= Execution(j)
         /\ completed' \in [Tasks -> BOOLEAN] /\ laxities' \in [Tasks -> Int]
         /\ running' \in Tasks \cup {None}
         /\ ts' \in [0 .. hyper -> Tasks \cup {None}]
<1>1. None \notin Tasks /\ \A j \in Tasks : Execution(j) \in Nat
  BY ConfigFacts DEF SimIInv, TypeOK
<1>2. timeLeft' = Spend(left, i)
  BY DEF RmRuns
<1>3. /\ Spend(left, i) \in [Tasks -> Nat]
      /\ \A j \in Tasks : Spend(left, i)[j] = IF j = i THEN left[j] - 1 ELSE left[j]
  BY <1>1, SpendTypes
<1>4. timeLeft' \in [Tasks -> Nat] /\ \A j \in Tasks : timeLeft'[j] <= Execution(j)
  BY <1>1, <1>2, <1>3
<1>5. ts' \in [0 .. hyper -> Tasks \cup {None}]
  BY ChartTypes DEF RmRuns
<1> QED
  BY <1>4, <1>5 DEF RmRuns, SimIInv, TypeOK

LEMMA RmFirstSlotStep ==
  ASSUME SimIInv, RmFirstSlot
  PROVE  SimIInv'
<1>1. /\ policy = "rm" /\ slot = 0 /\ RmRuns(runtime[0], timeLeft)
      /\ UNCHANGED <<run, misses, missIdx>>
  BY DEF RmFirstSlot
<1>2. 0 \in Tasks
  BY ConfigFacts DEF SimIInv, TypeOK
<1>3. runtime[0] \in Tasks
  BY <1>2 DEF SimIInv, TypeOK, Bijection, Injection
<1>4. timeLeft[runtime[0]] # 0
  BY <1>1, <1>3 DEF SimIInv, RunInv
<1>5. /\ timeLeft \in [Tasks -> Nat] /\ \A j \in Tasks : timeLeft[j] <= Execution(j)
      /\ slot \in 0 .. hyper
  BY <1>1 DEF SimIInv, TypeOK
<1>6. Turned
  <2>1. /\ run \in BOOLEAN /\ (run <=> misses = {}) /\ misses \subseteq Tasks
        /\ missIdx \in {None} \cup 0 .. hyper /\ (misses = {} <=> missIdx = None)
    BY DEF SimIInv, TypeOK, RunInv
  <2>2. /\ run' = run /\ misses' = misses /\ missIdx' = missIdx
    BY <1>1
  <2>3. runtime[0] \in Tasks \cup {None} /\ (runtime[0] # None => timeLeft[runtime[0]] # 0)
    BY <1>3, <1>4
  <2>4. /\ UNCHANGED input
        /\ slot' = slot + 1
        /\ timeLeft' \in [Tasks -> Nat] /\ \A j \in Tasks : timeLeft'[j] <= Execution(j)
        /\ completed' \in [Tasks -> BOOLEAN] /\ laxities' \in [Tasks -> Int]
        /\ running' \in Tasks \cup {None}
        /\ ts' \in [0 .. hyper -> Tasks \cup {None}]
    BY <1>1, <1>5, <2>3, RmRunsStep
  <2> QED
    BY <2>1, <2>2, <2>4 DEF Turned
<1>7. policy' = "rm"
  BY <1>1, <1>6 DEF Turned, input
<1>8. TypeOK' /\ RunInv'
  BY <1>5, <1>6, TurnedTypes
<1> QED
  BY <1>7, <1>8 DEF SimIInv, EdfInv, LlfInv

\* check_highest_priority returns a task with work left, or none.
LEMMA HighestHasWork ==
  ASSUME SimIInv, NEW left \in [Tasks -> Nat]
  PROVE  LET i == check_highest_priority(left)
         IN  i \in Tasks \cup {None} /\ (i # None => left[i] # 0)
<1> DEFINE unfinished == {k \in 0 .. IndexOf(running) : left[runtime[k]] # 0}
           i == check_highest_priority(left)
<1>1. PICK n \in 1 .. MaxTasks : Tasks = 0 .. n - 1
  BY ConfigFacts DEF SimIInv, TypeOK
<1>2. n \in Nat \ {0} /\ Cardinality(0 .. n - 1) = n
  BY MaxTasksAssumption, FS_Interval
<1>3. IndexOf(running) \in Tasks
  <2>1. CASE running = None
    BY <1>1, <1>2, <2>1 DEF IndexOf
  <2>2. CASE running # None
    <3>1. running \in Tasks /\ runtime \in Bijection(Tasks, Tasks)
      BY <2>2 DEF SimIInv, TypeOK
    <3>2. \E k \in Tasks : runtime[k] = running
      BY <3>1 DEF Bijection, Surjection
    <3> QED
      BY <2>2, <3>2 DEF IndexOf
  <2> QED
    BY <2>1, <2>2
<1>4. unfinished \subseteq Tasks /\ unfinished \subseteq Nat
  BY <1>1, <1>2, <1>3
<1>5. \A k \in unfinished : left[runtime[k]] # 0
  OBVIOUS
<1>6. i = IF unfinished = {} THEN None ELSE runtime[Min(unfinished)]
  BY DEF check_highest_priority
<1> HIDE DEF unfinished, i
<1>7. unfinished # {} => Min(unfinished) \in unfinished
  BY <1>4, LeastNatural DEF Min
<1>8. \A k \in Tasks : runtime[k] \in Tasks
  BY DEF SimIInv, TypeOK, Bijection, Injection
<1>9. i \in Tasks \cup {None} /\ (i # None => left[i] # 0)
  BY <1>4, <1>5, <1>6, <1>7, <1>8
<1> QED
  BY <1>9 DEF i

LEMMA MissedTypes == Missed \in SUBSET Tasks
BY DEF Missed, Due

LEMMA RmSlotStep ==
  ASSUME SimIInv, RmSlot
  PROVE  SimIInv'
<1> DEFINE i == check_highest_priority(LeftAtStart)
<1>1. /\ policy = "rm" /\ run /\ slot \in 1 .. hyper /\ RecordMisses(Missed)
      /\ RmRuns(i, LeftAtStart)
  BY DEF RmSlot
<1>2. slot \in 0 .. hyper
  BY <1>1
<1>3. i \in Tasks \cup {None} /\ (i # None => LeftAtStart[i] # 0)
  BY LeftAtStartTypes, HighestHasWork
<1> HIDE DEF i
<1>4. Turned
  BY <1>1, <1>2, <1>3, LeftAtStartTypes, RmRunsStep, RecordTypes, MissedTypes DEF Turned
<1>5. policy' = "rm"
  BY <1>1, <1>4 DEF Turned, input
<1>6. TypeOK' /\ RunInv'
  BY <1>2, <1>4, TurnedTypes
<1> QED
  BY <1>5, <1>6 DEF SimIInv, EdfInv, LlfInv

-----------------------------------------------------------------------------
(* Earliest deadline first                                                 *)

\* get_task_closest_deadline returns one of the tasks that are due first.
LEMMA ClosestIsDue ==
  ASSUME SimIInv, NEW due \in SUBSET Tasks
  PROVE  LET i == get_task_closest_deadline(due)
         IN  IF due = {} THEN i = None
                         ELSE i \in due /\ (running \in due => i = running)
<1>1. CASE due = {}
  BY <1>1 DEF get_task_closest_deadline
<1>2. CASE running \in due
  BY <1>2 DEF get_task_closest_deadline
<1>3. CASE due # {} /\ running \notin due
  <2>1. PICK n \in 1 .. MaxTasks : Tasks = 0 .. n - 1
    BY ConfigFacts DEF SimIInv, TypeOK
  <2>2. n \in Nat /\ due \subseteq Nat /\ \A k \in due : k <= n
    BY <2>1, MaxTasksAssumption
  <2>3. \E m \in due : \A k \in due : m >= k
    BY <1>3, <2>2, GreatestNatural
  <2>4. Max(due) \in due
    BY <2>3 DEF Max
  <2> QED
    BY <1>3, <2>4 DEF get_task_closest_deadline
<1> QED
  BY <1>1, <1>2, <1>3

\* deadline_completed after the releases of a slot.
Complete == [i \in Tasks |-> completed[i] /\ i \notin Released]

LEMMA CompleteFacts ==
  ASSUME SimIInv, policy = "edf", run
  PROVE  /\ Complete \in [Tasks -> BOOLEAN]
         /\ \A i \in Tasks : ~Complete[i] => LeftAtStart[i] # 0
         /\ \A i \in Tasks : i \notin Missed => (Complete[i] <=> LeftAtStart[i] = 0)
         /\ DueFirst(Complete) \in SUBSET {i \in Tasks : ~Complete[i]}
<1>1. \A i \in Tasks : Execution(i) \in Nat \ {0}
  BY ConfigFacts DEF SimIInv, TypeOK
<1>2. \A i \in Tasks : completed[i] <=> timeLeft[i] = 0
  BY DEF SimIInv, EdfInv
<1>3. \A i \in Tasks : LeftAtStart[i] =
        IF i \in Released THEN Execution(i) ELSE timeLeft[i]
  BY LeftAtStartTypes
<1>4. completed \in [Tasks -> BOOLEAN]
  BY DEF SimIInv, TypeOK
<1>5. \A i \in Tasks : Complete[i] = (completed[i] /\ i \notin Released)
  BY DEF Complete
<1>6. Complete \in [Tasks -> BOOLEAN]
  BY <1>4 DEF Complete
<1>7. \A i \in Tasks : Complete[i] <=> LeftAtStart[i] = 0
  BY <1>1, <1>2, <1>3, <1>5
<1>8. DueFirst(Complete) \in SUBSET {i \in Tasks : ~Complete[i]}
  BY DEF DueFirst
<1> QED
  BY <1>6, <1>7, <1>8

\* A turn of edf, with the task it chooses.
LEMMA EdfTurn ==
  ASSUME SimIInv, EdfSlot
  PROVE  /\ policy = "edf" /\ run /\ slot \in 0 .. hyper /\ RecordMisses(Missed)
         /\ UNCHANGED <<input, laxities>> /\ slot' = slot + 1
         /\ running' = get_task_closest_deadline(DueFirst(Complete))
         /\ timeLeft' = Spend(LeftAtStart, running')
         /\ completed' = [j \in Tasks |-> Complete[j]
                                            \/ (j = running' /\ timeLeft'[j] = 0)]
         /\ ts' = [ts EXCEPT ![slot] = running']
BY DEF EdfSlot, Complete

LEMMA EdfSlotStep ==
  ASSUME SimIInv, EdfSlot
  PROVE  SimIInv'
<1>1. /\ policy = "edf" /\ run /\ slot \in 0 .. hyper /\ RecordMisses(Missed)
      /\ UNCHANGED <<input, laxities>> /\ slot' = slot + 1
      /\ running' = get_task_closest_deadline(DueFirst(Complete))
      /\ timeLeft' = Spend(LeftAtStart, running')
      /\ completed' = [j \in Tasks |-> Complete[j] \/ (j = running' /\ timeLeft'[j] = 0)]
      /\ ts' = [ts EXCEPT ![slot] = running']
  BY EdfTurn
<1>2. /\ None \notin Tasks /\ \A j \in Tasks : Execution(j) \in Nat
  BY ConfigFacts DEF SimIInv, TypeOK
<1>3. /\ Complete \in [Tasks -> BOOLEAN]
      /\ \A i \in Tasks : ~Complete[i] => LeftAtStart[i] # 0
      /\ \A i \in Tasks : i \notin Missed => (Complete[i] <=> LeftAtStart[i] = 0)
      /\ DueFirst(Complete) \in SUBSET {i \in Tasks : ~Complete[i]}
  BY <1>1, CompleteFacts
<1>4. running' \in Tasks \cup {None} /\ (running' # None => ~Complete[running'])
  <2> DEFINE due == DueFirst(Complete)
  <2>1. due \in SUBSET Tasks
    BY <1>3
  <2>2. running' = get_task_closest_deadline(due)
    BY <1>1
  <2>3. due \subseteq {i \in Tasks : ~Complete[i]}
    BY <1>3
  <2> HIDE DEF due
  <2>4. IF due = {} THEN running' = None ELSE running' \in due
    BY <2>1, <2>2, ClosestIsDue
  <2> QED
    BY <2>3, <2>4
<1>5. running' # None => LeftAtStart[running'] # 0
  BY <1>3, <1>4
<1>6. /\ LeftAtStart \in [Tasks -> Nat]
      /\ \A i \in Tasks : LeftAtStart[i] <= Execution(i)
  BY LeftAtStartTypes
<1>7. /\ timeLeft' \in [Tasks -> Nat]
      /\ \A j \in Tasks : timeLeft'[j] =
           IF j = running' THEN LeftAtStart[j] - 1 ELSE LeftAtStart[j]
  BY <1>1, <1>2, <1>4, <1>5, <1>6, SpendTypes
<1>8. \A j \in Tasks : timeLeft'[j] <= Execution(j)
  BY <1>2, <1>6, <1>7
<1>9. /\ completed' \in [Tasks -> BOOLEAN]
      /\ \A j \in Tasks :
           completed'[j] = (Complete[j] \/ (j = running' /\ timeLeft'[j] = 0))
  BY <1>1, <1>3
<1>10. /\ run' \in BOOLEAN /\ (run' <=> misses' = {}) /\ (run' <=> Missed = {})
       /\ misses' \subseteq Tasks /\ missIdx' \in {None} \cup 0 .. hyper
       /\ (misses' = {} <=> missIdx' = None)
  BY <1>1, RecordTypes, MissedTypes
<1>11. ts' \in [0 .. hyper -> Tasks \cup {None}]
  BY <1>1, <1>4, ChartTypes
<1>12. laxities' \in [Tasks -> Int]
  BY <1>1 DEF SimIInv, TypeOK
<1>13. Turned
  BY <1>1, <1>4, <1>7, <1>8, <1>9, <1>10, <1>11, <1>12 DEF Turned
<1>14. TypeOK' /\ RunInv'
  BY <1>1, <1>13, TurnedTypes
<1>15. EdfInv'
  <2>1. ASSUME run', NEW j \in Tasks PROVE completed'[j] <=> timeLeft'[j] = 0
    <3>1. j \notin Missed
      BY <1>10, <2>1
    <3>2. Complete[j] <=> LeftAtStart[j] = 0
      BY <1>3, <3>1
    <3>3. LeftAtStart[j] \in Nat
      BY <1>6
    <3>4. CASE j = running'
      BY <1>3, <1>4, <1>7, <1>9, <3>2, <3>4
    <3>5. CASE j # running'
      BY <1>7, <1>9, <3>2, <3>5
    <3> QED
      BY <3>4, <3>5
  <2>2. Tasks' = Tasks
    BY <1>1 DEF Tasks, input
  <2> QED
    BY <2>1, <2>2 DEF EdfInv
<1>16. policy' = "edf"
  BY <1>1 DEF input
<1> QED
  BY <1>14, <1>15, <1>16 DEF SimIInv, LlfInv

-----------------------------------------------------------------------------
(* Least laxity first                                                      *)

LEMMA LeastLaxFacts ==
  ASSUME SimIInv, NEW lax \in [Tasks -> Int]
  PROVE  LET i == LeastLaxTask(lax)
             least == {j \in Tasks : lax[j] < INT_MAX /\ \A k \in Tasks : lax[j] <= lax[k]}
         IN  IF least = {} THEN i = None ELSE i \in least
<1> DEFINE least == {j \in Tasks : lax[j] < INT_MAX /\ \A k \in Tasks : lax[j] <= lax[k]}
           i == LeastLaxTask(lax)
<1>1. i = IF least = {} THEN None ELSE Min(least)
  BY DEF LeastLaxTask
<1>2. least \subseteq Nat
  BY ConfigFacts DEF SimIInv, TypeOK
<1> HIDE DEF least, i
<1>3. least # {} => Min(least) \in least
  BY <1>2, LeastNatural DEF Min
<1>4. IF least = {} THEN i = None ELSE i \in least
  BY <1>1, <1>3
<1> QED
  BY <1>4 DEF least, i

\* The variables of a turn of llf after its releases.
LlfDueNow == {i \in Tasks : LlfDue(i)}
LlfMissed == {i \in LlfDueNow : timeLeft[i] # 0}
LlfLeft == [i \in Tasks |-> IF i \in LlfDueNow THEN Execution(i) ELSE timeLeft[i]]
LlfLax ==
  [i \in Tasks |-> IF i \in LlfDueNow THEN Period(i) - Execution(i) ELSE laxities[i]]

LEMMA LlfTurn ==
  ASSUME LlfSlot
  PROVE  /\ policy = "llf" /\ run /\ slot \in 0 .. hyper /\ RecordMisses(LlfMissed)
         /\ UNCHANGED <<input, completed>> /\ slot' = slot + 1
         /\ LlfMissed # {} \/ slot = hyper =>
              /\ timeLeft' = LlfLeft /\ laxities' = LlfLax /\ UNCHANGED <<running, ts>>
         /\ ~(LlfMissed # {} \/ slot = hyper) =>
              /\ running' = LeastLaxTask(LlfLax)
              /\ timeLeft' = Spend(LlfLeft, running')
              /\ laxities' = LaxitiesAfter(LlfLax, timeLeft', running')
              /\ ts' = [ts EXCEPT ![slot] = running']
BY DEF LlfSlot, LlfDueNow, LlfMissed, LlfLeft, LlfLax

\* The laxities after the releases: the time to the deadline less the work left.
LEMMA LlfLaxFacts ==
  ASSUME SimIInv, policy = "llf", run, slot \in 0 .. hyper, LlfMissed = {}
  PROVE  /\ LlfLeft \in [Tasks -> Nat] /\ LlfLax \in [Tasks -> Int]
         /\ \A i \in Tasks : LlfLeft[i] <= Execution(i)
         /\ slot < hyper =>
              \A i \in Tasks : LlfLax[i] = IF LlfLeft[i] = 0 THEN INT_MAX
                                           ELSE DueAt(i) - slot - LlfLeft[i]
<1>1. \A i \in Tasks : /\ Execution(i) \in Nat \ {0} /\ Period(i) \in Nat \ {0}
                       /\ timeLeft[i] \in Nat /\ timeLeft[i] <= Execution(i)
                       /\ laxities[i] \in Int
  BY ConfigFacts DEF SimIInv, TypeOK
<1>2. /\ LlfLeft \in [Tasks -> Nat] /\ LlfLax \in [Tasks -> Int]
      /\ \A i \in Tasks : LlfLeft[i] <= Execution(i)
  BY <1>1 DEF LlfLeft, LlfLax
<1>3. ASSUME slot < hyper, NEW i \in Tasks
      PROVE  LlfLax[i] = IF LlfLeft[i] = 0 THEN INT_MAX ELSE DueAt(i) - slot - LlfLeft[i]
  <2>1. slot \in Nat /\ hyper \in Nat
    BY DEF SimIInv, TypeOK
  <2>2. i \in LlfDueNow <=> slot % Period(i) = 0
    BY <1>3, <2>1 DEF LlfDueNow, LlfDue, Deadline
  <2>3. CASE i \in LlfDueNow
    <3>1. /\ LlfLeft[i] = Execution(i) /\ LlfLax[i] = Period(i) - Execution(i)
      BY <2>3 DEF LlfLeft, LlfLax
    <3>2. DueAt(i) = slot - 0 + Period(i)
      BY <2>2, <2>3 DEF DueAt
    <3> QED
      BY <1>1, <2>1, <3>1, <3>2
  <2>4. CASE i \notin LlfDueNow
    <3>1. LlfLeft[i] = timeLeft[i] /\ LlfLax[i] = laxities[i]
      BY <2>4 DEF LlfLeft, LlfLax
    <3>2. slot # 0
      <4>1. 0 % Period(i) = 0
        BY <1>1, ZeroMultiple
      <4> QED
        BY <2>2, <2>4, <4>1
    <3>3. NextDeadline(i) = DueAt(i)
      BY <2>2, <2>4 DEF NextDeadline, DueAt
    <3>4. slot \in 1 .. hyper
      BY <2>1, <3>2
    <3> QED
      BY <3>1, <3>3, <3>4 DEF SimIInv, LlfInv
  <2> QED
    BY <2>3, <2>4
<1> QED
  BY <1>2, <1>3

\* The deadline of a job seen from the next slot.
LEMMA DeadlineStays ==
  ASSUME NEW p \in Nat \ {0}, NEW s \in Nat
  PROVE  (IF (s + 1) % p = 0 THEN s + 1 ELSE (s + 1) - ((s + 1) % p) + p)
           = s - (s % p) + p
<1>1. /\ s % p \in 0 .. p - 1
      /\ (s + 1) % p = IF (s % p) + 1 = p THEN 0 ELSE (s % p) + 1
  BY NextRemainder
<1> DEFINE r == s % p
           q == (s + 1) % p
<1>2. r \in 0 .. p - 1 /\ q = IF r + 1 = p THEN 0 ELSE r + 1
  BY <1>1
<1> HIDE DEF r, q
<1>3. (IF q = 0 THEN s + 1 ELSE (s + 1) - q + p) = s - r + p
  BY <1>2
<1> QED
  BY <1>3 DEF r, q

LEMMA LlfSlotStep ==
  ASSUME SimIInv, LlfSlot
  PROVE  SimIInv'
<1>1. /\ policy = "llf" /\ run /\ slot \in 0 .. hyper /\ RecordMisses(LlfMissed)
      /\ UNCHANGED <<input, completed>> /\ slot' = slot + 1
      /\ LlfMissed # {} \/ slot = hyper =>
           /\ timeLeft' = LlfLeft /\ laxities' = LlfLax /\ UNCHANGED <<running, ts>>
      /\ ~(LlfMissed # {} \/ slot = hyper) =>
           /\ running' = LeastLaxTask(LlfLax)
           /\ timeLeft' = Spend(LlfLeft, running')
           /\ laxities' = LaxitiesAfter(LlfLax, timeLeft', running')
           /\ ts' = [ts EXCEPT ![slot] = running']
  BY LlfTurn
<1>2. /\ None \notin Tasks
      /\ \A i \in Tasks : /\ Execution(i) \in Nat \ {0} /\ Period(i) \in Nat \ {0}
                          /\ timeLeft[i] \in Nat /\ timeLeft[i] <= Execution(i)
                          /\ laxities[i] \in Int
  BY ConfigFacts DEF SimIInv, TypeOK
<1>3. /\ LlfLeft \in [Tasks -> Nat] /\ LlfLax \in [Tasks -> Int]
      /\ \A i \in Tasks : LlfLeft[i] <= Execution(i)
  BY <1>2 DEF LlfLeft, LlfLax
<1>4. LlfMissed \in SUBSET Tasks
  BY DEF LlfMissed, LlfDueNow
<1>5. /\ run' \in BOOLEAN /\ (run' <=> misses' = {}) /\ (run' <=> LlfMissed = {})
      /\ misses' \subseteq Tasks /\ missIdx' \in {None} \cup 0 .. hyper
      /\ (misses' = {} <=> missIdx' = None)
  BY <1>1, <1>4, RecordTypes
<1>6. /\ completed' \in [Tasks -> BOOLEAN] /\ slot \in Nat /\ hyper \in Nat
      /\ running \in Tasks \cup {None} /\ ts \in [0 .. hyper -> Tasks \cup {None}]
  BY <1>1 DEF SimIInv, TypeOK
<1>7. policy' = "llf" /\ Tasks' = Tasks /\ hyper' = hyper
      /\ \A i : Period(i)' = Period(i)
  BY <1>1 DEF input, Tasks, Period
<1>8. CASE LlfMissed # {} \/ slot = hyper
  <2>1. Turned
    BY <1>1, <1>3, <1>5, <1>6, <1>8 DEF Turned
  <2>2. TypeOK' /\ RunInv'
    BY <1>1, <2>1, TurnedTypes
  <2>3. LlfInv'
    BY <1>1, <1>5, <1>6, <1>7, <1>8 DEF LlfInv
  <2> QED
    BY <1>7, <2>2, <2>3 DEF SimIInv, EdfInv
<1>9. CASE LlfMissed = {} /\ slot < hyper
  <2>1. /\ running' = LeastLaxTask(LlfLax)
        /\ timeLeft' = Spend(LlfLeft, running')
        /\ laxities' = LaxitiesAfter(LlfLax, timeLeft', running')
        /\ ts' = [ts EXCEPT ![slot] = running']
    BY <1>1, <1>6, <1>9
  <2>2. \A i \in Tasks : LlfLax[i] = IF LlfLeft[i] = 0 THEN INT_MAX
                                     ELSE DueAt(i) - slot - LlfLeft[i]
    BY <1>1, <1>9, LlfLaxFacts
  <2>3. running' \in Tasks \cup {None} /\ (running' # None => LlfLax[running'] < INT_MAX)
    BY <1>3, <2>1, LeastLaxFacts
  <2>4. running' # None => LlfLeft[running'] # 0
    <3> SUFFICES ASSUME running' \in Tasks, LlfLax[running'] < INT_MAX,
                        LlfLeft[running'] = 0
                 PROVE  FALSE
      BY <2>3
    <3>1. LlfLax[running'] = INT_MAX
      BY <2>2
    <3> QED
      BY <3>1 DEF INT_MAX
  <2>5. /\ timeLeft' \in [Tasks -> Nat]
        /\ \A j \in Tasks : timeLeft'[j] =
             IF j = running' THEN LlfLeft[j] - 1 ELSE LlfLeft[j]
    BY <1>2, <1>3, <2>1, <2>3, <2>4, SpendTypes
  <2>6. \A j \in Tasks : timeLeft'[j] <= Execution(j)
    BY <1>2, <1>3, <2>5
  <2>7. \A j \in Tasks : laxities'[j] =
          IF timeLeft'[j] = 0 THEN INT_MAX
          ELSE IF j = running' THEN LlfLax[j] ELSE LlfLax[j] - 1
    BY <2>1 DEF LaxitiesAfter
  <2>8. laxities' \in [Tasks -> Int]
    <3>1. \A j \in Tasks : LlfLax[j] \in Int /\ INT_MAX \in Int
      BY <1>3 DEF INT_MAX
    <3>2. laxities' = [j \in Tasks |-> laxities'[j]]
      BY <2>1 DEF LaxitiesAfter
    <3> QED
      BY <2>7, <3>1, <3>2
  <2>9. ts' \in [0 .. hyper -> Tasks \cup {None}]
    BY <2>1, <2>3, ChartTypes
  <2>10. Turned
    BY <1>1, <1>5, <1>6, <2>3, <2>5, <2>6, <2>8, <2>9 DEF Turned
  <2>11. TypeOK' /\ RunInv'
    BY <1>1, <2>10, TurnedTypes
  <2>12. LlfInv'
    <3>1. ASSUME NEW j \in Tasks
          PROVE  laxities'[j] = IF timeLeft'[j] = 0 THEN INT_MAX
                                ELSE NextDeadline(j)' - slot' - timeLeft'[j]
      <4>1. NextDeadline(j)' = DueAt(j)
        BY <1>1, <1>2, <1>6, <1>7, DeadlineStays DEF NextDeadline, DueAt
      <4>2. DueAt(j) \in Int /\ LlfLeft[j] \in Nat /\ LlfLax[j] \in Int
        <5>1. DueAt(j) \in Nat
          BY <1>2, <1>6, NextMultiple DEF DueAt
        <5> QED
          BY <1>3, <5>1
      <4>3. /\ LlfLax[j] = IF LlfLeft[j] = 0 THEN INT_MAX
                           ELSE DueAt(j) - slot - LlfLeft[j]
            /\ timeLeft'[j] = IF j = running' THEN LlfLeft[j] - 1 ELSE LlfLeft[j]
            /\ timeLeft'[j] \in Nat
        BY <2>2, <2>5
      <4>4. CASE timeLeft'[j] = 0
        BY <2>7, <4>4
      <4>5. CASE timeLeft'[j] # 0 /\ j = running'
        BY <1>1, <1>6, <2>7, <4>1, <4>2, <4>3, <4>5
      <4>6. CASE timeLeft'[j] # 0 /\ j # running'
        BY <1>1, <1>6, <2>7, <4>1, <4>2, <4>3, <4>6
      <4> QED
        BY <4>4, <4>5, <4>6
    <3> QED
      BY <1>7, <3>1 DEF LlfInv
  <2> QED
    BY <1>7, <2>11, <2>12 DEF SimIInv, EdfInv
<1> QED
  BY <1>6, <1>8, <1>9, <1>1

-----------------------------------------------------------------------------
LEMMA SimFrame ==
  ASSUME SimIInv, UNCHANGED vars
  PROVE  SimIInv'
<1>1. UNCHANGED <<policy, config, hyper, runtime, slot, run, timeLeft, completed,
                  laxities, running, ts, misses, missIdx>>
  BY DEF vars, input
<1>2. TypeOK'
  <2>1. TypeOK
    BY DEF SimIInv
  <2> QED
    BY <1>1, <2>1 DEF TypeOK, Tasks, Execution, Period
<1>3. RunInv' /\ EdfInv'
  BY <1>1 DEF SimIInv, RunInv, EdfInv, Tasks
<1>4. LlfInv'
  BY <1>1 DEF SimIInv, LlfInv, Tasks, NextDeadline, Period
<1> QED
  BY <1>2, <1>3, <1>4 DEF SimIInv

LEMMA SimStep == SimIInv /\ [Next]_vars => SimIInv'
<1> SUFFICES ASSUME SimIInv, [Next]_vars PROVE SimIInv'
  OBVIOUS
<1> QED
  BY SimFrame, RmFirstSlotStep, RmSlotStep, EdfSlotStep, LlfSlotStep DEF Next

LEMMA SimInvariant == Spec => []SimIInv
BY InitSim, SimStep, PTL DEF Spec

(* The tables of a simulation keep their types: time_left is never         *)
(* negative and never more than the execution time, the hyperperiod that   *)
(* get_lcm_from_array computed is a multiple of every period, and a miss   *)
(* is recorded with its slot or not at all (simulation.c).                 *)
THEOREM SimulationTypes == Spec => []TypeOK
<1>1. SimIInv => TypeOK
  BY DEF SimIInv
<1> QED
  BY <1>1, SimInvariant, PTL

LEMMA CachesRight == SimIInv => CachesExact
<1> SUFFICES ASSUME SimIInv, ~Over PROVE CachesExact
  BY DEF CachesExact
<1>1. run /\ slot \in Nat /\ slot <= hyper /\ hyper \in Nat
  BY DEF Over, SimIInv, TypeOK
<1>2. slot > 0 => slot \in 1 .. hyper
  BY <1>1
<1> QED
  BY <1>1, <1>2 DEF CachesExact, SimIInv, EdfInv, LlfInv

(* As long as a simulator goes on, the laxities that llf decreases slot by *)
(* slot are the time to the deadline less the work left, and               *)
(* deadline_completed in edf says which tasks have work left               *)
(* (simulation.c, llf_simulation and edf_simulation).                      *)
THEOREM CachesAreExact == Spec => []CachesExact
BY CachesRight, SimInvariant, PTL

\* edf leaves a task with work left only for a closer deadline.
LEMMA EdfKeepsCurrent ==
  ASSUME SimIInv, EdfSlot, slot > 0, running # None, timeLeft[running] # 0,
         running \notin Missed
  PROVE  running' = running \/ DueAt(running') < DueAt(running)
<1> DEFINE due(s) == {i \in Tasks : Deadline(i, s) /\ ~Complete[i]}
           slots == {s \in slot + 1 .. hyper : due(s) # {}}
           d == DueAt(running)
<1>1. /\ policy = "edf" /\ run /\ slot \in 0 .. hyper
      /\ running' = get_task_closest_deadline(DueFirst(Complete))
  BY EdfTurn
<1>2. /\ slot \in Nat /\ hyper \in Nat /\ running \in Tasks
      /\ \A i \in Tasks : Period(i) \in Nat \ {0} /\ hyper % Period(i) = 0
  BY ConfigFacts DEF SimIInv, TypeOK
<1>3. slot % Period(running) # 0 /\ running \notin Released
  BY <1>2 DEF Missed, Released, Due, Deadline
<1>4. slot < hyper
  BY <1>1, <1>2, <1>3
<1>5. ~Complete[running]
  BY <1>1, <1>2, <1>3 DEF SimIInv, EdfInv, Complete
<1>6. \A i \in Tasks :
        /\ DueAt(i) \in Nat /\ DueAt(i) > slot /\ DueAt(i) % Period(i) = 0
        /\ \A m \in Nat : m > slot /\ m % Period(i) = 0 => DueAt(i) <= m
  BY <1>2, NextMultiple DEF DueAt
<1>7. d \in slots /\ running \in due(d)
  <2>1. d \in slot + 1 .. hyper
    BY <1>2, <1>4, <1>6
  <2>2. running \in due(d)
    BY <1>2, <1>5, <1>6 DEF Deadline
  <2> QED
    BY <2>1, <2>2
<1>8. slots \subseteq Nat /\ \A s \in slots : s > slot /\ due(s) # {}
  BY <1>2
<1>9. DueFirst(Complete) = IF slots = {} THEN {} ELSE due(Min(slots))
  BY DEF DueFirst
<1>10. \A s : due(s) \in SUBSET Tasks /\ \A i \in due(s) : s % Period(i) = 0
  BY DEF Deadline
<1> HIDE DEF slots, due
<1>11. \E m \in slots : \A n \in slots : m <= n
  BY <1>7, <1>8, LeastNatural
<1> DEFINE m == Min(slots)
<1>12. m \in slots /\ m <= d
  <2>1. m \in slots /\ \A n \in slots : m <= n
    BY <1>11 DEF Min
  <2> QED
    BY <1>7, <2>1
<1> HIDE DEF m
<1>13. running' = get_task_closest_deadline(due(m)) /\ due(m) # {}
  BY <1>1, <1>7, <1>8, <1>9, <1>12 DEF m
<1>14. running' \in due(m) /\ (running \in due(m) => running' = running)
  <2>1. due(m) \in SUBSET Tasks
    BY <1>10
  <2> QED
    BY <1>13, <2>1, ClosestIsDue
<1>15. CASE m = d
  BY <1>7, <1>14, <1>15
<1>16. CASE m < d
  <2>1. running' \in Tasks /\ m % Period(running') = 0 /\ m \in Nat /\ m > slot
    BY <1>8, <1>10, <1>12, <1>14
  <2>2. DueAt(running') <= m
    BY <1>6, <2>1
  <2>3. DueAt(running') \in Nat /\ d \in Nat
    BY <1>2, <1>6, <2>1
  <2> QED
    BY <1>16, <2>1, <2>2, <2>3
<1>17. m \in Nat /\ d \in Nat
  BY <1>2, <1>6, <1>8, <1>12
<1> QED
  BY <1>12, <1>15, <1>16, <1>17

(* edf stays with the task that runs until another one has a closer        *)
(* deadline ("prefer current task", get_task_closest_deadline in           *)
(* simulation.c): what the ties between deadlines can never cause is a     *)
(* change of tasks.                                                        *)
THEOREM CurrentIsKept == Spec => KeepsCurrent
<1> DEFINE A == policy = "edf" /\ slot > 0 /\ running # None /\ timeLeft[running] # 0
                /\ running \notin Missed =>
                  \/ running' = running
                  \/ DueAt(running') < DueAt(running)
<1>1. SimIInv /\ [Next]_vars => [A]_vars
  <2> SUFFICES ASSUME SimIInv, Next PROVE A
    OBVIOUS
  <2>1. CASE EdfSlot
    BY <2>1, EdfKeepsCurrent
  <2>2. CASE RmFirstSlot \/ RmSlot \/ LlfSlot
    BY <2>2 DEF RmFirstSlot, RmSlot, LlfSlot
  <2> QED
    BY <2>1, <2>2 DEF Next
<1> QED
  BY <1>1, SimInvariant, PTL DEF Spec, KeepsCurrent

-----------------------------------------------------------------------------
(* The bars of a page                                                      *)

\* The task that the loop of create_ts_blocks meets in slot s, the extra turn
\* after the last slot included.
Met(last, s) == IF s = last + 1 THEN None ELSE ts[s]

\* The recursive equation of the loop.
LoopStep(first, last, g) ==
  [s \in first - 1 .. last + 1 |->
     IF s < first THEN LoopStart(first) ELSE Turn(g[s - 1], s, Met(last, s))]

LEMMA LoopUnfold ==
  ASSUME NEW first, NEW last
  PROVE  create_ts_blocks(first, last) =
           (CHOOSE g : g = LoopStep(first, last, g))[last + 1].bars
BY DEF create_ts_blocks, LoopStep, Met

\* A function that satisfies it exists.
LEMMA LoopExists ==
  ASSUME NEW first \in Nat, NEW last \in Nat, first <= last
  PROVE  \E g : g = LoopStep(first, last, g)
<1> DEFINE D == first - 1 .. last + 1
           Step(g) == LoopStep(first, last, g)
           Solves(g, n) == \A s \in D : s - (first - 1) <= n => g[s] = Step(g)[s]
           S == {n \in Nat : \E g : Solves(g, n)}
<1>1. \A g : \A s \in D : Step(g)[s] =
        IF s < first THEN LoopStart(first) ELSE Turn(g[s - 1], s, Met(last, s))
  BY DEF LoopStep
<1>2. \A s \in D : s \in Int /\ (~(s < first) => s - 1 \in D)
  OBVIOUS
<1>3. 0 \in S
  <2> DEFINE g == [s \in D |-> LoopStart(first)]
  <2>1. ASSUME NEW s \in D, s - (first - 1) <= 0 PROVE g[s] = Step(g)[s]
    <3>1. s < first
      BY <1>2, <2>1
    <3> QED
      BY <1>1, <3>1
  <2> HIDE DEF g
  <2>2. Solves(g, 0)
    BY <2>1
  <2> QED
    BY <2>2
<1> HIDE DEF D, Step
<1>4. ASSUME NEW n \in S PROVE n + 1 \in S
  <2>1. PICK g : Solves(g, n)
    OBVIOUS
  <2> DEFINE h == Step(g)
  <2>2. ASSUME NEW s \in D, s - (first - 1) <= n + 1 PROVE h[s] = Step(h)[s]
    <3>1. CASE s < first
      BY <1>1, <3>1
    <3>2. CASE ~(s < first)
      <4>1. s - 1 \in D /\ (s - 1) - (first - 1) <= n
        BY <1>2, <2>2, <3>2
      <4>2. g[s - 1] = h[s - 1]
        BY <2>1, <4>1
      <4>3. h[s] = Turn(g[s - 1], s, Met(last, s))
        BY <1>1, <3>2
      <4> HIDE DEF h
      <4>4. Step(h)[s] = Turn(h[s - 1], s, Met(last, s))
        BY <1>1, <3>2
      <4> QED
        BY <4>2, <4>3, <4>4
    <3> QED
      BY <3>1, <3>2
  <2> HIDE DEF h
  <2>3. Solves(h, n + 1)
    BY <2>2
  <2> QED
    BY <2>3
<1> HIDE DEF S
<1>5. last + 2 - first \in S
  <2>1. last + 2 - first \in Nat
    OBVIOUS
  <2> QED
    BY <1>3, <1>4, <2>1, Induct
<1>6. PICK g : Solves(g, last + 2 - first)
  BY <1>5 DEF S
<1>7. ASSUME NEW s \in D PROVE g[s] = Step(g)[s]
  <2>1. s - (first - 1) <= last + 2 - first
    BY DEF D
  <2> QED
    BY <1>6, <2>1
<1> DEFINE h == Step(g)
<1>8. \A s \in D : g[s] = h[s]
  BY <1>7
<1> HIDE DEF h
<1>9. ASSUME NEW s \in D PROVE h[s] = Step(h)[s]
  <2>1. h[s] = IF s < first THEN LoopStart(first) ELSE Turn(g[s - 1], s, Met(last, s))
    BY <1>1 DEF h
  <2>2. Step(h)[s] =
          IF s < first THEN LoopStart(first) ELSE Turn(h[s - 1], s, Met(last, s))
    BY <1>1
  <2>3. ~(s < first) => g[s - 1] = h[s - 1]
    BY <1>2, <1>8
  <2> QED
    BY <2>1, <2>2, <2>3
<1>10. h = [s \in D |-> h[s]] /\ Step(h) = [s \in D |-> Step(h)[s]]
  BY DEF h, Step, LoopStep, D
<1>11. h = Step(h)
  BY <1>9, <1>10
<1> QED
  BY <1>11 DEF Step

\* The slots under a bar, and what the bars of the slots from first to last
\* have to be.
Span(bar) == bar[2] .. bar[3]

BarsRight(first, last, bars) ==
  /\ bars \subseteq Tasks \X (first .. last) \X (first .. last)
  /\ \A bar \in bars : \A u \in Span(bar) : ts[u] = bar[1]
  /\ \A u \in first .. last : ts[u] # None => \E bar \in bars : u \in Span(bar)
  /\ \A u \in first .. last : \A b, c \in bars : u \in Span(b) /\ u \in Span(c) => b = c
  /\ \A u \in first + 1 .. last : ts[u - 1] = ts[u] =>
       \A bar \in bars : u - 1 \in Span(bar) <=> u \in Span(bar)

\* A task ends in slot end - 1 that began in slot begin.
LEMMA BarAdded ==
  ASSUME NEW first \in Nat, NEW begin \in Nat, NEW end_ \in Nat,
         first <= begin, begin < end_,
         NEW bars, BarsRight(first, begin - 1, bars), NEW task \in Tasks \cup {None},
         \A u \in begin .. end_ - 1 : ts[u] = task,
         first < begin => ts[begin - 1] # task, None \notin Tasks
  PROVE  BarsRight(first, end_ - 1,
                   IF task = None THEN bars ELSE bars \cup {<<task, begin, end_ - 1>>})
<1> DEFINE new == <<task, begin, end_ - 1>>
           all == IF task = None THEN bars ELSE bars \cup {new}
<1>1. /\ \A bar \in bars : /\ bar \in Tasks \X (first .. begin - 1) \X (first .. begin - 1)
                           /\ bar[1] \in Tasks /\ bar[2] \in first .. begin - 1
                           /\ bar[3] \in first .. begin - 1
                           /\ \A u \in Span(bar) : ts[u] = bar[1]
      /\ \A u \in first .. begin - 1 :
           ts[u] # None => \E bar \in bars : u \in Span(bar)
      /\ \A u \in first .. begin - 1 : \A b, c \in bars :
           u \in Span(b) /\ u \in Span(c) => b = c
      /\ \A u \in first + 1 .. begin - 1 : ts[u - 1] = ts[u] =>
           \A bar \in bars : u - 1 \in Span(bar) <=> u \in Span(bar)
  BY DEF BarsRight
<1>2. \A bar \in bars : \A u \in Span(bar) : u \in first .. begin - 1
  BY <1>1 DEF Span
<1>3. new[1] = task /\ new[2] = begin /\ new[3] = end_ - 1
  OBVIOUS
<1>4. Span(new) = begin .. end_ - 1
  BY <1>3 DEF Span
<1>5. \A bar \in all : bar \in bars \/ (bar = new /\ task # None)
  OBVIOUS
<1>6. bars \subseteq all /\ (task # None => new \in all)
  OBVIOUS
<1>7. task # None => new \in Tasks \X (first .. end_ - 1) \X (first .. end_ - 1)
  OBVIOUS
<1> HIDE DEF all, new
<1>8. all \subseteq Tasks \X (first .. end_ - 1) \X (first .. end_ - 1)
  <2>1. ASSUME NEW bar \in bars
        PROVE  bar \in Tasks \X (first .. end_ - 1) \X (first .. end_ - 1)
    <3>1. bar \in Tasks \X (first .. begin - 1) \X (first .. begin - 1)
      BY <1>1
    <3>2. first .. begin - 1 \subseteq first .. end_ - 1
      OBVIOUS
    <3> QED
      BY <3>1, <3>2
  <2> QED
    BY <1>5, <1>7, <2>1
<1>9. \A bar \in all : \A u \in Span(bar) : ts[u] = bar[1]
  BY <1>1, <1>3, <1>4, <1>5
<1>10. ASSUME NEW u \in first .. end_ - 1, ts[u] # None
       PROVE  \E bar \in all : u \in Span(bar)
  <2>1. CASE u < begin
    BY <1>1, <1>6, <1>10, <2>1
  <2>2. CASE u >= begin
    BY <1>4, <1>6, <1>10, <2>2
  <2> QED
    BY <2>1, <2>2
<1>11. ASSUME NEW u \in first .. end_ - 1, NEW b \in all, NEW c \in all,
              u \in Span(b), u \in Span(c)
       PROVE  b = c
  <2>1. CASE u < begin
    BY <1>1, <1>4, <1>5, <1>11, <2>1
  <2>2. CASE u >= begin
    BY <1>2, <1>5, <1>11, <2>2
  <2> QED
    BY <2>1, <2>2
<1>12. ASSUME NEW u \in first + 1 .. end_ - 1, ts[u - 1] = ts[u], NEW bar \in all
       PROVE  u - 1 \in Span(bar) <=> u \in Span(bar)
  <2>1. CASE u < begin
    <3>1. u - 1 \notin begin .. end_ - 1 /\ u \notin begin .. end_ - 1
      BY <2>1
    <3>2. u \in first + 1 .. begin - 1
      BY <2>1
    <3> QED
      BY <1>1, <1>4, <1>5, <1>12, <3>1, <3>2
  <2>2. CASE u = begin
    <3>1. ts[u] = task
      BY <2>2
    <3> QED
      BY <1>12, <2>2, <3>1
  <2>3. CASE u > begin
    <3>1. u - 1 \in begin .. end_ - 1 /\ u \in begin .. end_ - 1
      BY <2>3
    <3>2. u - 1 \notin first .. begin - 1 /\ u \notin first .. begin - 1
      BY <2>3
    <3> QED
      BY <1>2, <1>4, <1>5, <3>1, <3>2
  <2> QED
    BY <2>1, <2>2, <2>3
<1>13. BarsRight(first, end_ - 1, all)
  BY <1>8, <1>9, <1>10, <1>11, <1>12 DEF BarsRight
<1> QED
  BY <1>13 DEF all, new

\* What the loop has done when it leaves slot s.
LoopInv(first, last, s, loop) ==
  /\ loop.task \in Tasks \cup {None}
  /\ loop.start \in first .. s + 1
  /\ s < first => loop.task = None
  /\ s >= first => loop.start <= s /\ loop.end = s
  /\ \A u \in loop.start .. s : Met(last, u) = loop.task
  /\ first < loop.start => ts[loop.start - 1] # loop.task
  /\ BarsRight(first, loop.start - 1, loop.bars)

LEMMA TurnStep ==
  ASSUME NEW first \in Nat, NEW last \in Nat, NEW s \in first - 1 .. last,
         NEW loop, LoopInv(first, last, s, loop), None \notin Tasks,
         \A u \in first .. last : ts[u] \in Tasks \cup {None}
  PROVE  LoopInv(first, last, s + 1, Turn(loop, s + 1, Met(last, s + 1)))
<1> DEFINE met == Met(last, s + 1)
           next == Turn(loop, s + 1, met)
<1>1. /\ loop.task \in Tasks \cup {None} /\ loop.start \in first .. s + 1
      /\ s < first => loop.task = None
      /\ s >= first => loop.start <= s /\ loop.end = s
      /\ \A u \in loop.start .. s : Met(last, u) = loop.task
      /\ first < loop.start => ts[loop.start - 1] # loop.task
      /\ BarsRight(first, loop.start - 1, loop.bars)
  BY DEF LoopInv
<1>2. met \in Tasks \cup {None} /\ s + 1 >= first /\ s + 1 \in Nat
  <2>1. s + 1 # last + 1 => s + 1 \in first .. last
    OBVIOUS
  <2> QED
    BY <2>1 DEF Met
<1>3. \A u \in first .. last : Met(last, u) = ts[u]
  BY DEF Met
<1>4. CASE met = loop.task
  <2>1. next = [loop EXCEPT !.end = s + 1]
    BY <1>4 DEF Turn
  <2> HIDE DEF met, next
  <2>2. /\ next.task = loop.task /\ next.start = loop.start /\ next.bars = loop.bars
        /\ next.end = s + 1
    BY <2>1
  <2>3. ASSUME NEW u \in next.start .. s + 1 PROVE Met(last, u) = next.task
    <3>1. u \in loop.start .. s \/ u = s + 1
      BY <1>1, <2>2, <2>3
    <3> QED
      BY <1>1, <1>4, <2>2, <3>1 DEF met
  <2> QED
    BY <1>1, <1>2, <2>2, <2>3 DEF LoopInv, next, met
<1>5. CASE met # loop.task
  <2> DEFINE bar == <<loop.task, loop.start, loop.end>>
             bars == IF loop.task = None THEN loop.bars ELSE loop.bars \cup {bar}
  <2>1. /\ next.task = met /\ next.start = s + 1 /\ next.end = s + 1
        /\ next.bars = bars
    BY <1>5 DEF Turn
  <2>2. BarsRight(first, s, bars)
    <3>1. CASE s < first
      <4>1. s = first - 1 /\ loop.start = first /\ bars = loop.bars
        BY <1>1, <3>1
      <4> HIDE DEF bars
      <4>2. loop.start - 1 = s
        BY <4>1
      <4> QED
        BY <1>1, <4>1, <4>2
    <3>2. CASE s >= first
      <4>1. /\ loop.start \in Nat /\ s + 1 \in Nat /\ first <= loop.start
            /\ loop.start < s + 1 /\ loop.end = s /\ (s + 1) - 1 = s
        BY <1>1, <3>2
      <4>2. \A u \in loop.start .. (s + 1) - 1 : ts[u] = loop.task
        BY <1>1, <1>3, <4>1
      <4>3. BarsRight(first, (s + 1) - 1,
                      IF loop.task = None THEN loop.bars
                      ELSE loop.bars \cup {<<loop.task, loop.start, (s + 1) - 1>>})
        BY <1>1, <4>1, <4>2, BarAdded
      <4> QED
        BY <4>1, <4>3
    <3> QED
      BY <3>1, <3>2
  <2> HIDE DEF met, next, bars
  <2>3. ASSUME first < s + 1 PROVE ts[s] # met
    <3>1. s >= first
      BY <2>3
    <3>2. Met(last, s) = loop.task /\ ts[s] = Met(last, s)
      BY <1>1, <1>3, <3>1
    <3> QED
      BY <1>5, <3>2
  <2>4. \A u \in s + 1 .. s + 1 : u = s + 1
    OBVIOUS
  <2>5. (s + 1) - 1 = s /\ s + 1 \in first .. (s + 1) + 1
    BY <1>2
  <2>6. LoopInv(first, last, s + 1, next)
    BY <1>2, <2>1, <2>2, <2>3, <2>4, <2>5 DEF LoopInv, met
  <2> QED
    BY <2>6 DEF next, met
<1> QED
  BY <1>4, <1>5

\* create_ts_blocks draws the slots of its page.
LEMMA BlocksRight ==
  ASSUME NEW first \in Nat, NEW last \in Nat, first <= last, None \notin Tasks,
         \A u \in first .. last : ts[u] \in Tasks \cup {None}
  PROVE  BarsRight(first, last, create_ts_blocks(first, last))
<1> DEFINE loop == CHOOSE g : g = LoopStep(first, last, g)
           S == {n \in Nat : n <= last + 2 - first =>
                               LoopInv(first, last, first - 1 + n, loop[first - 1 + n])}
<1>1. loop = LoopStep(first, last, loop)
  BY LoopExists
<1>2. create_ts_blocks(first, last) = loop[last + 1].bars
  BY LoopUnfold
<1> HIDE DEF loop
<1>3. ASSUME NEW s \in first - 1 .. last + 1
      PROVE  loop[s] = IF s < first THEN LoopStart(first)
                       ELSE Turn(loop[s - 1], s, Met(last, s))
  <2>1. LoopStep(first, last, loop)[s] =
          IF s < first THEN LoopStart(first) ELSE Turn(loop[s - 1], s, Met(last, s))
    BY DEF LoopStep
  <2> QED
    BY <1>1, <2>1
<1>4. 0 \in S
  <2>1. loop[first - 1] = LoopStart(first)
    BY <1>3
  <2>2. LoopInv(first, last, first - 1, LoopStart(first))
    BY DEF LoopInv, LoopStart, BarsRight
  <2>3. first - 1 + 0 = first - 1
    OBVIOUS
  <2> QED
    BY <2>1, <2>2, <2>3
<1>5. ASSUME NEW n \in S PROVE n + 1 \in S
  <2> DEFINE s == first - 1 + n
  <2>1. ASSUME n + 1 <= last + 2 - first PROVE LoopInv(first, last, s + 1, loop[s + 1])
    <3>1. s \in first - 1 .. last /\ LoopInv(first, last, s, loop[s])
      BY <2>1
    <3> HIDE DEF s
    <3>2. loop[s + 1] = Turn(loop[s], s + 1, Met(last, s + 1))
      <4>1. s + 1 \in first - 1 .. last + 1 /\ ~(s + 1 < first) /\ (s + 1) - 1 = s
        BY <3>1
      <4> QED
        BY <1>3, <4>1
    <3> QED
      BY <3>1, <3>2, TurnStep
  <2>2. s + 1 = first - 1 + (n + 1)
    OBVIOUS
  <2> QED
    BY <2>1, <2>2
<1> HIDE DEF S
<1>6. last + 2 - first \in S
  <2>1. last + 2 - first \in Nat
    OBVIOUS
  <2> QED
    BY <1>4, <1>5, <2>1, Induct
<1>7. LoopInv(first, last, last + 1, loop[last + 1])
  <2>1. first - 1 + (last + 2 - first) = last + 1
    OBVIOUS
  <2> QED
    BY <1>6, <2>1 DEF S
<1> DEFINE end_ == loop[last + 1]
<1>8. /\ end_.start \in first .. last + 1
      /\ \A u \in end_.start .. last + 1 : Met(last, u) = end_.task
      /\ first < end_.start => ts[end_.start - 1] # end_.task
      /\ BarsRight(first, end_.start - 1, end_.bars)
  BY <1>7 DEF LoopInv
<1> HIDE DEF end_
<1>9. end_.task = None
  BY <1>8 DEF Met
<1>10. CASE end_.start = last + 1
  <2>1. end_.start - 1 = last
    BY <1>10
  <2> QED
    BY <1>2, <1>8, <2>1 DEF end_
<1>11. CASE end_.start <= last
  <2>1. \A u \in end_.start .. (last + 1) - 1 : ts[u] = None
    BY <1>8, <1>9, <1>11 DEF Met
  <2>2. /\ end_.start \in Nat /\ last + 1 \in Nat /\ first <= end_.start
        /\ end_.start < last + 1 /\ (last + 1) - 1 = last
    BY <1>8, <1>11
  <2>3. BarsRight(first, (last + 1) - 1, end_.bars)
    <3> DEFINE b == end_.start
               bars == end_.bars
    <3>1. /\ BarsRight(first, b - 1, bars) /\ (first < b => ts[b - 1] # None)
          /\ \A u \in b .. (last + 1) - 1 : ts[u] = None
          /\ b \in Nat /\ last + 1 \in Nat /\ first <= b /\ b < last + 1
      BY <1>8, <1>9, <2>1, <2>2
    <3> HIDE DEF b, bars
    <3>2. BarsRight(first, (last + 1) - 1,
                    IF None = None THEN bars ELSE bars \cup {<<None, b, (last + 1) - 1>>})
      BY <3>1, BarAdded
    <3> QED
      BY <3>2 DEF bars
  <2> QED
    BY <1>2, <2>2, <2>3 DEF end_
<1> QED
  BY <1>8, <1>10, <1>11

-----------------------------------------------------------------------------
(* The pages                                                               *)

Pages ==
  [first : Nat, last : Nat, bars : SUBSET (Tasks \X Nat \X Nat),
   deadlines : SUBSET (Tasks \X Nat), rules : SUBSET ((SUBSET Tasks) \X Nat)]

\* Where the writer is: the next page begins where the last one ended.
WriterInv ==
  /\ start = end /\ end \in 0 .. hyper
  /\ end > 0 => Over

\* The pages are those of the slots written so far, in their order.
PagesInv ==
  /\ slides \in Seq(Pages)
  /\ \A k \in 1 .. Len(slides) :
       /\ slides[k].first <= slides[k].last /\ slides[k].last < end
       /\ BarsRight(slides[k].first, slides[k].last, slides[k].bars)
  /\ \A j, k \in 1 .. Len(slides) : j < k => slides[j].last < slides[k].first
  /\ \A s \in 0 .. end - 1 : \E k \in 1 .. Len(slides) : s \in Slots(slides[k])

TablesIInv == SimIInv /\ WriterInv /\ PagesInv

LEMMA InitTables == TablesInit => TablesIInv
<1> SUFFICES ASSUME TablesInit PROVE TablesIInv
  OBVIOUS
<1>1. SimIInv /\ start = 0 /\ end = 0 /\ slides = <<>>
  BY InitSim DEF TablesInit
<1>2. hyper \in Nat
  BY <1>1 DEF SimIInv, TypeOK
<1>3. WriterInv /\ PagesInv
  BY <1>1, <1>2 DEF WriterInv, PagesInv
<1> QED
  BY <1>1, <1>3 DEF TablesIInv

\* The types of the constants of a run do not change.
LEMMA InputStays == ASSUME SimIInv, [Next]_vars PROVE UNCHANGED input
BY DEF Next, RmFirstSlot, RmSlot, EdfSlot, LlfSlot, RmRuns, vars

LEMMA RunsNot == ASSUME SimIInv, Next PROVE ~Over
<1>1. slot = 0 => run /\ ~(slot > hyper)
  BY DEF SimIInv, RunInv, TypeOK
<1>2. \A s \in 0 .. hyper : ~(s > hyper)
  BY DEF SimIInv, TypeOK
<1>3. ASSUME slot \in 1 .. hyper PROVE slot \in 0 .. hyper
  BY <1>3 DEF SimIInv, TypeOK
<1> QED
  BY <1>1, <1>2, <1>3 DEF Next, RmFirstSlot, RmSlot, EdfSlot, LlfSlot, Over

LEMMA SimulateStep ==
  ASSUME TablesIInv, Simulate
  PROVE  TablesIInv'
<1>1. SimIInv' /\ ~Over /\ UNCHANGED <<start, end, slides>>
  BY SimStep, RunsNot DEF TablesIInv, Simulate, pages
<1>2. UNCHANGED <<hyper, config>>
  BY InputStays DEF TablesIInv, Simulate, input
<1>3. end = 0 /\ hyper \in Nat
  BY <1>1 DEF TablesIInv, WriterInv, SimIInv, TypeOK
<1>4. WriterInv'
  BY <1>1, <1>2, <1>3 DEF TablesIInv, WriterInv
<1>5. slides \in Seq(Pages) /\ Pages' = Pages
  BY <1>2 DEF TablesIInv, PagesInv, Pages, Tasks
<1>6. ASSUME NEW k \in 1 .. Len(slides) PROVE FALSE
  <2>1. slides[k] \in Pages
    BY <1>5
  <2>2. slides[k].first \in Nat /\ slides[k].last \in Nat
    BY <2>1 DEF Pages
  <2>3. slides[k].last < 0
    BY <1>3 DEF TablesIInv, PagesInv
  <2> QED
    BY <2>2, <2>3
<1>7. PagesInv'
  BY <1>1, <1>3, <1>5, <1>6 DEF PagesInv
<1> QED
  BY <1>1, <1>4, <1>7 DEF TablesIInv

LEMMA MinOfTwo ==
  ASSUME NEW a \in Nat, NEW b \in Nat
  PROVE  Min({a, b}) = IF a <= b THEN a ELSE b
<1> DEFINE m == IF a <= b THEN a ELSE b
<1>1. m \in {a, b} /\ \A y \in {a, b} : m <= y
  OBVIOUS
<1>2. ASSUME NEW x \in {a, b}, \A y \in {a, b} : x <= y PROVE x = m
  BY <1>2
<1> HIDE DEF m
<1>3. Min({a, b}) = m
  BY <1>1, <1>2 DEF Min
<1> QED
  BY <1>3 DEF m

LEMMA WritePageStep ==
  ASSUME TablesIInv, WritePage
  PROVE  TablesIInv'
<1> DEFINE next == Min({end + TS_PER_SLIDE, hyper})
           page == write_ttable(start, next - 1)
<1>1. /\ Over /\ end < hyper /\ slides' = Append(slides, page) /\ end' = next
      /\ start' = next /\ UNCHANGED vars
  BY DEF WritePage, StartAfter
<1>2. SimIInv'
  BY <1>1, SimFrame DEF TablesIInv
<1>3. /\ start = end /\ end \in Nat /\ hyper \in Nat /\ end <= hyper
      /\ slides \in Seq(Pages)
  BY DEF TablesIInv, WriterInv, PagesInv, SimIInv, TypeOK
<1>4. next \in Nat /\ end < next /\ next <= hyper
  <2>1. TS_PER_SLIDE \in Nat \ {0}
    BY SlideAssumption
  <2>2. end + TS_PER_SLIDE \in Nat
    BY <1>3, <2>1
  <2>3. next = IF end + TS_PER_SLIDE <= hyper THEN end + TS_PER_SLIDE ELSE hyper
    BY <1>3, <2>2, MinOfTwo
  <2> HIDE DEF next
  <2> QED
    BY <1>1, <1>3, <2>1, <2>3
<1>5. /\ page.first = end /\ page.last = next - 1
      /\ page.bars = create_ts_blocks(end, next - 1)
  BY <1>3 DEF write_ttable
<1>6. /\ UNCHANGED <<policy, config, hyper, ts, run, slot, missIdx, misses>>
  BY <1>1 DEF vars, input
<1>7. /\ Tasks' = Tasks /\ Pages' = Pages /\ Over' = Over /\ hyper' = hyper
      /\ \A f, l, b : BarsRight(f, l, b)' = BarsRight(f, l, b)
  BY <1>6 DEF Tasks, Pages, Over, BarsRight, Tasks
<1>8. BarsRight(end, next - 1, page.bars)
  <2>1. None \notin Tasks
    BY ConfigFacts DEF TablesIInv, SimIInv, TypeOK
  <2>2. ts \in [0 .. hyper -> Tasks \cup {None}]
    BY DEF TablesIInv, SimIInv, TypeOK
  <2> HIDE DEF next, page
  <2>3. \A u \in end .. next - 1 : ts[u] \in Tasks \cup {None}
    BY <1>3, <1>4, <2>2
  <2>4. next - 1 \in Nat /\ end <= next - 1
    BY <1>3, <1>4
  <2> QED
    BY <1>3, <1>5, <2>1, <2>3, <2>4, BlocksRight
<1>9. page \in Pages
  <2>1. page.bars \in SUBSET (Tasks \X Nat \X Nat)
    <3> HIDE DEF next, page
    <3>1. page.bars \subseteq Tasks \X (end .. next - 1) \X (end .. next - 1)
      BY <1>8 DEF BarsRight
    <3>2. end .. next - 1 \subseteq Nat
      BY <1>3, <1>4
    <3> QED
      BY <3>1, <3>2
  <2>2. page.deadlines \in SUBSET (Tasks \X Nat)
    <3>1. page.deadlines = append_deadlines(start, next - 1)
      BY DEF write_ttable
    <3>2. start .. next - 1 \subseteq Nat
      BY <1>3, <1>4
    <3> HIDE DEF next, page
    <3>3. append_deadlines(start, next - 1) \subseteq Tasks \X (start .. next - 1)
      BY DEF append_deadlines
    <3> QED
      BY <3>1, <3>2, <3>3
  <2>3. page.rules \in SUBSET ((SUBSET Tasks) \X Nat)
    <3>1. page.rules = append_misses(start, next - 1)
      BY DEF write_ttable
    <3>2. misses \in SUBSET Tasks /\ missIdx \in {None} \cup 0 .. hyper
      BY DEF TablesIInv, SimIInv, TypeOK
    <3> HIDE DEF next, page
    <3>3. start <= missIdx => missIdx \in Nat
      BY <1>3, <3>2 DEF None
    <3> QED
      BY <3>1, <3>2, <3>3 DEF append_misses
  <2>4. page = [first |-> start, last |-> next - 1, bars |-> page.bars,
                deadlines |-> page.deadlines, rules |-> page.rules]
    BY DEF write_ttable
  <2>5. start \in Nat /\ next - 1 \in Nat
    <3> HIDE DEF next, page
    <3> QED
      BY <1>3, <1>4
  <2> HIDE DEF page, next
  <2> QED
    BY <2>1, <2>2, <2>3, <2>4, <2>5 DEF Pages
<1> HIDE DEF next, page
<1>10. WriterInv'
  BY <1>1, <1>3, <1>4, <1>7 DEF WriterInv
<1> DEFINE n == Len(slides)
<1>11. /\ n \in Nat /\ slides' \in Seq(Pages) /\ Len(slides') = n + 1
       /\ \A k \in 1 .. n : slides'[k] = slides[k]
       /\ slides'[n + 1] = page
  BY <1>1, <1>3, <1>9, AppendProperties, LenProperties
<1>12. \A k \in 1 .. n : slides[k].first \in Nat /\ slides[k].last \in Nat
  <2>1. \A k \in 1 .. n : slides[k] \in Pages
    BY <1>3
  <2> QED
    BY <2>1 DEF Pages
<1>13. /\ \A k \in 1 .. n :
            /\ slides[k].first <= slides[k].last /\ slides[k].last < end
            /\ BarsRight(slides[k].first, slides[k].last, slides[k].bars)
       /\ \A j, k \in 1 .. n : j < k => slides[j].last < slides[k].first
       /\ \A s \in 0 .. end - 1 : \E k \in 1 .. n : s \in Slots(slides[k])
  BY DEF TablesIInv, PagesInv
<1> HIDE DEF n
<1>14. \A k \in 1 .. n + 1 : k \in 1 .. n \/ k = n + 1
  BY <1>11
<1>15. ASSUME NEW k \in 1 .. n + 1
       PROVE  /\ slides'[k].first <= slides'[k].last /\ slides'[k].last < end'
              /\ BarsRight(slides'[k].first, slides'[k].last, slides'[k].bars)
  <2>1. CASE k \in 1 .. n
    <3>1. slides[k].last < next
      BY <1>3, <1>4, <1>12, <1>13, <2>1
    <3> QED
      BY <1>1, <1>11, <1>13, <2>1, <3>1
  <2>2. CASE k = n + 1
    BY <1>1, <1>3, <1>4, <1>5, <1>8, <1>11, <2>2
  <2> QED
    BY <1>14, <2>1, <2>2
<1>16. ASSUME NEW j \in 1 .. n + 1, NEW k \in 1 .. n + 1, j < k
       PROVE  slides'[j].last < slides'[k].first
  <2>1. j \in 1 .. n
    BY <1>11, <1>16
  <2>2. CASE k \in 1 .. n
    BY <1>11, <1>13, <1>16, <2>1, <2>2
  <2>3. CASE k = n + 1
    BY <1>5, <1>11, <1>13, <2>1, <2>3
  <2> QED
    BY <1>14, <2>2, <2>3
<1>17. ASSUME NEW s \in 0 .. next - 1
       PROVE  \E k \in 1 .. n + 1 : s \in Slots(slides'[k])
  <2>1. CASE s < end
    <3>1. s \in 0 .. end - 1
      BY <1>3, <2>1
    <3>2. PICK k \in 1 .. n : s \in Slots(slides[k])
      BY <1>13, <3>1
    <3>3. k \in 1 .. n + 1 /\ slides'[k] = slides[k]
      BY <1>11, <3>2
    <3> QED
      BY <3>2, <3>3
  <2>2. CASE s >= end
    <3>1. n + 1 \in 1 .. n + 1 /\ s \in end .. next - 1
      BY <1>3, <1>4, <1>11, <2>2
    <3>2. s \in Slots(page)
      BY <1>5, <3>1 DEF Slots
    <3> QED
      BY <1>11, <3>1, <3>2
  <2> QED
    BY <1>3, <2>1, <2>2
<1>18. PagesInv'
  <2>1. \A k \in 1 .. n + 1 : Slots(slides[k])' = Slots(slides'[k])
    BY DEF Slots
  <2> QED
    BY <1>1, <1>7, <1>11, <1>15, <1>16, <1>17 DEF PagesInv, Slots
<1> QED
  BY <1>2, <1>10, <1>18 DEF TablesIInv

LEMMA TablesFrame ==
  ASSUME TablesIInv, UNCHANGED TablesVars
  PROVE  TablesIInv'
<1>1. UNCHANGED vars /\ UNCHANGED <<start, end, slides>>
  BY DEF TablesVars, pages
<1>2. UNCHANGED <<policy, config, hyper, ts, run, slot>>
  BY <1>1 DEF vars, input
<1>3. SimIInv'
  BY <1>1, SimFrame DEF TablesIInv
<1>4. WriterInv'
  BY <1>1, <1>2 DEF TablesIInv, WriterInv, Over
<1>5. PagesInv'
  <2>1. /\ Pages' = Pages
        /\ \A first, last, bars : BarsRight(first, last, bars)' = BarsRight(first, last, bars)
    BY <1>2 DEF Pages, Tasks, BarsRight
  <2> QED
    BY <1>1, <2>1 DEF TablesIInv, PagesInv, Slots
<1> QED
  BY <1>3, <1>4, <1>5 DEF TablesIInv

LEMMA TablesInvariant == TablesSpec => []TablesIInv
<1>1. TablesIInv /\ [TablesNext]_TablesVars => TablesIInv'
  BY TablesFrame, SimulateStep, WritePageStep DEF TablesNext
<1> QED
  BY InitTables, <1>1, PTL DEF TablesSpec

(* With the writer of the slides (ttables.c) running after it, a           *)
(* simulation takes the same steps: what is shown above for Spec holds.    *)
THEOREM TablesSimulate == TablesSpec => Init /\ [][Next]_vars
<1>1. TablesInit => Init
  BY DEF TablesInit
<1>2. [TablesNext]_TablesVars => [Next]_vars
  BY DEF TablesNext, TablesVars, Simulate, WritePage
<1> QED
  BY <1>1, <1>2, PTL DEF TablesSpec

(* The tables keep their types while the slides are written, and the       *)
(* writer (write_ttable_slides in ttables.c) starts only after the         *)
(* simulation is over and never passes the hyperperiod.                    *)
THEOREM TablesTypes == TablesSpec => []TablesTypeOK
<1>1. TablesIInv => TablesTypeOK
  <2> SUFFICES ASSUME TablesIInv PROVE TablesTypeOK
    OBVIOUS
  <2>1. TypeOK /\ start \in 0 .. hyper /\ end \in 0 .. hyper /\ (end > 0 => Over)
    BY DEF TablesIInv, SimIInv, WriterInv
  <2>2. slides \in Seq(Pages)
    BY DEF TablesIInv, PagesInv
  <2>3. \A k \in DOMAIN slides : slides[k] \in Pages
    BY <2>2
  <2>4. \A k \in DOMAIN slides : slides[k].first \in Int /\ slides[k].last \in Int
    BY <2>3 DEF Pages
  <2> QED
    BY <2>1, <2>4 DEF TablesTypeOK
<1> QED
  BY <1>1, TablesInvariant, PTL

\* The page of a slot and the bars over it.
LEMMA PageOfSlot ==
  ASSUME TablesIInv, NEW s \in 0 .. end - 1
  PROVE  \E k \in 1 .. Len(slides) :
           /\ PagesWith(s) = {k}
           /\ s \in slides[k].first .. slides[k].last
           /\ BarsOver(s) = {bar \in slides[k].bars : s \in Span(bar)}
<1>1. /\ slides \in Seq(Pages)
      /\ \A k \in 1 .. Len(slides) :
           BarsRight(slides[k].first, slides[k].last, slides[k].bars)
      /\ \A j, k \in 1 .. Len(slides) : j < k => slides[j].last < slides[k].first
  BY DEF TablesIInv, PagesInv
<1>2. /\ DOMAIN slides = 1 .. Len(slides)
      /\ \A k \in 1 .. Len(slides) : slides[k].first \in Nat /\ slides[k].last \in Nat
  <2>1. DOMAIN slides = 1 .. Len(slides) /\ \A k \in 1 .. Len(slides) : slides[k] \in Pages
    BY <1>1, LenProperties
  <2> QED
    BY <2>1 DEF Pages
<1>3. PICK k \in 1 .. Len(slides) : s \in Slots(slides[k])
  BY DEF TablesIInv, PagesInv
<1>4. \A j \in 1 .. Len(slides) :
        s \in slides[j].first .. slides[j].last <=> j = k
  <2>1. ASSUME NEW j \in 1 .. Len(slides), s \in slides[j].first .. slides[j].last, j # k
        PROVE  FALSE
    <3>1. Len(slides) \in Nat /\ (j < k \/ k < j)
      BY <1>1, <2>1, LenProperties
    <3>2. slides[j].last < slides[k].first \/ slides[k].last < slides[j].first
      BY <1>1, <3>1
    <3>3. s \in slides[k].first .. slides[k].last
      BY <1>3 DEF Slots
    <3> QED
      BY <1>2, <2>1, <3>2, <3>3
  <2> QED
    BY <1>3, <2>1 DEF Slots
<1>5. PagesWith(s) = {k}
  BY <1>2, <1>4 DEF PagesWith, Slots
<1>6. ASSUME NEW j \in 1 .. Len(slides), NEW bar \in slides[j].bars, s \in Span(bar)
      PROVE  j = k
  <2>1. /\ slides[j].bars \subseteq
             Tasks \X (slides[j].first .. slides[j].last)
                   \X (slides[j].first .. slides[j].last)
    BY <1>1 DEF BarsRight
  <2>2. /\ bar[2] \in slides[j].first .. slides[j].last
        /\ bar[3] \in slides[j].first .. slides[j].last
    BY <1>6, <2>1
  <2>3. s \in slides[j].first .. slides[j].last
    BY <1>2, <1>6, <2>2 DEF Span
  <2> QED
    BY <1>4, <2>3
<1>7. BarsOver(s) = {bar \in slides[k].bars : s \in Span(bar)}
  BY <1>2, <1>6 DEF BarsOver, Span
<1> QED
  BY <1>3, <1>5, <1>7 DEF Slots

LEMMA SlidesAreRight == TablesIInv => SlidesShowSchedule
<1> SUFFICES ASSUME TablesIInv, NEW s \in 0 .. end - 1
             PROVE  /\ Cardinality(PagesWith(s)) = 1
                    /\ {bar[1] : bar \in BarsOver(s)} = {ts[s]} \ {None}
                    /\ Cardinality(BarsOver(s)) <= 1
                    /\ s > 0 /\ ts[s - 1] = ts[s] /\ PagesWith(s - 1) = PagesWith(s) =>
                         BarsOver(s - 1) = BarsOver(s)
  BY DEF SlidesShowSchedule
<1>1. PICK k \in 1 .. Len(slides) :
        /\ PagesWith(s) = {k}
        /\ s \in slides[k].first .. slides[k].last
        /\ BarsOver(s) = {bar \in slides[k].bars : s \in Span(bar)}
  BY PageOfSlot
<1> DEFINE first == slides[k].first
           last == slides[k].last
           bars == slides[k].bars
<1>2. BarsRight(first, last, bars)
  BY DEF TablesIInv, PagesInv
<1>3. first \in Nat /\ last \in Nat
  <2>1. slides[k] \in Pages
    BY DEF TablesIInv, PagesInv
  <2> QED
    BY <2>1 DEF Pages
<1>4. s \in first .. last /\ BarsOver(s) = {bar \in bars : s \in Span(bar)}
  BY <1>1
<1>5. None \notin Tasks
  BY ConfigFacts DEF TablesIInv, SimIInv, TypeOK
<1> HIDE DEF first, last, bars
<1>6. Cardinality(PagesWith(s)) = 1
  BY <1>1, FS_Singleton
<1>7. \A bar \in BarsOver(s) : bar \in bars /\ bar[1] = ts[s] /\ bar[1] # None
  <2>1. ASSUME NEW bar \in bars PROVE bar[1] \in Tasks
    BY <1>2 DEF BarsRight
  <2> QED
    BY <1>2, <1>4, <1>5, <2>1 DEF BarsRight
<1>8. ts[s] # None => \E bar \in BarsOver(s) : TRUE
  BY <1>2, <1>4 DEF BarsRight
<1>9. \A b, c \in BarsOver(s) : b = c
  BY <1>2, <1>4 DEF BarsRight
<1>10. {bar[1] : bar \in BarsOver(s)} = {ts[s]} \ {None}
  BY <1>7, <1>8
<1>11. Cardinality(BarsOver(s)) <= 1
  <2>1. CASE BarsOver(s) = {}
    BY <2>1, FS_EmptySet
  <2>2. CASE BarsOver(s) # {}
    <3>1. \E bar : BarsOver(s) = {bar}
      BY <1>9, <2>2
    <3>2. Cardinality(BarsOver(s)) = 1
      BY <3>1, FS_Singleton
    <3> QED
      BY <3>2
  <2> QED
    BY <2>1, <2>2
<1>12. ASSUME s > 0, ts[s - 1] = ts[s], PagesWith(s - 1) = PagesWith(s)
       PROVE  BarsOver(s - 1) = BarsOver(s)
  <2>1. s - 1 \in 0 .. end - 1
    BY <1>12 DEF TablesIInv, WriterInv, SimIInv, TypeOK
  <2>2. PICK j \in 1 .. Len(slides) :
          /\ PagesWith(s - 1) = {j}
          /\ s - 1 \in slides[j].first .. slides[j].last
          /\ BarsOver(s - 1) = {bar \in slides[j].bars : s - 1 \in Span(bar)}
    BY <2>1, PageOfSlot
  <2>3. j = k
    BY <1>1, <1>12, <2>2
  <2>4. /\ s - 1 \in first .. last
        /\ BarsOver(s - 1) = {bar \in bars : s - 1 \in Span(bar)}
    BY <2>2, <2>3 DEF first, last, bars
  <2>5. s \in first + 1 .. last
    BY <1>3, <1>4, <2>4
  <2>6. \A bar \in bars : s - 1 \in Span(bar) <=> s \in Span(bar)
    BY <1>2, <1>12, <2>5 DEF BarsRight
  <2> QED
    BY <1>4, <2>4, <2>6
<1> QED
  BY <1>6, <1>10, <1>11, <1>12

(* The slides are the simulated schedule: each slot written is on one      *)
(* page, under one bar, that of the task that had it, or under none, and   *)
(* no bar is cut in two within a page (create_ts_blocks and                *)
(* write_ttable_slides in ttables.c).                                      *)
THEOREM SlidesAreTheSchedule == TablesSpec => []SlidesShowSchedule
BY TablesInvariant, SlidesAreRight, PTL

-----------------------------------------------------------------------------
(* The work that is left, read off the schedule                            *)

\* The slots from first to last - 1 that task i had.
RanSlots(i, first, last) == {t \in first .. last - 1 : ts[t] = i}

LEMMA RanCount ==
  ASSUME NEW i, NEW first \in Int, NEW last \in Int
  PROVE  IsFiniteSet(RanSlots(i, first, last)) /\ Cardinality(RanSlots(i, first, last)) \in Nat
<1>1. IsFiniteSet(first .. last - 1)
  BY FS_Interval
<1>2. RanSlots(i, first, last) \in SUBSET (first .. last - 1)
  BY DEF RanSlots
<1>3. IsFiniteSet(RanSlots(i, first, last))
  BY <1>1, <1>2, FS_Subset
<1> QED
  BY <1>3, FS_CardinalityType

\* time_left with the releases of the slot, in which no deadline is missed.
Ready ==
  [i \in Tasks |-> IF slot % Period(i) = 0 THEN Execution(i) ELSE timeLeft[i]]

\* rm keeps a task running only with work left, and its tasks sorted; the work
\* left is what the schedule does not show since the last release.
RmInv ==
  policy = "rm" =>
    /\ running # None => timeLeft[running] # 0
    /\ SortedByPeriod(runtime)

WorkInv ==
  /\ policy # "llf" /\ slot = 0 => timeLeft = [i \in Tasks |-> Execution(i)]
  /\ policy = "llf" /\ slot = 0 => timeLeft = [i \in Tasks |-> 0]
  /\ run /\ slot \in 1 .. hyper =>
       \A i \in Tasks :
         timeLeft[i] = Execution(i)
                         - Cardinality(RanSlots(i, NextDeadline(i) - Period(i), slot))

RefineInv == SimIInv /\ RmInv /\ WorkInv

\* A turn in which no deadline is missed and task i, or none, has the slot.
WorkTurn(i) ==
  /\ i \in Tasks \cup {None} /\ (i # None => Ready[i] # 0)
  /\ timeLeft' = Spend(Ready, i)
  /\ ts' = [ts EXCEPT ![slot] = i]
  /\ slot' = slot + 1 /\ UNCHANGED input

LEMMA ReadyFacts ==
  ASSUME SimIInv
  PROVE  /\ Ready \in [Tasks -> Nat] /\ slot \in Nat /\ hyper \in Nat \ {0}
         /\ None \notin Tasks
         /\ \A i \in Tasks :
              /\ Ready[i] = IF slot % Period(i) = 0 THEN Execution(i) ELSE timeLeft[i]
              /\ Ready[i] <= Execution(i)
              /\ Execution(i) \in Nat \ {0} /\ Period(i) \in Nat \ {0}
              /\ Execution(i) <= Period(i) /\ hyper % Period(i) = 0
              /\ timeLeft[i] \in Nat
<1>1. /\ slot \in Nat /\ hyper \in Nat \ {0}
      /\ \A i \in Tasks : hyper % Period(i) = 0
      /\ \A i \in Tasks : timeLeft[i] \in Nat /\ timeLeft[i] <= Execution(i)
  BY DEF SimIInv, TypeOK
<1>2. /\ None \notin Tasks
      /\ \A i \in Tasks : /\ Execution(i) \in Nat \ {0} /\ Period(i) \in Nat \ {0}
                          /\ Execution(i) <= Period(i)
  BY ConfigFacts DEF SimIInv, TypeOK
<1> QED
  BY <1>1, <1>2 DEF Ready

\* The last release of task i, and the slots it had since.
LEMMA ReadyCount ==
  ASSUME SimIInv, WorkInv, run, slot \in 0 .. hyper, NEW i \in Tasks
  PROVE  LET release == slot - (slot % Period(i))
         IN  /\ release \in 0 .. slot
             /\ Ready[i] = Execution(i) - Cardinality(RanSlots(i, release, slot))
<1> DEFINE r == slot % Period(i)
<1>1. /\ slot \in Nat /\ Period(i) \in Nat \ {0} /\ Execution(i) \in Nat
      /\ Ready[i] = IF r = 0 THEN Execution(i) ELSE timeLeft[i]
  BY ReadyFacts
<1>2. r \in 0 .. Period(i) - 1 /\ r <= slot
  <2>1. PICK q \in Nat, k \in 0 .. Period(i) - 1 : slot = Period(i) * q + k
    BY <1>1, Division
  <2>2. r = k
    BY <1>1, <2>1, Remainder
  <2>3. Period(i) * q \in Nat
    BY <1>1
  <2> HIDE DEF r
  <2> QED
    BY <1>1, <2>1, <2>2, <2>3
<1>3. NextDeadline(i) = IF r = 0 THEN slot ELSE slot - r + Period(i)
  BY DEF NextDeadline
<1> HIDE DEF r
<1>4. slot - r \in 0 .. slot
  BY <1>1, <1>2
<1>5. CASE r = 0
  <2>1. RanSlots(i, slot - r, slot) = {}
    BY <1>1, <1>5 DEF RanSlots
  <2>2. Cardinality(RanSlots(i, slot - r, slot)) = 0
    BY <2>1, FS_EmptySet
  <2> QED
    BY <1>1, <1>4, <1>5, <2>2 DEF r
<1>6. CASE r # 0
  <2>1. slot \in 1 .. hyper
    BY <1>1, <1>2, <1>6
  <2>2. NextDeadline(i) - Period(i) = slot - r
    BY <1>1, <1>2, <1>3, <1>6
  <2>3. timeLeft[i] = Execution(i)
          - Cardinality(RanSlots(i, NextDeadline(i) - Period(i), slot))
    BY <2>1 DEF WorkInv
  <2> QED
    BY <1>1, <1>4, <1>6, <2>2, <2>3 DEF r
<1> QED
  BY <1>5, <1>6

\* A slot in which a period ends is not before the end of the first one.
LEMMA PeriodBefore ==
  ASSUME NEW s \in Nat \ {0}, NEW p \in Nat \ {0}, s % p = 0
  PROVE  s - p \in 0 .. s
<1>1. PICK k \in Nat : s = p * k
  BY Multiple
<1>2. k # 0
  BY <1>1
<1>3. p * k >= p
  BY <1>2
<1> QED
  BY <1>1, <1>3

\* The tasks whose period ends in slot s without the work done.
Short(s) ==
  {i \in Tasks : /\ s % Period(i) = 0
                 /\ Cardinality(RanSlots(i, s - Period(i), s)) < Execution(i)}

MissedNow == {i \in Tasks : slot # 0 /\ slot % Period(i) = 0 /\ timeLeft[i] # 0}

\* The test of the simulators, timeLeft[i] # 0, is about the schedule.
LEMMA ShortNow ==
  ASSUME SimIInv, WorkInv, run, slot \in 1 .. hyper
  PROVE  MissedNow = Short(slot)
<1>1. ASSUME NEW i \in Tasks, slot % Period(i) = 0
      PROVE  Cardinality(RanSlots(i, slot - Period(i), slot)) < Execution(i)
               <=> timeLeft[i] # 0
  <2>1. slot \in Nat \ {0} /\ Period(i) \in Nat \ {0} /\ timeLeft[i] \in Nat
        /\ Execution(i) \in Nat
    BY ReadyFacts
  <2>2. slot - Period(i) \in 0 .. slot
    BY <1>1, <2>1, PeriodBefore
  <2>3. NextDeadline(i) = slot
    BY <1>1 DEF NextDeadline
  <2>4. timeLeft[i] = Execution(i) - Cardinality(RanSlots(i, slot - Period(i), slot))
    BY <2>3 DEF WorkInv
  <2>5. Cardinality(RanSlots(i, slot - Period(i), slot)) \in Nat
    BY <2>1, <2>2, RanCount
  <2> QED
    BY <2>1, <2>4, <2>5
<1>2. slot # 0
  BY ReadyFacts
<1> QED
  BY <1>1, <1>2 DEF MissedNow, Short

LEMMA WorkStep ==
  ASSUME SimIInv, WorkInv, run, slot \in 0 .. hyper - 1, NEW i, WorkTurn(i), SimIInv'
  PROVE  WorkInv'
<1>1. /\ slot' = slot + 1 /\ ts' = [ts EXCEPT ![slot] = i]
      /\ timeLeft' = Spend(Ready, i) /\ i \in Tasks \cup {None}
      /\ (i # None => Ready[i] # 0)
  BY DEF WorkTurn
<1>2. /\ Tasks' = Tasks /\ policy' = policy
      /\ \A j : Execution(j)' = Execution(j) /\ Period(j)' = Period(j)
  BY DEF WorkTurn, input, Tasks, Execution, Period
<1>3. /\ slot \in Nat /\ hyper \in Nat /\ None \notin Tasks /\ slot \in 0 .. hyper
      /\ Ready \in [Tasks -> Nat]
      /\ \A j \in Tasks : /\ Execution(j) \in Nat /\ Period(j) \in Nat \ {0}
                          /\ Ready[j] \in Nat
  BY ReadyFacts
<1>4. \A j \in Tasks : timeLeft'[j] = IF j = i THEN Ready[j] - 1 ELSE Ready[j]
  BY <1>1, <1>3, SpendTypes
<1>5. ts \in [0 .. hyper -> Tasks \cup {None}]
  BY DEF SimIInv, TypeOK
<1>6. \A t \in 0 .. slot : ts'[t] = IF t = slot THEN i ELSE ts[t]
  BY <1>1, <1>3, <1>5
<1>7. ASSUME NEW j \in Tasks
      PROVE  timeLeft'[j] = Execution(j)
               - Cardinality(RanSlots(j, NextDeadline(j) - Period(j), slot)')
  <2> DEFINE release == slot - (slot % Period(j))
             old == RanSlots(j, release, slot)
             new == RanSlots(j, NextDeadline(j) - Period(j), slot)'
  <2>1. release \in 0 .. slot /\ Ready[j] = Execution(j) - Cardinality(old)
    BY <1>3, ReadyCount
  <2>2. (NextDeadline(j) - Period(j))' = release
    <3> DEFINE r == slot % Period(j)
    <3>1. NextDeadline(j)' = slot - r + Period(j)
      BY <1>1, <1>2, <1>3, DeadlineStays DEF NextDeadline
    <3>2. r \in Int
      BY <1>3, NextRemainder
    <3>3. release = slot - r
      OBVIOUS
    <3> HIDE DEF r, release
    <3>4. slot - r + Period(j) - Period(j) = release
      BY <1>3, <3>2, <3>3
    <3>5. Period(j)' = Period(j)
      BY DEF WorkTurn, input, Period
    <3> QED
      BY <1>3, <3>1, <3>2, <3>4, <3>5
  <2> HIDE DEF release
  <2>3. new = {t \in release .. slot : ts'[t] = j}
    <3>1. new = {t \in release .. slot' - 1 : ts'[t] = j}
      BY <2>2 DEF RanSlots
    <3>2. slot' - 1 = slot
      BY <1>1, <1>3
    <3> QED
      BY <3>1, <3>2
  <2>4. new = IF j = i THEN old \cup {slot} ELSE old
    BY <1>3, <1>6, <2>1, <2>3 DEF RanSlots
  <2>5. slot \notin old
    BY <1>3 DEF RanSlots
  <2>6. IsFiniteSet(old) /\ Cardinality(old) \in Nat
    BY <1>3, <2>1, RanCount
  <2> HIDE DEF old, new
  <2>7. Cardinality(new) = IF j = i THEN Cardinality(old) + 1 ELSE Cardinality(old)
    BY <2>4, <2>5, <2>6, FS_AddElement
  <2>8. timeLeft'[j] = Execution(j) - Cardinality(new)
    BY <1>3, <1>4, <2>1, <2>6, <2>7
  <2> QED
    BY <2>8 DEF new
<1>8. slot' # 0
  BY <1>1, <1>3
<1> QED
  BY <1>2, <1>7, <1>8 DEF WorkInv

-----------------------------------------------------------------------------
(* The task that a policy chooses is a most urgent one                     *)

Unfinished == {i \in Tasks : Ready[i] # 0}

UrgencyNow(i) ==
  CASE policy = "rm"  -> Period(i)
    [] policy = "edf" -> DueAt(i)
    [] policy = "llf" -> DueAt(i) - slot - Ready[i]

MostUrgent(i) ==
  IF Unfinished = {} THEN i = None
  ELSE i \in Unfinished /\ \A j \in Unfinished : UrgencyNow(i) <= UrgencyNow(j)

\* Where time_left is after the releases of rm and edf.
LEMMA ReadyAtStart ==
  ASSUME SimIInv, WorkInv, policy # "llf"
  PROVE  /\ Missed = MissedNow
         /\ Missed = {} => LeftAtStart = Ready
<1>1. Missed = MissedNow
  BY DEF Missed, Due, MissedNow, Deadline
<1>2. ASSUME Missed = {}, NEW i \in Tasks
      PROVE  (IF i \in Released THEN Execution(i) ELSE timeLeft[i])
               = IF slot % Period(i) = 0 THEN Execution(i) ELSE timeLeft[i]
  <2>1. i \in Released <=> slot # 0 /\ slot % Period(i) = 0
    BY <1>2 DEF Released, Due, Deadline
  <2>2. slot = 0 => timeLeft[i] = Execution(i)
    BY DEF WorkInv
  <2> QED
    BY <2>1, <2>2
<1> QED
  BY <1>1, <1>2 DEF LeftAtStart, Ready

\* The task at the least index of runtime with work left.
LEMMA RmLeastIndex ==
  ASSUME SimIInv, RmInv, policy = "rm", NEW m \in Tasks, Ready[runtime[m]] # 0,
         \A k \in Tasks : Ready[runtime[k]] # 0 => m <= k
  PROVE  MostUrgent(runtime[m])
<1>1. runtime \in Bijection(Tasks, Tasks) /\ SortedByPeriod(runtime)
  BY DEF SimIInv, TypeOK, RmInv
<1>2. /\ DOMAIN runtime = Tasks /\ \A k \in Tasks : runtime[k] \in Tasks
      /\ \A i \in Tasks : \E k \in Tasks : runtime[k] = i
  BY <1>1 DEF Bijection, Injection, Surjection
<1>3. Tasks \subseteq Nat /\ \A i \in Tasks : Period(i) \in Nat
  BY ConfigFacts DEF SimIInv, TypeOK
<1>4. ASSUME NEW j \in Unfinished PROVE Period(runtime[m]) <= Period(j)
  <2>1. PICK k \in Tasks : runtime[k] = j
    BY <1>2 DEF Unfinished
  <2>2. m <= k /\ m \in Nat /\ k \in Nat
    BY <1>3, <2>1 DEF Unfinished
  <2>3. CASE m = k
    BY <1>3, <2>1, <2>3 DEF Unfinished
  <2>4. CASE m < k
    BY <1>1, <1>2, <2>1, <2>4 DEF SortedByPeriod
  <2> QED
    BY <2>2, <2>3, <2>4
<1>5. runtime[m] \in Unfinished
  BY <1>2 DEF Unfinished
<1>6. \A i : UrgencyNow(i) = Period(i)
  BY DEF UrgencyNow
<1> QED
  BY <1>4, <1>5, <1>6 DEF MostUrgent

LEMMA RmChoice ==
  ASSUME SimIInv, RmInv, policy = "rm"
  PROVE  MostUrgent(check_highest_priority(Ready))
<1> DEFINE found == {k \in 0 .. IndexOf(running) : Ready[runtime[k]] # 0}
<1>1. PICK n \in 1 .. MaxTasks : Tasks = 0 .. n - 1
  BY ConfigFacts DEF SimIInv, TypeOK
<1>2. n \in Nat \ {0} /\ Cardinality(0 .. n - 1) = n
  BY MaxTasksAssumption, FS_Interval
<1>3. runtime \in Bijection(Tasks, Tasks) /\ running \in Tasks \cup {None}
  BY DEF SimIInv, TypeOK
<1>4. \A k \in Tasks : runtime[k] \in Tasks
  BY <1>3 DEF Bijection, Injection
<1>5. IndexOf(running) \in Tasks
  <2>1. CASE running = None
    BY <1>1, <1>2, <2>1 DEF IndexOf
  <2>2. CASE running # None
    <3>1. \E k \in Tasks : runtime[k] = running
      BY <1>3, <2>2 DEF Bijection, Surjection
    <3> QED
      BY <2>2, <3>1 DEF IndexOf
  <2> QED
    BY <2>1, <2>2
<1>6. \A k \in Tasks : Ready[runtime[k]] # 0 =>
        k \in found \/ \E l \in found : l < k
  <2>1. CASE running = None
    <3>1. IndexOf(running) = n - 1
      BY <1>1, <1>2, <2>1 DEF IndexOf
    <3> QED
      BY <1>1, <3>1
  <2>2. CASE running # None
    <3> DEFINE l == IndexOf(running)
    <3>1. running \in Tasks /\ \E k \in Tasks : runtime[k] = running
      BY <1>3, <2>2 DEF Bijection, Surjection
    <3>2. l \in Tasks /\ runtime[l] = running
      BY <2>2, <3>1 DEF IndexOf
    <3>3. Ready[running] # 0
      <4>1. timeLeft[running] # 0
        BY <2>2 DEF RmInv
      <4> QED
        BY <3>1, <4>1, ReadyFacts
    <3>4. l \in found
      BY <1>1, <1>2, <3>2, <3>3
    <3> HIDE DEF l
    <3>5. \A k \in Tasks : k <= l \/ l < k
      BY <1>1, <1>2, <3>2
    <3>6. \A k \in Tasks : k <= l /\ Ready[runtime[k]] # 0 => k \in found
      BY <1>1, <1>2, <3>2 DEF l
    <3> QED
      BY <3>4, <3>5, <3>6
  <2> QED
    BY <2>1, <2>2
<1>7. found \subseteq Tasks /\ found \subseteq Nat /\ Tasks \subseteq Nat
  BY <1>1, <1>2, <1>5
<1>8. \A k \in found : Ready[runtime[k]] # 0
  OBVIOUS
<1>9. check_highest_priority(Ready) = IF found = {} THEN None ELSE runtime[Min(found)]
  BY DEF check_highest_priority
<1> HIDE DEF found
<1>10. CASE found = {}
  <2>1. ASSUME NEW i \in Unfinished PROVE FALSE
    <3>1. i \in Tasks /\ Ready[i] # 0
      BY DEF Unfinished
    <3>2. PICK k \in Tasks : runtime[k] = i
      BY <1>3, <3>1 DEF Bijection, Surjection
    <3> QED
      BY <1>6, <1>10, <3>1, <3>2
  <2> QED
    BY <1>9, <1>10, <2>1 DEF MostUrgent
<1>11. CASE found # {}
  <2> DEFINE m == Min(found)
  <2>1. m \in found /\ \A k \in found : m <= k
    <3>1. \E x \in found : \A y \in found : x <= y
      BY <1>7, <1>11, LeastNatural
    <3> QED
      BY <3>1 DEF Min
  <2> HIDE DEF m
  <2>2. m \in Tasks /\ m \in Nat /\ Ready[runtime[m]] # 0
    BY <1>7, <1>8, <2>1
  <2>3. ASSUME NEW k \in Tasks, Ready[runtime[k]] # 0 PROVE m <= k
    <3>1. k \in found \/ \E l \in found : l < k
      BY <1>6, <2>3
    <3>2. k \in Nat /\ \A l \in found : l \in Nat
      BY <1>7
    <3> QED
      BY <2>1, <2>2, <3>1, <3>2
  <2>4. MostUrgent(runtime[m])
    BY <2>2, <2>3, RmLeastIndex
  <2> QED
    BY <1>9, <1>11, <2>4 DEF m
<1> QED
  BY <1>10, <1>11

LEMMA EdfChoice ==
  ASSUME SimIInv, WorkInv, policy = "edf", run, slot < hyper, Missed = {}
  PROVE  MostUrgent(get_task_closest_deadline(DueFirst(Complete)))
<1> DEFINE due(s) == {i \in Tasks : Deadline(i, s) /\ ~Complete[i]}
           slots == {s \in slot + 1 .. hyper : due(s) # {}}
           chosen == get_task_closest_deadline(DueFirst(Complete))
<1>1. /\ slot \in Nat /\ hyper \in Nat
      /\ \A i \in Tasks : Period(i) \in Nat \ {0} /\ hyper % Period(i) = 0
  BY ReadyFacts
<1>2. \A i \in Tasks : i \in Unfinished <=> ~Complete[i]
  <2>1. LeftAtStart = Ready
    BY ReadyAtStart
  <2>2. \A i \in Tasks : Complete[i] <=> LeftAtStart[i] = 0
    BY CompleteFacts
  <2> QED
    BY <2>1, <2>2 DEF Unfinished
<1>3. \A i \in Tasks :
        /\ DueAt(i) \in Nat /\ DueAt(i) > slot /\ DueAt(i) % Period(i) = 0
        /\ \A m \in Nat : m > slot /\ m % Period(i) = 0 => DueAt(i) <= m
  BY <1>1, NextMultiple DEF DueAt
<1>4. ASSUME NEW i \in Unfinished PROVE DueAt(i) \in slots /\ i \in due(DueAt(i))
  <2>1. i \in Tasks /\ ~Complete[i]
    BY <1>2 DEF Unfinished
  <2>2. DueAt(i) <= hyper
    BY <1>1, <1>3, <2>1
  <2>3. i \in due(DueAt(i))
    BY <1>3, <2>1 DEF Deadline
  <2> QED
    BY <1>1, <1>3, <2>1, <2>2, <2>3
<1>5. slots \subseteq Nat /\ \A s \in slots : s > slot /\ due(s) # {}
  BY <1>1
<1>6. DueFirst(Complete) = IF slots = {} THEN {} ELSE due(Min(slots))
  BY DEF DueFirst
<1>7. \A s : due(s) \in SUBSET Tasks
             /\ \A i \in due(s) : s % Period(i) = 0 /\ i \in Unfinished
  BY <1>2 DEF Deadline
<1> HIDE DEF slots, due
<1>8. CASE slots = {}
  <2>1. Unfinished = {}
    BY <1>4, <1>8
  <2>2. chosen = None
    BY <1>6, <1>8, ClosestIsDue
  <2> QED
    BY <2>1, <2>2 DEF MostUrgent
<1>9. CASE slots # {}
  <2> DEFINE m == Min(slots)
  <2>1. m \in slots /\ \A n \in slots : m <= n
    <3>1. \E x \in slots : \A y \in slots : x <= y
      BY <1>5, <1>9, LeastNatural
    <3> QED
      BY <3>1 DEF Min
  <2>2. DueFirst(Complete) = due(m)
    BY <1>6, <1>9
  <2> HIDE DEF m
  <2>3. chosen \in due(m)
    <3>1. due(m) \in SUBSET Tasks /\ due(m) # {}
      BY <1>5, <1>7, <2>1
    <3> QED
      BY <2>2, <3>1, ClosestIsDue
  <2> HIDE DEF chosen
  <2>4. chosen \in Unfinished /\ chosen \in Tasks /\ m % Period(chosen) = 0
    BY <1>7, <2>3
  <2>5. m \in Nat /\ m > slot
    BY <1>5, <2>1
  <2>6. DueAt(chosen) <= m
    BY <1>3, <2>4, <2>5
  <2>7. ASSUME NEW j \in Unfinished PROVE DueAt(chosen) <= DueAt(j)
    <3>1. m <= DueAt(j)
      BY <1>4, <2>1
    <3>2. DueAt(chosen) \in Nat /\ DueAt(j) \in Nat
      BY <1>3, <2>4 DEF Unfinished
    <3> QED
      BY <2>5, <2>6, <3>1, <3>2
  <2>8. \A i : UrgencyNow(i) = DueAt(i)
    BY DEF UrgencyNow
  <2>9. MostUrgent(chosen)
    BY <2>4, <2>7, <2>8 DEF MostUrgent
  <2> QED
    BY <2>9 DEF chosen
<1> QED
  BY <1>8, <1>9

\* llf before its last turn: what is due, missed and left is Ready's.
LEMMA LlfReady ==
  ASSUME SimIInv, WorkInv, policy = "llf", slot \in 0 .. hyper
  PROVE  /\ LlfMissed = MissedNow
         /\ slot < hyper => LlfLeft = Ready
<1>1. slot \in Nat /\ hyper \in Nat /\ \A i \in Tasks : hyper % Period(i) = 0
  BY ReadyFacts
<1>2. \A i \in Tasks : LlfDue(i) <=> slot % Period(i) = 0
  BY <1>1 DEF LlfDue, Deadline
<1>3. slot = 0 => \A i \in Tasks : timeLeft[i] = 0
  BY DEF WorkInv
<1>4. LlfMissed = MissedNow
  BY <1>2, <1>3 DEF LlfMissed, LlfDueNow, MissedNow
<1>5. LlfLeft = Ready
  BY <1>2 DEF LlfLeft, LlfDueNow, Ready
<1> QED
  BY <1>4, <1>5

LEMMA LlfChoice ==
  ASSUME SimIInv, WorkInv, policy = "llf", run, slot \in 0 .. hyper, slot < hyper,
         LlfMissed = {}, \A i \in Tasks : Period(i) <= INT_MAX
  PROVE  MostUrgent(LeastLaxTask(LlfLax))
<1> DEFINE least == {i \in Tasks : /\ LlfLax[i] < INT_MAX
                                   /\ \A j \in Tasks : LlfLax[i] <= LlfLax[j]}
           chosen == LeastLaxTask(LlfLax)
<1>1. /\ slot \in Nat /\ hyper \in Nat \ {0} /\ Ready \in [Tasks -> Nat]
      /\ \A i \in Tasks : /\ Ready[i] <= Execution(i) /\ Execution(i) \in Nat
                          /\ Execution(i) <= Period(i) /\ Period(i) \in Nat \ {0}
                          /\ hyper % Period(i) = 0
  BY ReadyFacts
<1>2. \A i \in Tasks : Period(i) <= hyper
  <2>1. ASSUME NEW i \in Tasks PROVE Period(i) <= hyper
    <3>1. 0 % Period(i) = 0
      BY <1>1, ZeroMultiple
    <3>2. LET d == 0 - (0 % Period(i)) + Period(i)
          IN  \A m \in Nat : m > 0 /\ m % Period(i) = 0 => d <= m
      BY <1>1, NextMultiple
    <3>3. 0 - (0 % Period(i)) + Period(i) <= hyper
      BY <1>1, <3>2
    <3> QED
      BY <1>1, <3>1, <3>3
  <2> QED
    BY <2>1
<1>3. /\ LlfLax \in [Tasks -> Int]
      /\ \A i \in Tasks : LlfLax[i] = IF Ready[i] = 0 THEN INT_MAX
                                      ELSE DueAt(i) - slot - Ready[i]
  <2>1. LlfLeft = Ready
    BY LlfReady
  <2> QED
    BY <2>1, LlfLaxFacts
<1>4. \A i \in Tasks : DueAt(i) \in Nat /\ DueAt(i) > slot /\ DueAt(i) <= slot + Period(i)
  BY <1>1, NextMultiple DEF DueAt
<1>5. INT_MAX \in Nat
  BY DEF INT_MAX
<1>6. \A i \in Tasks : /\ LlfLax[i] + hyper \in Nat /\ LlfLax[i] \in Int
                       /\ LlfLax[i] < INT_MAX <=> i \in Unfinished
                       /\ i \notin Unfinished => LlfLax[i] = INT_MAX
  <2>1. ASSUME NEW i \in Tasks
        PROVE  /\ LlfLax[i] + hyper \in Nat /\ LlfLax[i] \in Int
               /\ LlfLax[i] < INT_MAX <=> Ready[i] # 0
               /\ Ready[i] = 0 => LlfLax[i] = INT_MAX
    <3>1. Ready[i] \in Nat
      BY <1>1
    <3>2. CASE Ready[i] = 0
      BY <1>1, <1>3, <1>5, <3>2
    <3>3. CASE Ready[i] # 0
      <4>1. LlfLax[i] = DueAt(i) - slot - Ready[i]
        BY <1>3, <3>3
      <4> QED
        BY <1>1, <1>2, <1>4, <1>5, <3>1, <3>3, <4>1
    <3> QED
      BY <3>2, <3>3
  <2> QED
    BY <2>1 DEF Unfinished
<1>7. \A i \in Unfinished : UrgencyNow(i) = LlfLax[i]
  BY <1>3 DEF UrgencyNow, Unfinished
<1>8. IF least = {} THEN chosen = None ELSE chosen \in least
  BY <1>3, LeastLaxFacts
<1>9. \E i \in Tasks : \A j \in Tasks : LlfLax[i] <= LlfLax[j]
  <2> DEFINE S == {LlfLax[i] + hyper : i \in Tasks}
  <2>1. S \subseteq Nat /\ S # {}
    <3>1. Tasks # {}
      BY ConfigFacts DEF SimIInv, TypeOK
    <3> QED
      BY <1>6, <3>1
  <2> HIDE DEF S
  <2>2. PICK x \in S : \A y \in S : x <= y
    BY <2>1, LeastNatural
  <2>3. PICK i \in Tasks : x = LlfLax[i] + hyper
    BY <2>2 DEF S
  <2>4. ASSUME NEW j \in Tasks PROVE LlfLax[i] <= LlfLax[j]
    <3>1. LlfLax[j] + hyper \in S
      BY DEF S
    <3>2. LlfLax[i] + hyper <= LlfLax[j] + hyper
      BY <2>2, <2>3, <3>1
    <3>3. LlfLax[i] \in Int /\ LlfLax[j] \in Int
      BY <1>6
    <3> QED
      BY <1>1, <3>2, <3>3
  <2> QED
    BY <2>4
<1>10. CASE Unfinished = {}
  <2>1. least = {}
    BY <1>6, <1>10
  <2> QED
    BY <1>8, <1>10, <2>1 DEF MostUrgent
<1>11. CASE Unfinished # {}
  <2>1. PICK i \in Tasks : \A j \in Tasks : LlfLax[i] <= LlfLax[j]
    BY <1>9
  <2>2. PICK u \in Unfinished : TRUE
    BY <1>11
  <2>3. u \in Tasks /\ LlfLax[u] < INT_MAX
    BY <1>6 DEF Unfinished
  <2>4. i \in least
    BY <1>5, <1>6, <2>1, <2>3
  <2>5. chosen \in least
    BY <1>8, <2>4
  <2> HIDE DEF chosen
  <2>6. /\ chosen \in Unfinished /\ chosen \in Tasks
        /\ \A j \in Tasks : LlfLax[chosen] <= LlfLax[j]
    BY <1>6, <2>5
  <2>7. \A j \in Unfinished : UrgencyNow(chosen) <= UrgencyNow(j)
    BY <1>7, <2>6 DEF Unfinished
  <2>8. MostUrgent(chosen)
    BY <1>11, <2>6, <2>7 DEF MostUrgent
  <2> QED
    BY <2>8 DEF chosen
<1> QED
  BY <1>10, <1>11

-----------------------------------------------------------------------------
(* The three simulators implement the schedule of their policy             *)

LEMMA IntMaxType == INT_MAX \in Int
BY SMT DEF INT_MAX

LEMMA PeriodsFit ==
  ASSUME Periods \subseteq 1 .. INT_MAX, SimIInv
  PROVE  \A i \in Tasks : Period(i) <= INT_MAX
<1>1. config \in Configs
  BY DEF SimIInv, TypeOK
<1>2. PICK n \in 1 .. MaxTasks : config \in [0 .. n - 1 -> ValidTasks]
  BY <1>1 DEF Configs
<1>3. Tasks = 0 .. n - 1
  BY <1>2 DEF Tasks
<1>4. ASSUME NEW i \in Tasks PROVE Period(i) <= INT_MAX
  <2>1. config[i] \in ValidTasks
    BY <1>2, <1>3
  <2>2. PICK p \in Periods : config[i] \in [execution : 1 .. p, period : {p}]
    BY <2>1 DEF ValidTasks
  <2>3. p \in 1 .. INT_MAX
    BY <2>2
  <2>4. Period(i) = p
    BY <2>2 DEF Period
  <2> QED
    BY <2>3, <2>4, IntMaxType
<1> QED
  BY <1>4

\* A turn of a simulator, whichever it is.
TurnOf ==
  /\ run /\ slot \in 0 .. hyper /\ slot' = slot + 1 /\ UNCHANGED input
  /\ \A t \in 0 .. slot - 1 : ts'[t] = ts[t]
  /\ MissedNow # {} => misses' = MissedNow /\ missIdx' = slot /\ run' = FALSE
  /\ MissedNow = {} =>
       /\ UNCHANGED <<misses, missIdx, run>>
       /\ slot < hyper => \E i : WorkTurn(i) /\ MostUrgent(i)

LEMMA Recorded ==
  ASSUME SimIInv, run, RecordMisses(MissedNow)
  PROVE  /\ MissedNow # {} => misses' = MissedNow /\ missIdx' = slot /\ run' = FALSE
         /\ MissedNow = {} => UNCHANGED <<misses, missIdx, run>>
<1>1. misses = {} /\ run = TRUE
  BY DEF SimIInv, RunInv, TypeOK
<1> QED
  BY <1>1 DEF RecordMisses

LEMMA EarlierStay ==
  ASSUME SimIInv, NEW i, ts' = [ts EXCEPT ![slot] = i]
  PROVE  \A t \in 0 .. slot - 1 : ts'[t] = ts[t]
<1>1. slot \in 0 .. hyper + 1 /\ hyper \in Nat /\ ts = [t \in 0 .. hyper |-> ts[t]]
  BY DEF SimIInv, TypeOK
<1>2. \A t \in 0 .. slot - 1 : t # slot /\ t \in 0 .. hyper
  BY <1>1
<1> QED
  BY <1>1, <1>2

LEMMA MostUrgentHasWork ==
  ASSUME NEW i, MostUrgent(i)
  PROVE  i \in Tasks \cup {None} /\ (i # None => Ready[i] # 0)
BY DEF MostUrgent, Unfinished

LEMMA RmFirstTurn ==
  ASSUME RefineInv, RmFirstSlot
  PROVE  TurnOf
<1>1. /\ policy = "rm" /\ slot = 0 /\ RmRuns(runtime[0], timeLeft)
      /\ UNCHANGED <<run, misses, missIdx>>
  BY DEF RmFirstSlot
<1>2. run /\ slot \in 0 .. hyper /\ hyper \in Nat \ {0}
  BY <1>1, ReadyFacts DEF RefineInv, SimIInv, RunInv
<1>3. /\ slot' = slot + 1 /\ UNCHANGED input
      /\ timeLeft' = Spend(timeLeft, runtime[0]) /\ ts' = [ts EXCEPT ![slot] = runtime[0]]
  BY <1>1 DEF RmRuns
<1>4. MissedNow = {}
  BY <1>1 DEF MissedNow
<1>5. Ready = timeLeft /\ \A i \in Tasks : Ready[i] # 0
  <2>1. timeLeft = [i \in Tasks |-> Execution(i)]
    BY <1>1 DEF RefineInv, WorkInv
  <2>2. \A i \in Tasks : (IF slot % Period(i) = 0 THEN Execution(i) ELSE timeLeft[i])
                           = timeLeft[i]
    BY <2>1
  <2>3. Ready = timeLeft
    BY <2>1, <2>2 DEF Ready
  <2> QED
    BY <2>1, <2>3, ReadyFacts DEF RefineInv
<1>6. 0 \in Tasks /\ Tasks \subseteq Nat /\ runtime[0] \in Tasks
      /\ \A k \in Tasks : runtime[k] \in Tasks
  <2>1. 0 \in Tasks /\ Tasks \subseteq Nat
    <3>1. config \in Configs
      BY DEF RefineInv, SimIInv, TypeOK
    <3>2. PICK n \in 1 .. MaxTasks : Tasks = 0 .. n - 1
      BY <3>1, ConfigFacts
    <3> QED
      BY <3>2, MaxTasksAssumption
  <2> QED
    BY <2>1 DEF RefineInv, SimIInv, TypeOK, Bijection, Injection
<1>7. MostUrgent(runtime[0])
  <2>1. \A k \in Tasks : 0 <= k
    BY <1>6
  <2>2. Ready[runtime[0]] # 0
    BY <1>5, <1>6
  <2> QED
    BY <1>1, <1>6, <2>1, <2>2, RmLeastIndex DEF RefineInv
<1>8. WorkTurn(runtime[0])
  BY <1>3, <1>5, <1>6 DEF WorkTurn
<1>9. \A t \in 0 .. slot - 1 : ts'[t] = ts[t]
  BY <1>3, EarlierStay DEF RefineInv
<1> QED
  BY <1>1, <1>2, <1>3, <1>4, <1>7, <1>8, <1>9 DEF TurnOf

LEMMA RmTurn ==
  ASSUME RefineInv, RmSlot
  PROVE  TurnOf
<1> DEFINE i == check_highest_priority(LeftAtStart)
<1>1. /\ policy = "rm" /\ run /\ slot \in 1 .. hyper /\ RecordMisses(Missed)
      /\ RmRuns(i, LeftAtStart)
  BY DEF RmSlot
<1>2. /\ slot' = slot + 1 /\ UNCHANGED input
      /\ timeLeft' = Spend(LeftAtStart, i) /\ ts' = [ts EXCEPT ![slot] = i]
  BY <1>1 DEF RmRuns
<1>3. Missed = MissedNow /\ (Missed = {} => LeftAtStart = Ready)
  BY <1>1, ReadyAtStart DEF RefineInv
<1>4. slot \in 0 .. hyper
  BY <1>1
<1>5. MissedNow = {} => WorkTurn(i) /\ MostUrgent(i)
  <2> SUFFICES ASSUME MissedNow = {} PROVE WorkTurn(i) /\ MostUrgent(i)
    OBVIOUS
  <2>1. LeftAtStart = Ready /\ i = check_highest_priority(Ready)
    BY <1>3
  <2>2. MostUrgent(i)
    BY <1>1, <2>1, RmChoice DEF RefineInv
  <2> HIDE DEF i
  <2>3. WorkTurn(i)
    BY <1>2, <2>1, <2>2, MostUrgentHasWork DEF WorkTurn
  <2> QED
    BY <2>2, <2>3
<1> HIDE DEF i
<1>6. \A t \in 0 .. slot - 1 : ts'[t] = ts[t]
  BY <1>2, EarlierStay DEF RefineInv
<1>7. /\ MissedNow # {} => misses' = MissedNow /\ missIdx' = slot /\ run' = FALSE
      /\ MissedNow = {} => UNCHANGED <<misses, missIdx, run>>
  BY <1>1, <1>3, Recorded DEF RefineInv
<1> QED
  BY <1>1, <1>2, <1>4, <1>5, <1>6, <1>7 DEF TurnOf

LEMMA EdfTurnOf ==
  ASSUME RefineInv, EdfSlot
  PROVE  TurnOf
<1>1. /\ policy = "edf" /\ run /\ slot \in 0 .. hyper /\ RecordMisses(Missed)
      /\ UNCHANGED <<input, laxities>> /\ slot' = slot + 1
      /\ running' = get_task_closest_deadline(DueFirst(Complete))
      /\ timeLeft' = Spend(LeftAtStart, running')
      /\ ts' = [ts EXCEPT ![slot] = running']
  BY EdfTurn DEF RefineInv
<1>2. Missed = MissedNow /\ (Missed = {} => LeftAtStart = Ready)
  BY <1>1, ReadyAtStart DEF RefineInv
<1>3. MissedNow = {} /\ slot < hyper => WorkTurn(running') /\ MostUrgent(running')
  <2> SUFFICES ASSUME MissedNow = {}, slot < hyper
               PROVE  WorkTurn(running') /\ MostUrgent(running')
    OBVIOUS
  <2>1. MostUrgent(running')
    BY <1>1, <1>2, EdfChoice DEF RefineInv
  <2>2. WorkTurn(running')
    BY <1>1, <1>2, <2>1, MostUrgentHasWork DEF WorkTurn
  <2> QED
    BY <2>1, <2>2
<1>4. \A t \in 0 .. slot - 1 : ts'[t] = ts[t]
  BY <1>1, EarlierStay DEF RefineInv
<1>5. /\ MissedNow # {} => misses' = MissedNow /\ missIdx' = slot /\ run' = FALSE
      /\ MissedNow = {} => UNCHANGED <<misses, missIdx, run>>
  BY <1>1, <1>2, Recorded DEF RefineInv
<1> QED
  BY <1>1, <1>3, <1>4, <1>5 DEF TurnOf

LEMMA LlfTurnOf ==
  ASSUME RefineInv, LlfSlot, \A i \in Tasks : Period(i) <= INT_MAX
  PROVE  TurnOf
<1>1. /\ policy = "llf" /\ run /\ slot \in 0 .. hyper /\ RecordMisses(LlfMissed)
      /\ UNCHANGED <<input, completed>> /\ slot' = slot + 1
      /\ LlfMissed # {} \/ slot = hyper => UNCHANGED <<running, ts>>
      /\ ~(LlfMissed # {} \/ slot = hyper) =>
           /\ running' = LeastLaxTask(LlfLax)
           /\ timeLeft' = Spend(LlfLeft, running')
           /\ ts' = [ts EXCEPT ![slot] = running']
  BY LlfTurn
<1>2. LlfMissed = MissedNow /\ (slot < hyper => LlfLeft = Ready)
  BY <1>1, LlfReady DEF RefineInv
<1>3. slot \in Nat /\ hyper \in Nat
  BY ReadyFacts DEF RefineInv
<1>4. MissedNow = {} /\ slot < hyper => WorkTurn(running') /\ MostUrgent(running')
  <2> SUFFICES ASSUME MissedNow = {}, slot < hyper
               PROVE  WorkTurn(running') /\ MostUrgent(running')
    OBVIOUS
  <2>1. /\ running' = LeastLaxTask(LlfLax) /\ timeLeft' = Spend(Ready, running')
        /\ ts' = [ts EXCEPT ![slot] = running']
    BY <1>1, <1>2, <1>3
  <2>2. MostUrgent(running')
    BY <1>1, <1>2, <2>1, LlfChoice DEF RefineInv
  <2>3. WorkTurn(running')
    BY <1>1, <2>1, <2>2, MostUrgentHasWork DEF WorkTurn
  <2> QED
    BY <2>2, <2>3
<1>5. \A t \in 0 .. slot - 1 : ts'[t] = ts[t]
  <2>1. CASE UNCHANGED ts
    BY <2>1
  <2>2. CASE ts' = [ts EXCEPT ![slot] = running']
    BY <2>2, EarlierStay DEF RefineInv
  <2> QED
    BY <1>1, <2>1, <2>2
<1>6. /\ MissedNow # {} => misses' = MissedNow /\ missIdx' = slot /\ run' = FALSE
      /\ MissedNow = {} => UNCHANGED <<misses, missIdx, run>>
  BY <1>1, <1>2, Recorded DEF RefineInv
<1> QED
  BY <1>1, <1>4, <1>5, <1>6 DEF TurnOf

LEMMA Turns ==
  ASSUME RefineInv, Next, Periods \subseteq 1 .. INT_MAX
  PROVE  TurnOf
<1>1. \A i \in Tasks : Period(i) <= INT_MAX
  BY PeriodsFit DEF RefineInv
<1> QED
  BY <1>1, RmFirstTurn, RmTurn, EdfTurnOf, LlfTurnOf DEF Next

-----------------------------------------------------------------------------
(* The chart of PeriodicTasks is the schedule                              *)

Chart == [s \in 1 .. ShownSlots |-> ts[s - 1]]

LEMMA ShownWhileRunning ==
  ASSUME SimIInv, run, slot \in 0 .. hyper
  PROVE  ShownSlots = slot
<1>1. missIdx = None /\ hyper \in Nat /\ slot \in Nat /\ slot <= hyper
  BY DEF SimIInv, RunInv, TypeOK
<1> QED
  BY <1>1, MinOfTwo DEF ShownSlots

LEMMA ChartLength ==
  ASSUME ShownSlots \in Nat
  PROVE  Len(Chart) = ShownSlots /\ \A s \in 1 .. ShownSlots : Chart[s] = ts[s - 1]
BY DEF Chart

LEMMA SameCardinality == \A S : Schedule!Cardinality(S) = Cardinality(S)
BY DEF Schedule!Cardinality, Cardinality

\* The definitions of PeriodicTasks, while a simulator runs.
LEMMA ScheduleNow ==
  ASSUME SimIInv, run, slot \in 0 .. hyper
  PROVE  /\ Schedule!now = slot
         /\ \A i : /\ Schedule!Period(i) = Period(i)
                   /\ Schedule!Release(i) = slot - (slot % Period(i))
         /\ \A i, first, last :
              first \in 0 .. slot /\ last \in 0 .. slot =>
                Schedule!Ran(i, first, last) = Cardinality(RanSlots(i, first, last))
<1>1. ShownSlots = slot /\ slot \in Nat
  BY ShownWhileRunning
<1>2. Len(Chart) = slot /\ \A s \in 1 .. slot : Chart[s] = ts[s - 1]
  BY <1>1, ChartLength
<1>3. Schedule!now = slot
  BY <1>2 DEF Schedule!now, Chart
<1>4. \A i : Schedule!Period(i) = Period(i)
  BY DEF Schedule!Period, Period
<1>5. \A i : Schedule!Release(i) = slot - (slot % Period(i))
  BY <1>3, <1>4 DEF Schedule!Release
<1>6. ASSUME NEW i, NEW first \in 0 .. slot, NEW last \in 0 .. slot
      PROVE  Schedule!Ran(i, first, last) = Cardinality(RanSlots(i, first, last))
  <2>1. \A t \in first .. last - 1 : Chart[t + 1] = ts[t]
    BY <1>1, <1>2
  <2>2. {t \in first .. last - 1 : Chart[t + 1] = i} = RanSlots(i, first, last)
    BY <2>1 DEF RanSlots
  <2> QED
    BY <2>2, SameCardinality DEF Schedule!Ran, Chart
<1> QED
  BY <1>3, <1>4, <1>5, <1>6

LEMMA ScheduleLeft ==
  ASSUME SimIInv, WorkInv, run, slot \in 0 .. hyper
  PROVE  /\ \A i \in Tasks : Schedule!Left(i) = Ready[i]
         /\ Schedule!Pending = Unfinished
<1>1. ASSUME NEW i \in Tasks PROVE Schedule!Left(i) = Ready[i]
  <2> DEFINE release == slot - (slot % Period(i))
  <2>1. /\ release \in 0 .. slot
        /\ Ready[i] = Execution(i) - Cardinality(RanSlots(i, release, slot))
    BY ReadyCount
  <2>2. Schedule!now = slot /\ Schedule!Release(i) = release /\ slot \in 0 .. slot
    BY ScheduleNow
  <2> HIDE DEF release
  <2>3. Schedule!Ran(i, release, slot) = Cardinality(RanSlots(i, release, slot))
    BY <2>1, <2>2, ScheduleNow
  <2>4. Schedule!Left(i) = config[i].execution - Schedule!Ran(i, release, slot)
    BY <2>2 DEF Schedule!Left
  <2> QED
    BY <2>1, <2>3, <2>4 DEF Execution
<1>2. \A i \in Tasks : Ready[i] \in Nat
  BY ReadyFacts
<1>3. Schedule!Pending = {i \in Tasks : Schedule!Left(i) > 0}
  BY DEF Schedule!Pending, Tasks
<1>4. \A i \in Tasks : Schedule!Left(i) > 0 <=> Ready[i] # 0
  BY <1>1, <1>2
<1> QED
  BY <1>1, <1>3, <1>4 DEF Unfinished

LEMMA ScheduleLate ==
  ASSUME SimIInv, WorkInv, run, slot \in 0 .. hyper
  PROVE  Schedule!Late = MissedNow
<1>1. ASSUME NEW i \in Tasks
      PROVE  (/\ Schedule!now > 0 /\ Schedule!now = Schedule!Release(i)
              /\ Schedule!Ran(i, Schedule!now - Schedule!Period(i), Schedule!now)
                   < config[i].execution)
               <=> i \in MissedNow
  <2>1. /\ Schedule!now = slot /\ Schedule!Period(i) = Period(i)
        /\ Schedule!Release(i) = slot - (slot % Period(i))
    BY ScheduleNow
  <2>2. slot \in Nat /\ Period(i) \in Nat \ {0}
    BY ReadyFacts
  <2>3. slot % Period(i) \in Int
    <3>1. slot % Period(i) \in 0 .. Period(i) - 1
      BY <2>2, NextRemainder
    <3> QED
      BY <2>2, <3>1
  <2>4. slot > 0 /\ slot = Schedule!Release(i) <=> slot # 0 /\ slot % Period(i) = 0
    BY <2>1, <2>2, <2>3
  <2>5. ASSUME slot # 0, slot % Period(i) = 0
        PROVE  /\ Schedule!Ran(i, slot - Period(i), slot)
                    = Cardinality(RanSlots(i, slot - Period(i), slot))
               /\ i \in Short(slot) <=> i \in MissedNow
    <3>1. slot - Period(i) \in 0 .. slot
      BY <2>2, <2>5, PeriodBefore
    <3> QED
      BY <2>2, <2>5, <3>1, ScheduleNow, ShortNow
  <2>6. ASSUME slot # 0, slot % Period(i) = 0
        PROVE  Schedule!Ran(i, slot - Period(i), slot) < config[i].execution
                 <=> i \in MissedNow
    BY <2>5, <2>6 DEF Short, Execution
  <2>7. i \in MissedNow => slot # 0 /\ slot % Period(i) = 0
    BY DEF MissedNow
  <2> QED
    BY <2>1, <2>4, <2>6, <2>7
<1>2. Schedule!Late = {i \in Tasks :
        /\ Schedule!now > 0 /\ Schedule!now = Schedule!Release(i)
        /\ Schedule!Ran(i, Schedule!now - Schedule!Period(i), Schedule!now)
             < config[i].execution}
  BY DEF Schedule!Late, Tasks
<1> QED
  BY <1>1, <1>2 DEF MissedNow

LEMMA ScheduleUrgency ==
  ASSUME SimIInv, WorkInv, run, slot \in 0 .. hyper, NEW i \in Tasks
  PROVE  Schedule!Urgency(i) = UrgencyNow(i)
<1>1. /\ Schedule!now = slot /\ Schedule!Period(i) = Period(i)
      /\ Schedule!Release(i) = slot - (slot % Period(i))
  BY ScheduleNow
<1>2. Schedule!Left(i) = Ready[i]
  BY ScheduleLeft
<1>3. Schedule!Deadline(i) = DueAt(i)
  BY <1>1 DEF Schedule!Deadline, DueAt
<1> QED
  BY <1>1, <1>2, <1>3 DEF Schedule!Urgency, UrgencyNow

LEMMA ScheduleChoice ==
  ASSUME SimIInv, WorkInv, run, slot \in 0 .. hyper, NEW i, MostUrgent(i)
  PROVE  i \in IF Schedule!Pending = {} THEN {None} ELSE Schedule!Urgent
<1>1. Schedule!Pending = Unfinished /\ Unfinished \subseteq Tasks
  BY ScheduleLeft DEF Unfinished
<1>2. \A j \in Tasks : Schedule!Urgency(j) = UrgencyNow(j)
  BY ScheduleUrgency
<1>3. Unfinished # {} => i \in Schedule!Urgent
  BY <1>1, <1>2 DEF MostUrgent, Schedule!Urgent
<1> QED
  BY <1>1, <1>3 DEF MostUrgent

-----------------------------------------------------------------------------
(* The refinement, initial states and steps                                *)

LEMMA InitRefine == Init => RefineInv /\ Schedule!Init
<1> SUFFICES ASSUME Init PROVE RefineInv /\ Schedule!Init
  OBVIOUS
<1>1. SimIInv
  BY InitSim
<1>2. slot = 0 /\ run = TRUE /\ misses = {} /\ missIdx = None /\ hyper \in Nat \ {0}
  BY <1>1 DEF Init, SimIInv, TypeOK
<1>3. RmInv
  BY DEF Init, RmInv
<1>4. WorkInv
  <2>1. policy # "llf" => timeLeft = [i \in Tasks |-> Execution(i)]
    BY DEF Init
  <2>2. policy = "llf" => timeLeft = [i \in Tasks |-> 0]
    BY DEF Init
  <2>3. slot \notin 1 .. hyper
    BY <1>2
  <2> QED
    BY <2>1, <2>2, <2>3 DEF WorkInv
<1>5. ShownSlots = 0
  BY <1>1, <1>2, ShownWhileRunning
<1>6. Chart = <<>>
  BY <1>5 DEF Chart
<1>7. ~Over
  BY <1>2 DEF Over
<1> QED
  BY <1>1, <1>2, <1>3, <1>4, <1>6, <1>7 DEF RefineInv, Schedule!Init, Chart

LEMMA RmStays ==
  ASSUME SimIInv, RmInv, Next
  PROVE  RmInv'
<1>1. UNCHANGED input
  BY InputStays
<1>2. SortedByPeriod(runtime) => SortedByPeriod(runtime)'
  BY <1>1 DEF input, SortedByPeriod, Period
<1>3. ASSUME NEW i, NEW left, RmRuns(i, left) PROVE running' # None => timeLeft'[running'] # 0
  BY <1>3 DEF RmRuns
<1>4. policy' = "rm" => (running' # None => timeLeft'[running'] # 0)
  BY <1>1, <1>3 DEF input, Next, RmFirstSlot, RmSlot, EdfSlot, LlfSlot
<1> QED
  BY <1>1, <1>2, <1>4 DEF RmInv, input

LEMMA WorkStays ==
  ASSUME RefineInv, SimIInv', Next, Periods \subseteq 1 .. INT_MAX
  PROVE  WorkInv'
<1>1. TurnOf /\ slot \in Nat /\ hyper \in Nat
  BY Turns, ReadyFacts DEF RefineInv
<1>2. /\ run /\ slot \in 0 .. hyper /\ slot' = slot + 1 /\ UNCHANGED input
      /\ MissedNow # {} => run' = FALSE
      /\ MissedNow = {} => (slot < hyper => \E i : WorkTurn(i) /\ MostUrgent(i))
  BY <1>1 DEF TurnOf
<1>3. CASE MissedNow = {} /\ slot < hyper
  <2>1. PICK i : WorkTurn(i)
    BY <1>2, <1>3
  <2>2. slot \in 0 .. hyper - 1
    BY <1>1, <1>3
  <2> QED
    BY <1>2, <2>1, <2>2, WorkStep DEF RefineInv
<1>4. CASE ~(MissedNow = {} /\ slot < hyper)
  <2>1. slot' # 0 /\ ~(run' /\ slot' \in 1 .. hyper')
    BY <1>1, <1>2, <1>4 DEF input
  <2> QED
    BY <2>1 DEF WorkInv
<1> QED
  BY <1>3, <1>4

LEMMA RefineFrame ==
  ASSUME RefineInv, UNCHANGED vars
  PROVE  RefineInv'
<1>1. UNCHANGED <<policy, config, hyper, runtime, slot, run, timeLeft, running, ts>>
  BY DEF vars, input
<1>2. SimIInv'
  BY SimFrame DEF RefineInv
<1>3. RmInv'
  BY <1>1 DEF RefineInv, RmInv, SortedByPeriod, Period
<1>4. WorkInv'
  BY <1>1 DEF RefineInv, WorkInv, RanSlots, NextDeadline, Tasks, Execution, Period
<1> QED
  BY <1>2, <1>3, <1>4 DEF RefineInv

LEMMA RefineStep ==
  ASSUME Periods \subseteq 1 .. INT_MAX, RefineInv, [Next]_vars
  PROVE  RefineInv'
<1>1. CASE Next
  BY <1>1, SimStep, RmStays, WorkStays DEF RefineInv
<1> QED
  BY <1>1, RefineFrame

\* A slot that is given to a task is appended to the chart.
LEMMA SlotAppended ==
  ASSUME SimIInv, run, slot \in 0 .. hyper, NEW i, WorkTurn(i),
         ShownSlots' = slot + 1
  PROVE  Chart' = Append(Chart, i)
<1>1. ts \in [0 .. hyper -> Tasks \cup {None}] /\ ts' = [ts EXCEPT ![slot] = i]
      /\ slot \in Nat /\ hyper \in Nat /\ i \in Tasks \cup {None}
  BY ReadyFacts DEF SimIInv, TypeOK, WorkTurn
<1>2. ShownSlots = slot
  BY ShownWhileRunning
<1>3. Chart \in Seq(Tasks \cup {None}) /\ Len(Chart) = slot
      /\ \A s \in 1 .. slot : Chart[s] = ts[s - 1]
  <2>1. Chart = [s \in 1 .. slot |-> ts[s - 1]]
    BY <1>2 DEF Chart
  <2>2. \A s \in 1 .. slot : ts[s - 1] \in Tasks \cup {None}
    BY <1>1
  <2> QED
    BY <1>1, <2>1, <2>2, ElementOfSeq
<1>4. Chart' = [s \in 1 .. slot + 1 |-> ts'[s - 1]]
  BY DEF Chart
<1>5. Append(Chart, i) \in Seq(Tasks \cup {None}) /\ Len(Append(Chart, i)) = slot + 1
      /\ \A s \in 1 .. slot + 1 :
           Append(Chart, i)[s] = IF s = slot + 1 THEN i ELSE Chart[s]
  BY <1>1, <1>3
<1>6. \A s \in 1 .. slot + 1 : Append(Chart, i)[s] = ts'[s - 1]
  BY <1>1, <1>3, <1>5
<1>7. Chart' \in Seq(Tasks \cup {None}) /\ Len(Chart') = slot + 1
      /\ \A s \in 1 .. slot + 1 : Chart'[s] = ts'[s - 1]
  <2>1. ts' \in [0 .. hyper -> Tasks \cup {None}]
    BY <1>1
  <2>2. \A s \in 1 .. slot + 1 : ts'[s - 1] \in Tasks \cup {None}
    BY <1>1, <2>1
  <2> QED
    BY <1>1, <1>4, <2>2, ElementOfSeq
<1> QED
  BY <1>5, <1>6, <1>7, SeqEqual

\* The slots that stay on the chart.
LEMMA ChartStays ==
  ASSUME SimIInv, run, slot \in 0 .. hyper, ShownSlots' = slot,
         \A t \in 0 .. slot - 1 : ts'[t] = ts[t]
  PROVE  Chart' = Chart
<1>1. ShownSlots = slot /\ slot \in Nat
  BY ShownWhileRunning, ReadyFacts
<1>2. Chart' = [s \in 1 .. slot |-> ts'[s - 1]] /\ Chart = [s \in 1 .. slot |-> ts[s - 1]]
  BY <1>1 DEF Chart
<1>3. \A s \in 1 .. slot : ts'[s - 1] = ts[s - 1]
  BY <1>1
<1> QED
  BY <1>2, <1>3

LEMMA NextRefines ==
  ASSUME Periods \subseteq 1 .. INT_MAX, RefineInv, Next
  PROVE  Schedule!Next
<1>1. TurnOf /\ slot \in Nat /\ hyper \in Nat /\ SimIInv /\ WorkInv /\ ~Over
  BY Turns, ReadyFacts, RunsNot DEF RefineInv
<1>2. /\ run /\ slot \in 0 .. hyper /\ slot' = slot + 1
      /\ UNCHANGED <<policy, config, hyper>>
      /\ \A t \in 0 .. slot - 1 : ts'[t] = ts[t]
  BY <1>1 DEF TurnOf, input
<1>3. Schedule!now = slot /\ Schedule!Late = MissedNow /\ misses = {} /\ missIdx = None
  BY <1>1, <1>2, ScheduleNow, ScheduleLate DEF SimIInv, RunInv, TypeOK
<1>4. CASE MissedNow # {}
  <2>1. misses' = MissedNow /\ missIdx' = slot /\ run' = FALSE
    BY <1>1, <1>4 DEF TurnOf
  <2>2. ShownSlots' = slot /\ Over'
    BY <1>1, <2>1 DEF ShownSlots, Over, None
  <2>3. Chart' = Chart
    BY <1>1, <1>2, <2>2, ChartStays
  <2>4. Schedule!Miss
    BY <1>1, <1>2, <1>3, <1>4, <2>1, <2>2, <2>3 DEF Schedule!Miss, Chart
  <2> QED
    BY <2>4 DEF Schedule!Next
<1>5. CASE MissedNow = {}
  <2>1. UNCHANGED <<misses, missIdx, run>>
    BY <1>1, <1>5 DEF TurnOf
  <2>2. ShownSlots' = IF slot + 1 <= hyper THEN slot + 1 ELSE hyper
    BY <1>1, <1>2, <1>3, <2>1, MinOfTwo DEF ShownSlots
  <2>3. CASE slot < hyper
    <3>1. PICK i : WorkTurn(i) /\ MostUrgent(i)
      BY <1>1, <1>5, <2>3 DEF TurnOf
    <3>2. ShownSlots' = slot + 1 /\ ~Over'
      BY <1>1, <1>2, <2>1, <2>2, <2>3 DEF Over
    <3>3. Chart' = Append(Chart, i)
      BY <1>1, <1>2, <3>1, <3>2, SlotAppended
    <3>4. i \in IF Schedule!Pending = {} THEN {None} ELSE Schedule!Urgent
      BY <1>1, <1>2, <3>1, ScheduleChoice
    <3>5. Schedule!RunSlot
      <4>1. ~Over /\ Schedule!Late = {} /\ Schedule!now < hyper
        BY <1>1, <1>3, <1>5, <2>3
      <4>2. UNCHANGED <<policy, config, hyper, misses, Over>>
        BY <1>1, <1>2, <2>1, <3>2 DEF Over
      <4>3. \E k \in IF Schedule!Pending = {} THEN {Schedule!None} ELSE Schedule!Urgent :
              Chart' = Append(Chart, k)
        BY <3>3, <3>4 DEF Schedule!None, None
      <4> QED
        BY <4>1, <4>2, <4>3 DEF Schedule!RunSlot, Chart
    <3> QED
      BY <3>5 DEF Schedule!Next
  <2>4. CASE slot = hyper
    <3>1. ShownSlots' = slot /\ Over'
      BY <1>1, <1>2, <2>2, <2>4 DEF Over
    <3>2. Chart' = Chart
      BY <1>1, <1>2, <3>1, ChartStays
    <3>3. Schedule!Finish
      BY <1>1, <1>2, <1>3, <1>5, <2>1, <2>4, <3>1, <3>2 DEF Schedule!Finish, Chart
    <3> QED
      BY <3>3 DEF Schedule!Next
  <2> QED
    BY <1>1, <1>2, <2>3, <2>4
<1> QED
  BY <1>4, <1>5

LEMMA StepRefines ==
  ASSUME Periods \subseteq 1 .. INT_MAX, RefineInv, [Next]_vars
  PROVE  [Schedule!Next]_(Schedule!vars)
<1>1. CASE UNCHANGED vars
  <2>1. UNCHANGED <<policy, config, hyper, slot, run, ts, misses, missIdx>>
    BY <1>1 DEF vars, input
  <2>2. UNCHANGED ShownSlots /\ UNCHANGED Over
    BY <2>1 DEF ShownSlots, Over
  <2>3. UNCHANGED Chart
    BY <2>1, <2>2 DEF Chart
  <2> QED
    BY <2>1, <2>2, <2>3 DEF Schedule!vars, Chart
<1> QED
  BY <1>1, NextRefines

(* rm, edf and llf each draw a schedule of their policy: every slot before *)
(* the end or the first miss goes to a most urgent task with work left, or *)
(* to none if none has any, and what is marked as missed is exactly what   *)
(* is late there.  This is ImplementsSchedule without its fairness, for    *)
(* every set of tasks with periods that are ints.                          *)
THEOREM DrawsTheSchedule ==
  ASSUME Periods \subseteq 1 .. INT_MAX
  PROVE  Spec => Schedule!Init /\ [][Schedule!Next]_(Schedule!vars)
<1>1. Init => RefineInv /\ Schedule!Init
  BY InitRefine
<1>2. RefineInv /\ [Next]_vars => RefineInv'
  BY RefineStep
<1>3. RefineInv /\ [Next]_vars => [Schedule!Next]_(Schedule!vars)
  BY StepRefines
<1> QED
  BY <1>1, <1>2, <1>3, PTL DEF Spec

-----------------------------------------------------------------------------
(* The misses of the schedule, and the rules on the slides                 *)

\* A miss is recorded for the tasks whose period ends without the work done,
\* in the first slot where there are any.
HistoryInv ==
  /\ missIdx = None => \A s \in 1 .. slot - 1 : Short(s) = {}
  /\ missIdx # None =>
       /\ missIdx \in 1 .. hyper /\ ~run
       /\ misses = Short(missIdx)
       /\ \A s \in 1 .. missIdx - 1 : Short(s) = {}

LEMMA InitHistory == Init => HistoryInv
<1> SUFFICES ASSUME Init PROVE HistoryInv
  OBVIOUS
<1>1. missIdx = None /\ slot = 0 /\ 1 .. 0 - 1 = {}
  BY DEF Init
<1> QED
  BY <1>1 DEF HistoryInv

\* What is short by slot s depends on the slots before s.
LEMMA ShortStays ==
  ASSUME SimIInv, UNCHANGED input, NEW n \in Nat, \A t \in 0 .. n - 1 : ts'[t] = ts[t],
         NEW s \in 1 .. n
  PROVE  Short(s)' = Short(s)
<1>1. /\ Tasks' = Tasks
      /\ \A i : Period(i)' = Period(i) /\ Execution(i)' = Execution(i)
  BY DEF input, Tasks, Period, Execution
<1>2. ASSUME NEW i \in Tasks, s % Period(i) = 0
      PROVE  RanSlots(i, s - Period(i), s)' = RanSlots(i, s - Period(i), s)
  <2>1. Period(i) \in Nat \ {0} /\ s \in Nat \ {0}
    BY ReadyFacts
  <2>2. s - Period(i) \in 0 .. s
    BY <1>2, <2>1, PeriodBefore
  <2>3. \A t \in s - Period(i) .. s - 1 : ts'[t] = ts[t]
    BY <2>1, <2>2
  <2>4. RanSlots(i, s - Period(i), s)' = {t \in s - Period(i) .. s - 1 : ts'[t] = i}
    BY <1>1 DEF RanSlots
  <2> QED
    BY <2>3, <2>4 DEF RanSlots
<1>3. Short(s)' = {i \in Tasks : /\ s % Period(i) = 0
                                /\ Cardinality(RanSlots(i, s - Period(i), s)') < Execution(i)}
  BY <1>1 DEF Short
<1> QED
  BY <1>2, <1>3 DEF Short

LEMMA HistoryStep ==
  ASSUME Periods \subseteq 1 .. INT_MAX, RefineInv, HistoryInv, Next
  PROVE  HistoryInv'
<1>1. TurnOf /\ slot \in Nat /\ hyper \in Nat /\ SimIInv /\ WorkInv
  BY Turns, ReadyFacts DEF RefineInv
<1>2. /\ run /\ slot \in 0 .. hyper /\ slot' = slot + 1 /\ UNCHANGED input
      /\ \A t \in 0 .. slot - 1 : ts'[t] = ts[t]
      /\ hyper' = hyper
  BY <1>1 DEF TurnOf, input
<1>3. missIdx = None /\ \A s \in 1 .. slot - 1 : Short(s) = {}
  BY <1>2 DEF HistoryInv
<1>4. \A s \in 1 .. slot : Short(s)' = Short(s)
  BY <1>1, <1>2, ShortStays
<1>5. slot # 0 => MissedNow = Short(slot)
  BY <1>1, <1>2, ShortNow
<1>6. CASE MissedNow # {}
  <2>1. slot # 0
    BY <1>6 DEF MissedNow
  <2>2. misses' = MissedNow /\ missIdx' = slot /\ run' = FALSE
    BY <1>1, <1>6 DEF TurnOf
  <2>3. slot \in 1 .. slot /\ slot \in 1 .. hyper /\ slot # None
    BY <1>1, <1>2, <2>1 DEF None
  <2>4. PICK n \in 1 .. slot : n = slot
    BY <2>3
  <2>5. Short(missIdx)' = MissedNow
    <3>1. Short(n)' = MissedNow
      BY <1>4, <1>5, <2>1, <2>4
    <3>2. missIdx' = n
      BY <2>2, <2>4
    <3>3. Short(missIdx)' = Short(n)'
      BY <3>2 DEF Short, RanSlots
    <3> QED
      BY <3>1, <3>3
  <2>6. \A s \in 1 .. slot - 1 : Short(s)' = {}
    BY <1>1, <1>3, <1>4
  <2> QED
    BY <1>2, <2>2, <2>3, <2>5, <2>6 DEF HistoryInv
<1>7. CASE MissedNow = {}
  <2>1. missIdx' = None
    BY <1>1, <1>3, <1>7 DEF TurnOf
  <2>2. \A s \in 1 .. slot : Short(s) = {}
    BY <1>1, <1>3, <1>5, <1>7
  <2>3. slot' - 1 = slot
    BY <1>1, <1>2
  <2> QED
    BY <1>4, <2>1, <2>2, <2>3 DEF HistoryInv
<1> QED
  BY <1>6, <1>7

\* The rules of a page.
RulesInv ==
  \A k \in 1 .. Len(slides) :
    slides[k].rules = append_misses(slides[k].first, slides[k].last)

MissIInv == TablesIInv /\ RefineInv /\ HistoryInv /\ RulesInv

LEMMA RulesOfNewPage ==
  ASSUME TablesIInv, RulesInv, WritePage
  PROVE  RulesInv'
<1> DEFINE next == Min({end + TS_PER_SLIDE, hyper})
           page == write_ttable(start, next - 1)
           n == Len(slides)
<1>1. slides' = Append(slides, page) /\ UNCHANGED <<misses, missIdx>>
  BY DEF WritePage, vars
<1>2. page.first = start /\ page.last = next - 1
      /\ page.rules = append_misses(page.first, page.last)
  BY DEF write_ttable
<1>3. slides \in Seq(Pages)
  BY DEF TablesIInv, PagesInv
<1> HIDE DEF page, next
<1>4. /\ n \in Nat /\ Len(slides') = n + 1
      /\ \A k \in 1 .. n : slides'[k] = slides[k]
      /\ slides'[n + 1] = page
  BY <1>1, <1>3
<1>5. \A f, l : append_misses(f, l)' = append_misses(f, l)
  BY <1>1 DEF append_misses
<1>6. \A k \in 1 .. n : slides[k].rules = append_misses(slides[k].first, slides[k].last)
  BY DEF RulesInv
<1> HIDE DEF n
<1>7. ASSUME NEW k \in 1 .. n + 1
      PROVE  slides'[k].rules = append_misses(slides'[k].first, slides'[k].last)
  <2>1. k \in 1 .. n \/ k = n + 1
    BY <1>4
  <2> QED
    BY <1>2, <1>4, <1>6, <2>1
<1>8. \A k \in 1 .. n + 1 :
        append_misses(slides[k].first, slides[k].last)'
          = append_misses(slides'[k].first, slides'[k].last)
  BY <1>1 DEF append_misses
<1> QED
  BY <1>4, <1>7, <1>8 DEF RulesInv

LEMMA MissStep ==
  ASSUME Periods \subseteq 1 .. INT_MAX, MissIInv, [TablesNext]_TablesVars
  PROVE  MissIInv'
<1>1. TablesIInv'
  BY TablesFrame, SimulateStep, WritePageStep DEF TablesNext, MissIInv
<1>2. CASE Simulate
  <2>1. Next /\ UNCHANGED slides
    BY <1>2 DEF Simulate, pages
  <2>2. RefineInv' /\ HistoryInv'
    BY <2>1, RefineStep, HistoryStep DEF MissIInv
  <2>3. 1 .. Len(slides) = {}
    <3>1. ~Over
      BY <2>1, RunsNot DEF MissIInv, RefineInv
    <3>2. end = 0 /\ slides \in Seq(Pages)
      BY <3>1 DEF MissIInv, TablesIInv, WriterInv, PagesInv, SimIInv, TypeOK
    <3>3. ASSUME NEW k \in 1 .. Len(slides) PROVE FALSE
      <4>1. slides[k] \in Pages
        BY <3>2
      <4>2. slides[k].last \in Nat
        BY <4>1 DEF Pages
      <4>3. slides[k].last < 0
        BY <3>2 DEF MissIInv, TablesIInv, PagesInv
      <4> QED
        BY <4>2, <4>3
    <3> QED
      BY <3>3
  <2>4. RulesInv'
    BY <2>1, <2>3 DEF RulesInv
  <2> QED
    BY <1>1, <2>2, <2>4 DEF MissIInv
<1>3. CASE UNCHANGED vars
  <2>1. UNCHANGED <<policy, config, hyper, slot, ts, missIdx, misses, run>>
    BY <1>3 DEF vars, input
  <2>2. RefineInv'
    BY <1>3, RefineFrame DEF MissIInv
  <2>3. HistoryInv'
    BY <2>1 DEF MissIInv, HistoryInv, Short, RanSlots, Tasks, Period, Execution
  <2>4. RulesInv'
    <3>1. CASE WritePage
      BY <3>1, RulesOfNewPage DEF MissIInv
    <3>2. CASE UNCHANGED slides
      BY <2>1, <3>2 DEF MissIInv, RulesInv, append_misses
    <3>3. CASE Simulate
      BY <3>2, <3>3 DEF Simulate, pages
    <3> QED
      BY <3>1, <3>2, <3>3 DEF TablesNext, TablesVars, pages
  <2> QED
    BY <1>1, <2>2, <2>3, <2>4 DEF MissIInv
<1> QED
  BY <1>2, <1>3 DEF TablesNext, TablesVars, WritePage

\* What is drawn for a task is what it had.
LEMMA DrawnRight ==
  ASSUME TablesIInv, NEW i \in Tasks, NEW first \in Nat, NEW last \in 0 .. end
  PROVE  DrawnFor(i, first, last) = RanSlots(i, first, last)
<1>1. ASSUME NEW s \in first .. last - 1
      PROVE  (\E bar \in BarsOver(s) : bar[1] = i) <=> ts[s] = i
  <2>1. end \in Nat /\ s \in 0 .. end - 1
    BY DEF TablesIInv, WriterInv, SimIInv, TypeOK
  <2>2. {bar[1] : bar \in BarsOver(s)} = {ts[s]} \ {None}
    BY <2>1, SlidesAreRight DEF SlidesShowSchedule
  <2>3. i # None
    BY ConfigFacts DEF TablesIInv, SimIInv, TypeOK
  <2>4. (\E bar \in BarsOver(s) : bar[1] = i) <=> i \in {bar[1] : bar \in BarsOver(s)}
    OBVIOUS
  <2> QED
    BY <2>2, <2>3, <2>4
<1> QED
  BY <1>1 DEF DrawnFor, RanSlots

LEMMA DrawnShortRight ==
  ASSUME TablesIInv, NEW s \in 1 .. end
  PROVE  DrawnShort(s) = Short(s)
<1>1. ASSUME NEW i \in Tasks, s % Period(i) = 0
      PROVE  DrawnFor(i, s - Period(i), s) = RanSlots(i, s - Period(i), s)
  <2>1. Period(i) \in Nat \ {0} /\ s \in Nat \ {0} /\ end \in Nat
    BY ReadyFacts DEF TablesIInv, WriterInv
  <2>2. s - Period(i) \in 0 .. s
    BY <1>1, <2>1, PeriodBefore
  <2>3. s - Period(i) \in Nat /\ s \in 0 .. end
    BY <2>1, <2>2
  <2> QED
    BY <2>3, DrawnRight
<1>2. s > 0
  BY DEF TablesIInv, WriterInv
<1> QED
  BY <1>1, <1>2 DEF DrawnShort, Short, Deadline

LEMMA PageFacts ==
  ASSUME TablesIInv
  PROVE  /\ DOMAIN slides = 1 .. Len(slides) /\ Len(slides) \in Nat
         /\ \A k \in 1 .. Len(slides) :
              /\ slides[k].first \in Nat /\ slides[k].last \in Nat
              /\ slides[k].first <= slides[k].last /\ slides[k].last < end
         /\ \A j, k \in 1 .. Len(slides) : j < k => slides[j].last < slides[k].first
<1>1. slides \in Seq(Pages)
  BY DEF TablesIInv, PagesInv
<1>2. DOMAIN slides = 1 .. Len(slides) /\ Len(slides) \in Nat
      /\ \A k \in 1 .. Len(slides) : slides[k] \in Pages
  BY <1>1, LenProperties
<1>3. \A k \in 1 .. Len(slides) : slides[k].first \in Nat /\ slides[k].last \in Nat
  BY <1>2 DEF Pages
<1> QED
  BY <1>2, <1>3 DEF TablesIInv, PagesInv

\* The pages with a rule.
LEMMA RulePagesAre ==
  ASSUME TablesIInv, RulesInv
  PROVE  /\ RulePages = {k \in 1 .. Len(slides) :
                           slides[k].first <= missIdx /\ missIdx <= slides[k].last + 1}
         /\ \A k \in RulePages : \A rule \in slides[k].rules : rule = <<misses, missIdx>>
<1>1. \A k \in 1 .. Len(slides) :
        slides[k].rules = IF slides[k].first <= missIdx /\ missIdx <= slides[k].last + 1
                          THEN {<<misses, missIdx>>} ELSE {}
  BY DEF RulesInv, append_misses
<1>2. RulePages = {k \in 1 .. Len(slides) : slides[k].rules # {}}
  BY PageFacts DEF RulePages
<1> QED
  BY <1>1, <1>2

LEMMA RulesAreRight ==
  ASSUME MissIInv, Written
  PROVE  /\ RulePages = {} <=> missIdx = None
         /\ \A k \in RulePages : \A rule \in slides[k].rules :
              /\ rule[1] = DrawnShort(rule[2])
              /\ \A s \in 1 .. rule[2] - 1 : DrawnShort(s) = {}
         /\ Cardinality(RulePages) > 1 =>
              \E k \in RulePages : RulePages = {k - 1, k} /\ slides[k].first = missIdx
<1>1. TablesIInv /\ RulesInv /\ HistoryInv /\ Over /\ end = hyper
  BY DEF MissIInv, Written
<1>2. /\ Len(slides) \in Nat
      /\ \A k \in 1 .. Len(slides) :
           /\ slides[k].first \in Nat /\ slides[k].last \in Nat
           /\ slides[k].first <= slides[k].last /\ slides[k].last < end
      /\ \A j, k \in 1 .. Len(slides) : j < k => slides[j].last < slides[k].first
  BY <1>1, PageFacts
<1>3. /\ RulePages = {k \in 1 .. Len(slides) :
                        slides[k].first <= missIdx /\ missIdx <= slides[k].last + 1}
      /\ \A k \in RulePages : \A rule \in slides[k].rules : rule = <<misses, missIdx>>
  BY <1>1, RulePagesAre
<1>4. hyper \in Nat \ {0} /\ missIdx \in {None} \cup 0 .. hyper
  BY <1>1 DEF TablesIInv, SimIInv, TypeOK
<1>5. missIdx = None => RulePages = {}
  BY <1>2, <1>3 DEF None
<1>6. ASSUME missIdx # None PROVE RulePages # {}
  <2>1. missIdx \in 1 .. hyper
    BY <1>1, <1>6 DEF HistoryInv
  <2> DEFINE s == IF missIdx = hyper THEN hyper - 1 ELSE missIdx
  <2>2. s \in 0 .. end - 1
    BY <1>1, <1>4, <2>1
  <2>3. PICK k \in 1 .. Len(slides) : s \in slides[k].first .. slides[k].last
    BY <1>1, <2>2 DEF TablesIInv, PagesInv, Slots
  <2>4. slides[k].first <= missIdx /\ missIdx <= slides[k].last + 1
    <3>1. missIdx = s \/ missIdx = s + 1
      BY <1>4
    <3>2. s \in Int
      BY <1>4, <2>1
    <3> HIDE DEF s
    <3> QED
      BY <1>2, <2>3, <3>1, <3>2
  <2> QED
    BY <1>3, <2>4
<1>7. ASSUME NEW k \in RulePages, NEW rule \in slides[k].rules
      PROVE  /\ rule[1] = DrawnShort(rule[2])
             /\ \A s \in 1 .. rule[2] - 1 : DrawnShort(s) = {}
  <2>1. rule[1] = misses /\ rule[2] = missIdx
    BY <1>3, <1>7
  <2>2. missIdx # None
    BY <1>5, <1>7
  <2>3. missIdx \in 1 .. end /\ misses = Short(missIdx)
        /\ \A s \in 1 .. missIdx - 1 : Short(s) = {}
    BY <1>1, <2>2 DEF HistoryInv
  <2>4. misses = DrawnShort(missIdx)
    BY <1>1, <2>3, DrawnShortRight
  <2>5. ASSUME NEW s \in 1 .. missIdx - 1 PROVE DrawnShort(s) = {}
    <3>1. s \in 1 .. end
      BY <1>1, <1>4, <2>3
    <3> QED
      BY <1>1, <2>3, <3>1, DrawnShortRight
  <2> QED
    BY <2>1, <2>4, <2>5
\* Of two pages with the rule, the rule is where one ends and the other begins.
<1>8. ASSUME NEW j \in RulePages, NEW k \in RulePages, j < k
      PROVE  missIdx = slides[k].first /\ j = k - 1
  <2>1. /\ j \in 1 .. Len(slides) /\ k \in 1 .. Len(slides)
        /\ slides[k].first <= missIdx /\ missIdx <= slides[j].last + 1
    BY <1>3
  <2>2. slides[j].last < slides[k].first /\ missIdx \in Int
    BY <1>2, <1>4, <1>8, <2>1 DEF None
  <2>3. missIdx = slides[k].first /\ missIdx = slides[j].last + 1
    BY <1>2, <2>1, <2>2
  <2>4. ~(j < k - 1)
    <3> SUFFICES ASSUME j < k - 1 PROVE FALSE
      OBVIOUS
    <3>1. k - 1 \in 1 .. Len(slides) /\ k - 1 < k
      BY <1>2, <2>1
    <3> DEFINE l == k - 1
    <3>2. /\ slides[j].last < slides[l].first /\ slides[l].last < slides[k].first
          /\ slides[l].first <= slides[l].last
          /\ slides[l].first \in Nat /\ slides[l].last \in Nat
      BY <1>2, <2>1, <3>1
    <3> HIDE DEF l
    <3> QED
      BY <1>2, <2>1, <2>3, <3>2
  <2> QED
    BY <1>2, <1>8, <2>1, <2>3, <2>4
<1>9. ASSUME Cardinality(RulePages) > 1
      PROVE  \E k \in RulePages : RulePages = {k - 1, k} /\ slides[k].first = missIdx
  <2>1. RulePages \subseteq 1 .. Len(slides)
    BY <1>3
  <2>2. \E j, k \in RulePages : j # k
    <3> SUFFICES ASSUME \A j, k \in RulePages : j = k PROVE FALSE
      OBVIOUS
    <3>1. RulePages = {} \/ \E k : RulePages = {k}
      OBVIOUS
    <3>2. Cardinality(RulePages) \in {0, 1}
      BY <3>1, FS_EmptySet, FS_Singleton
    <3> QED
      BY <1>9, <3>2
  <2>3. PICK j \in RulePages, k \in RulePages : j < k
    BY <1>2, <2>1, <2>2
  <2>4. missIdx = slides[k].first /\ j = k - 1
    BY <1>8, <2>3
  <2>5. ASSUME NEW l \in RulePages PROVE l \in {k - 1, k}
    <3>1. l \in Nat /\ k \in Nat /\ j \in Nat
      BY <1>2, <2>1
    <3>2. CASE l < k
      BY <1>8, <3>2
    <3>3. CASE l > k
      <4>1. j < l
        BY <2>3, <3>1, <3>3
      <4>2. j = l - 1
        BY <1>8, <4>1
      <4> QED
        BY <2>4, <3>1, <3>3, <4>2
    <3> QED
      BY <3>1, <3>2, <3>3
  <2>6. RulePages = {k - 1, k}
    BY <2>3, <2>4, <2>5
  <2> QED
    BY <2>4, <2>6
<1> QED
  BY <1>5, <1>6, <1>7, <1>8, <1>9

(* The rule on the slides is the first miss of the schedule that the       *)
(* slides show, with the tasks that miss it, and it is on two pages only   *)
(* at the edge between them (append_misses in ttables.c; the misses that   *)
(* simulation.c records by comparing time_left with 0).  The periods are   *)
(* ints.                                                                   *)
THEOREM MissIsShown ==
  ASSUME Periods \subseteq 1 .. INT_MAX
  PROVE  TablesSpec => []MissShown
<1>1. TablesInit => MissIInv
  <2> SUFFICES ASSUME TablesInit PROVE MissIInv
    OBVIOUS
  <2>1. Init /\ slides = <<>>
    BY DEF TablesInit
  <2>2. RulesInv
    BY <2>1 DEF RulesInv
  <2> QED
    BY <2>1, <2>2, InitTables, InitRefine, InitHistory DEF MissIInv
<1>2. MissIInv /\ [TablesNext]_TablesVars => MissIInv'
  BY MissStep
<1>3. MissIInv => MissShown
  BY RulesAreRight DEF MissShown
<1> QED
  BY <1>1, <1>2, <1>3, PTL DEF TablesSpec
=============================================================================
