-------------------------------- MODULE Sums --------------------------------
(***************************************************************************)
(* Sums over finite sets, as the models take them with MapThenSumSet: the  *)
(* flags charged to a session, the flags of all windows, the bytes of all  *)
(* blobs.  The facts below are what a proof about such a sum needs; the    *)
(* order in which the fold picks the elements does not matter.             *)
(*                                                                         *)
(* With them, what other proofs about data need: least and greatest        *)
(* elements, and induction and recursion from the last position of a       *)
(* sequence to the first.                                                  *)
(***************************************************************************)
EXTENDS Integers, FiniteSets, FiniteSetsExt, FiniteSetTheorems, TLAPS

\* The sum of f over S.
Total(f, S) == MapThenSumSet(LAMBDA x : f[x], S)

-----------------------------------------------------------------------------
(* Induction over data, stated with sets so that it can be cited. *)

\* A set of numbers that has 0 and is closed under successor has them all.
LEMMA NatSetInduction ==
  ASSUME NEW T, 0 \in T, \A n \in Nat : n \in T => n + 1 \in T
  PROVE  Nat \subseteq T
<1> SUFFICES ASSUME Nat \ T # {} PROVE FALSE
  OBVIOUS
<1>1. Nat \ T \subseteq Nat
  OBVIOUS
<1>2. \E m \in Nat \ T : \A k \in Nat \ T : <<k, m>> \notin OpToRel(<, Nat)
  BY <1>1, NatLessThanWellFounded, WFMin
<1>3. \E m \in Nat \ T : \A k \in Nat \ T : ~(k < m)
  BY <1>2 DEF OpToRel
<1>4. PICK m \in Nat \ T : \A k \in Nat \ T : ~(k < m)
  BY <1>3
<1>5. m # 0
  OBVIOUS
<1>6. m - 1 \in Nat /\ m - 1 < m /\ (m - 1) + 1 = m
  BY <1>5
<1>7. QED
  BY <1>4, <1>6

\* A set of numbers that is not empty has a least one, and Min is it.
LEMMA MinIsLeast ==
  ASSUME NEW S \in SUBSET Nat, S # {}
  PROVE  Min(S) \in S /\ \A x \in S : Min(S) <= x
<1>1. \E m \in S : \A x \in S : m <= x
  <2> SUFFICES ASSUME \A m \in S : \E x \in S : ~(m <= x) PROVE FALSE
    OBVIOUS
  <2> DEFINE Below == {n \in Nat : \A x \in S : n <= x}
  <2>1. 0 \in Below
    OBVIOUS
  <2>2. ASSUME NEW n \in Nat, n \in Below PROVE n + 1 \in Below
    <3>1. n \notin S
      BY <2>2
    <3>2. QED
      BY <2>2, <3>1
  <2>3. Nat \subseteq Below
    <3> HIDE DEF Below
    <3>1. QED
      BY <2>1, <2>2, NatSetInduction
  <2>4. PICK x \in S : TRUE
    OBVIOUS
  <2>5. x + 1 \in Below
    BY <2>3
  <2>6. QED
    BY <2>4, <2>5
<1>2. QED
  BY <1>1 DEF Min

\* So has a set that does not go beyond n a greatest one.
LEMMA MaxIsGreatest ==
  ASSUME NEW n \in Nat, NEW S \in SUBSET (0 .. n), S # {}
  PROVE  Max(S) \in S /\ \A x \in S : x <= Max(S)
<1> DEFINE Bounds == {m \in Nat : \A x \in S : x <= m}
           m == Min(Bounds)
<1>1. n \in Bounds /\ Bounds \in SUBSET Nat
  OBVIOUS
<1>2. m \in Bounds /\ \A x \in Bounds : m <= x
  <2> HIDE DEF Bounds
  <2>1. QED
    BY <1>1, MinIsLeast
<1> HIDE DEF m
<1>3. m \in S
  <2> SUFFICES ASSUME m \notin S PROVE FALSE
    OBVIOUS
  <2>1. m # 0
    <3>1. PICK x \in S : TRUE
      OBVIOUS
    <3>2. x \in Nat /\ x <= m /\ x # m
      BY <1>2
    <3>3. QED
      BY <3>2
  <2>2. m - 1 \in Bounds
    BY <1>2, <2>1
  <2>3. QED
    BY <1>2, <2>2
<1>4. \A x \in S : m >= x
  BY <1>2
<1>5. QED
  BY <1>3, <1>4 DEF Max

\* From the last position to the first.
LEMMA DescendingInduction ==
  ASSUME NEW N \in Nat, NEW S, \A p \in 1 .. N : (p + 1) .. N \subseteq S => p \in S
  PROVE  1 .. N \subseteq S
<1> DEFINE Sizes == {n \in Nat : \A p \in 1 .. N : p > N - n => p \in S}
<1>1. 0 \in Sizes
  OBVIOUS
<1>2. ASSUME NEW n \in Nat, n \in Sizes PROVE n + 1 \in Sizes
  <2> SUFFICES ASSUME NEW p \in 1 .. N, p > N - (n + 1) PROVE p \in S
    OBVIOUS
  <2>1. (p + 1) .. N \subseteq S
    BY <1>2
  <2>2. QED
    BY <2>1
<1>3. N \in Sizes
  <2> HIDE DEF Sizes
  <2>1. QED
    BY <1>1, <1>2, NatSetInduction
<1>4. QED
  BY <1>3

\* A function on positions is defined by what it is at one, given what it is at
\* those after it: G says what, of types T.
Descends(N, T, G) ==
  \A p \in 1 .. N : \A g :
    g = Restrict(g, (p + 1) .. N) /\ (\A q \in (p + 1) .. N : g[q] \in T[q]) => G[<<p, g>>] \in T[p]

SolvedBy(f, N, T, G) ==
  /\ f = Restrict(f, 1 .. N)
  /\ \A p \in 1 .. N : f[p] \in T[p] /\ f[p] = G[<<p, Restrict(f, (p + 1) .. N)>>]

LEMMA DescendingRecursion ==
  ASSUME NEW N \in Nat, NEW T, NEW G, Descends(N, T, G)
  PROVE  \E f : SolvedBy(f, N, T, G)
<1> DEFINE After(f, p) == Restrict(f, (p + 1) .. N)
           Solves(f, m) == /\ f = Restrict(f, 1 .. N)
                           /\ \A p \in 1 .. N : p > m => f[p] \in T[p] /\ f[p] = G[<<p, After(f, p)>>]
           Sizes == {n \in Nat : \E f : Solves(f, N - n)}
<1>1. 0 \in Sizes
  <2>1. Solves([p \in 1 .. N |-> p], N - 0)
    BY DEF Restrict
  <2>2. QED
    BY <2>1
<1>2. ASSUME NEW n \in Nat, n \in Sizes PROVE n + 1 \in Sizes
  <2>1. PICK f : Solves(f, N - n)
    BY <1>2
  <2> DEFINE k == N - n
  <2>2. CASE k \notin 1 .. N
    <3>1. Solves(f, N - (n + 1))
      <4>1. \A p \in 1 .. N : p > N - (n + 1) => p > N - n
        BY <2>2
      <4> HIDE DEF After, k
      <4>2. QED
        BY <2>1, <4>1
    <3>2. QED
      BY <3>1
  <2>3. CASE k \in 1 .. N
    <3> DEFINE v == G[<<k, After(f, k)>>]
               g == [f EXCEPT ![k] = v]
    <3>1. v \in T[k]
      <4>1. \A q \in (k + 1) .. N : After(f, k)[q] \in T[q]
        <5>1. \A q \in (k + 1) .. N : q \in 1 .. N /\ q > N - n
          BY <2>3
        <5>2. \A q \in (k + 1) .. N : f[q] \in T[q]
          <6> HIDE DEF After, k
          <6>1. QED
            BY <2>1, <5>1
        <5>3. QED
          BY <5>2 DEF Restrict
      <4>2. After(f, k) = Restrict(After(f, k), (k + 1) .. N)
        <5> HIDE DEF k
        <5>1. QED
          BY DEF Restrict
      <4> HIDE DEF After, k
      <4>3. QED
        BY <2>3, <4>1, <4>2 DEF Descends
    <3>2. g = Restrict(g, 1 .. N) /\ g[k] = v /\ \A p \in 1 .. N : p # k => g[p] = f[p]
      <4> HIDE DEF After, v, k
      <4>1. QED
        BY <2>1, <2>3 DEF Restrict
    <3>3. \A p \in 1 .. N : p >= k => After(g, p) = After(f, p)
      <4> HIDE DEF g, v
      <4>1. QED
        BY <2>3, <3>2 DEF Restrict
    <3>4. \A p \in 1 .. N : p > N - (n + 1) => p = k \/ p > N - n
      OBVIOUS
    <3>5. \A p \in 1 .. N : p > N - n => p >= k /\ p # k
      OBVIOUS
    <3>6. k >= k
      OBVIOUS
    <3>7. v = G[<<k, After(f, k)>>]
      OBVIOUS
    <3> HIDE DEF g, v, After, k
    <3>8. ASSUME NEW p \in 1 .. N, p > N - (n + 1)
          PROVE  g[p] \in T[p] /\ g[p] = G[<<p, After(g, p)>>]
      <4>1. CASE p = k
        BY <2>3, <3>1, <3>2, <3>3, <3>6, <3>7, <4>1
      <4>2. CASE p > N - n
        BY <2>1, <3>2, <3>3, <3>5, <4>2
      <4>3. QED
        BY <3>4, <3>8, <4>1, <4>2
    <3>9. Solves(g, N - (n + 1))
      BY <3>2, <3>8
    <3>10. QED
      BY <3>9
  <2>4. QED
    BY <2>2, <2>3
<1>3. N \in Sizes
  <2> HIDE DEF Sizes
  <2>1. QED
    BY <1>1, <1>2, NatSetInduction
<1>4. PICK f : Solves(f, 0)
  BY <1>3
<1>5. QED
  BY <1>4 DEF SolvedBy

\* A collection of finite sets that has every set all of whose proper subsets it
\* has, has them all.
LEMMA SubsetInduction ==
  ASSUME NEW S, IsFiniteSet(S), NEW T,
         \A s \in SUBSET S : (\A r \in SUBSET s : r # s => r \in T) => s \in T
  PROVE  SUBSET S \subseteq T
<1> SUFFICES ASSUME (SUBSET S) \ T # {} PROVE FALSE
  OBVIOUS
<1>1. FiniteSubsetsOf(S) = SUBSET S
  BY FS_FiniteSubsetsOfFinite
<1>2. IsWellFoundedOn(StrictSubsetOrdering(S), FiniteSubsetsOf(S))
  BY FS_StrictSubsetOrderingWellFounded
<1>3. (SUBSET S) \ T \subseteq FiniteSubsetsOf(S)
  BY <1>1
<1>4. PICK m \in (SUBSET S) \ T :
        \A r \in (SUBSET S) \ T : <<r, m>> \notin StrictSubsetOrdering(S)
  <2> DEFINE U == (SUBSET S) \ T
  <2>1. U \subseteq FiniteSubsetsOf(S) /\ U # {}
    BY <1>3
  <2> HIDE DEF U
  <2>2. \E m \in U : \A r \in U : <<r, m>> \notin StrictSubsetOrdering(S)
    BY <1>2, <2>1, WFMin
  <2>3. QED
    BY <2>2 DEF U
<1>5. \A r \in SUBSET m : r # m => r \in T
  BY <1>4 DEF StrictSubsetOrdering
<1>6. QED
  BY <1>4, <1>5

-----------------------------------------------------------------------------
(* The fold is well defined. *)

\* The element the fold takes first.
Pick(s) == CHOOSE x \in s : TRUE

\* One step of the fold, given what it makes of smaller sets.
Step(f, g, s) == IF s = {} THEN 0 ELSE f[Pick(s)] + g[s \ {Pick(s)}]

LEMMA PickIsElement == ASSUME NEW s, s # {} PROVE Pick(s) \in s
BY DEF Pick

\* g satisfies the equation of the fold on every subset of S.
IsFold(g, f, S) == g = [s \in SUBSET S |-> Step(f, g, s)]

\* Such a function exists: it is built up by the size of the subsets.
LEMMA FoldExists ==
  ASSUME NEW S, IsFiniteSet(S), NEW f
  PROVE  \E g : IsFold(g, f, S)
<1> DEFINE Good(g, n) == \A s \in SUBSET S : Cardinality(s) <= n => g[s] = Step(f, g, s)
           Sizes == {n \in Nat : \E g : g = [s \in SUBSET S |-> g[s]] /\ Good(g, n)}
<1>1. \A s \in SUBSET S : IsFiniteSet(s) /\ Cardinality(s) \in Nat
                          /\ Cardinality(s) <= Cardinality(S)
  BY FS_Subset, FS_CardinalityType
<1>2. \A s \in SUBSET S : s # {} =>
        /\ s \ {Pick(s)} \in SUBSET S
        /\ Cardinality(s \ {Pick(s)}) = Cardinality(s) - 1
  BY <1>1, PickIsElement, FS_RemoveElement
<1>3. 0 \in Sizes
  <2> DEFINE g == [s \in SUBSET S |-> 0]
  <2>1. \A s \in SUBSET S : Cardinality(s) <= 0 => s = {}
    BY <1>1, FS_EmptySet
  <2>2. Good(g, 0)
    BY <2>1 DEF Step
  <2>3. QED
    BY <2>2
<1>4. ASSUME NEW n \in Nat, n \in Sizes PROVE n + 1 \in Sizes
  <2>1. PICK g : g = [s \in SUBSET S |-> g[s]] /\ Good(g, n)
    BY <1>4
  <2> DEFINE h == [s \in SUBSET S |-> IF Cardinality(s) <= n THEN g[s] ELSE Step(f, g, s)]
  <2>2. ASSUME NEW s \in SUBSET S, Cardinality(s) <= n + 1 PROVE h[s] = Step(f, h, s)
    <3>1. h[s] = Step(f, g, s)
      BY <2>1
    <3>2. s # {} => h[s \ {Pick(s)}] = g[s \ {Pick(s)}]
      BY <1>1, <1>2, <2>2
    <3>3. QED
      BY <3>1, <3>2 DEF Step
  <2>3. Good(h, n + 1)
    BY <2>2
  <2>4. h = [s \in SUBSET S |-> h[s]]
    OBVIOUS
  <2> HIDE DEF h, Good
  <2>5. QED
    BY <2>3, <2>4
<1> HIDE DEF Sizes
<1>5. Cardinality(S) \in Sizes
  BY <1>1, <1>3, <1>4, NatSetInduction
<1>6. PICK g : g = [s \in SUBSET S |-> g[s]] /\ Good(g, Cardinality(S))
  BY <1>5 DEF Sizes
<1>7. IsFold(g, f, S)
  BY <1>1, <1>6 DEF IsFold
<1>8. QED
  BY <1>7

\* What the fold makes of a set does not depend on the larger set it started from.
LEMMA FoldUnique ==
  ASSUME NEW S, IsFiniteSet(S), NEW f, NEW R \in SUBSET S,
         NEW g, g = [s \in SUBSET S |-> Step(f, g, s)],
         NEW h, h = [s \in SUBSET R |-> Step(f, h, s)]
  PROVE  g[R] = h[R]
<1> DEFINE Same == {s \in SUBSET R : g[s] = h[s]}
<1>1. IsFiniteSet(R)
  BY FS_Subset
<1>2. ASSUME NEW s \in SUBSET R, \A r \in SUBSET s : r # s => r \in Same
      PROVE  s \in Same
  <2>1. g[s] = Step(f, g, s) /\ h[s] = Step(f, h, s)
    OBVIOUS
  <2>2. s # {} => g[s \ {Pick(s)}] = h[s \ {Pick(s)}]
    BY <1>2, PickIsElement
  <2>3. QED
    BY <2>1, <2>2 DEF Step
<1> HIDE DEF Same
<1>3. SUBSET R \subseteq Same
  BY <1>1, <1>2, SubsetInduction
<1>4. QED
  BY <1>3 DEF Same

\* The sum is the fold's value for the whole set.
LEMMA TotalIsFold ==
  ASSUME NEW S, IsFiniteSet(S), NEW f
  PROVE  \E g : g = [s \in SUBSET S |-> Step(f, g, s)] /\ Total(f, S) = g[S]
<1> DEFINE fold == CHOOSE g : IsFold(g, f, S)
<1>1. IsFold(fold, f, S)
  BY FoldExists
<1>2. Total(f, S) = fold[S]
  BY DEF Total, MapThenSumSet, MapThenFoldSet, Step, Pick, IsFold
<1> HIDE DEF fold
<1>3. QED
  BY <1>1, <1>2 DEF IsFold

LEMMA TotalStep ==
  ASSUME NEW S, IsFiniteSet(S), NEW f
  PROVE  /\ S = {} => Total(f, S) = 0
         /\ S # {} => Pick(S) \in S /\ Total(f, S) = f[Pick(S)] + Total(f, S \ {Pick(S)})
<1>1. PICK g : g = [s \in SUBSET S |-> Step(f, g, s)] /\ Total(f, S) = g[S]
  BY TotalIsFold
<1>2. g[S] = Step(f, g, S)
  BY <1>1
<1>3. CASE S = {}
  BY <1>1, <1>2, <1>3 DEF Step
<1>4. CASE S # {}
  <2> DEFINE R == S \ {Pick(S)}
  <2>1. R \in SUBSET S /\ IsFiniteSet(R)
    BY FS_Subset
  <2> HIDE DEF R
  <2>2. PICK h : h = [s \in SUBSET R |-> Step(f, h, s)] /\ Total(f, R) = h[R]
    BY <2>1, TotalIsFold
  <2>3. g[R] = h[R]
    BY <1>1, <2>1, <2>2, FoldUnique
  <2>4. Total(f, S) = f[Pick(S)] + Total(f, R)
    BY <1>1, <1>2, <1>4, <2>2, <2>3 DEF Step, R
  <2>5. QED
    BY <1>4, <2>4, PickIsElement DEF R
<1>5. QED
  BY <1>3, <1>4

-----------------------------------------------------------------------------
(* Facts to cite. *)

\* A sum of naturals is a natural.
LEMMA TotalType ==
  ASSUME NEW S, IsFiniteSet(S), NEW f, \A x \in S : f[x] \in Nat
  PROVE  Total(f, S) \in Nat
<1> DEFINE Typed == {s \in SUBSET S : Total(f, s) \in Nat}
<1>1. ASSUME NEW s \in SUBSET S, \A r \in SUBSET s : r # s => r \in Typed
      PROVE  s \in Typed
  <2>1. IsFiniteSet(s)
    BY FS_Subset
  <2>2. CASE s = {}
    BY <2>1, <2>2, TotalStep
  <2>3. CASE s # {}
    <3>1. Pick(s) \in s /\ Total(f, s) = f[Pick(s)] + Total(f, s \ {Pick(s)})
      BY <2>1, <2>3, TotalStep
    <3>2. Total(f, s \ {Pick(s)}) \in Nat
      BY <1>1, <3>1
    <3>3. f[Pick(s)] \in Nat
      BY <3>1
    <3>4. QED
      BY <3>1, <3>2, <3>3
  <2>4. QED
    BY <2>2, <2>3
<1> HIDE DEF Typed
<1>2. SUBSET S \subseteq Typed
  BY <1>1, SubsetInduction
<1>3. QED
  BY <1>2 DEF Typed

\* Any element can be taken out first.
LEMMA TotalRemove ==
  ASSUME NEW S, IsFiniteSet(S), NEW f, \A x \in S : f[x] \in Nat, NEW y \in S
  PROVE  Total(f, S) = f[y] + Total(f, S \ {y})
<1> DEFINE Any == {s \in SUBSET S : \A x \in s : Total(f, s) = f[x] + Total(f, s \ {x})}
<1>1. ASSUME NEW s \in SUBSET S, \A r \in SUBSET s : r # s => r \in Any
      PROVE  s \in Any
  <2> SUFFICES ASSUME NEW x \in s PROVE Total(f, s) = f[x] + Total(f, s \ {x})
    OBVIOUS
  <2> DEFINE p == Pick(s)
  <2>1. p \in s /\ Total(f, s) = f[p] + Total(f, s \ {p})
    <3>1. IsFiniteSet(s)
      BY FS_Subset
    <3>2. QED
      BY <3>1, TotalStep
  <2> HIDE DEF p
  <2>2. CASE x = p
    BY <2>1, <2>2
  <2>3. CASE x # p
    <3>1. Total(f, s \ {p}) = f[x] + Total(f, (s \ {p}) \ {x})
      BY <1>1, <2>1, <2>3
    <3>2. Total(f, s \ {x}) = f[p] + Total(f, (s \ {x}) \ {p})
      BY <1>1, <2>1, <2>3
    <3>3. (s \ {p}) \ {x} = (s \ {x}) \ {p}
      OBVIOUS
    <3> DEFINE rest == Total(f, (s \ {x}) \ {p})
    <3>4. rest \in Nat
      <4>1. (s \ {x}) \ {p} \in SUBSET S
        OBVIOUS
      <4>2. IsFiniteSet((s \ {x}) \ {p})
        BY <4>1, FS_Subset
      <4>3. QED
        BY <4>1, <4>2, TotalType
    <3>5. f[x] \in Nat /\ f[p] \in Nat
      BY <2>1
    <3>6. Total(f, s) = f[p] + (f[x] + rest) /\ Total(f, s \ {x}) = f[p] + rest
      BY <2>1, <3>1, <3>2, <3>3
    <3> HIDE DEF rest
    <3>7. QED
      BY <3>4, <3>5, <3>6
  <2>4. QED
    BY <2>2, <2>3
<1> HIDE DEF Any
<1>2. SUBSET S \subseteq Any
  BY <1>1, SubsetInduction
<1>3. QED
  BY <1>2 DEF Any

LEMMA TotalEmpty == ASSUME NEW f PROVE Total(f, {}) = 0
BY TotalStep, FS_EmptySet

LEMMA TotalAdd ==
  ASSUME NEW S, IsFiniteSet(S), NEW y, y \notin S, NEW f,
         \A x \in S \cup {y} : f[x] \in Nat
  PROVE  Total(f, S \cup {y}) = Total(f, S) + f[y]
<1> DEFINE R == S \cup {y}
<1>1. IsFiniteSet(R) /\ y \in R /\ R \ {y} = S /\ \A x \in R : f[x] \in Nat
  BY FS_AddElement
<1> HIDE DEF R
<1>2. Total(f, R) = f[y] + Total(f, S)
  BY <1>1, TotalRemove
<1>3. f[y] \in Nat /\ Total(f, S) \in Nat
  BY TotalType
<1>4. QED
  BY <1>2, <1>3 DEF R

\* Only the values on the set matter.
LEMMA TotalSame ==
  ASSUME NEW S, IsFiniteSet(S), NEW f, NEW g, \A x \in S : f[x] = g[x]
  PROVE  Total(f, S) = Total(g, S)
<1> DEFINE Same == {s \in SUBSET S : Total(f, s) = Total(g, s)}
<1>1. ASSUME NEW s \in SUBSET S, \A r \in SUBSET s : r # s => r \in Same
      PROVE  s \in Same
  <2>1. IsFiniteSet(s)
    BY FS_Subset
  <2>2. CASE s = {}
    BY <2>2, TotalEmpty
  <2>3. CASE s # {}
    <3>1. /\ Pick(s) \in s
          /\ Total(f, s) = f[Pick(s)] + Total(f, s \ {Pick(s)})
          /\ Total(g, s) = g[Pick(s)] + Total(g, s \ {Pick(s)})
      BY <2>1, <2>3, TotalStep
    <3>2. Total(f, s \ {Pick(s)}) = Total(g, s \ {Pick(s)})
      BY <1>1, <3>1
    <3>3. f[Pick(s)] = g[Pick(s)]
      BY <3>1
    <3>4. QED
      BY <3>1, <3>2, <3>3
  <2>4. QED
    BY <2>2, <2>3
<1> HIDE DEF Same
<1>2. SUBSET S \subseteq Same
  BY <1>1, SubsetInduction
<1>3. QED
  BY <1>2 DEF Same

\* A smaller set has no larger sum.
LEMMA TotalMonotone ==
  ASSUME NEW S, IsFiniteSet(S), NEW R \in SUBSET S, NEW f, \A x \in S : f[x] \in Nat
  PROVE  Total(f, R) <= Total(f, S)
<1> DEFINE Below == {s \in SUBSET S : R \subseteq s => Total(f, R) <= Total(f, s)}
<1>1. ASSUME NEW s \in SUBSET S, \A r \in SUBSET s : r # s => r \in Below
      PROVE  s \in Below
  <2> SUFFICES ASSUME R \subseteq s PROVE Total(f, R) <= Total(f, s)
    OBVIOUS
  <2>1. /\ IsFiniteSet(s) /\ IsFiniteSet(R)
        /\ \A x \in s : f[x] \in Nat
        /\ \A x \in R : f[x] \in Nat
    BY FS_Subset
  <2>2. Total(f, s) \in Nat /\ Total(f, R) \in Nat
    BY <2>1, TotalType
  <2>3. CASE s = R
    BY <2>2, <2>3
  <2>4. CASE s # R
    <3>1. PICK x \in s : x \notin R
      BY <2>4
    <3> DEFINE t == s \ {x}
    <3>2. t \in SUBSET s /\ t # s /\ R \subseteq t /\ IsFiniteSet(t)
      BY <2>1, <3>1, FS_Subset
    <3>3. Total(f, s) = f[x] + Total(f, t)
      BY <2>1, <3>1, TotalRemove
    <3> HIDE DEF t
    <3>4. Total(f, R) <= Total(f, t)
      BY <1>1, <3>2
    <3>5. Total(f, t) \in Nat /\ f[x] \in Nat
      BY <2>1, <3>2, TotalType
    <3>6. QED
      BY <2>2, <3>3, <3>4, <3>5
  <2>5. QED
    BY <2>3, <2>4
<1> HIDE DEF Below
<1>2. SUBSET S \subseteq Below
  BY <1>1, SubsetInduction
<1>3. QED
  BY <1>2 DEF Below
=============================================================================
