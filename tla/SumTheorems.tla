----------------------------- MODULE SumTheorems -----------------------------
(***************************************************************************)
(* Facts about SumFunctionOnSet of the community modules.                  *)
(***************************************************************************)
EXTENDS Functions, FiniteSetTheorems, WellFoundedInduction, TLAPS

\* The element a fold takes out of a set next.
Pick(s) == CHOOSE x \in s : TRUE

\* The equation of the fold that sums f over the subsets of S.
Sums(h, f, S) ==
    h = [s \in SUBSET S |-> IF s = {} THEN 0 ELSE f[Pick(s)] + h[s \ {Pick(s)}]]

LEMMA SumIs ==
    ASSUME NEW f, NEW S
    PROVE  SumFunctionOnSet(f, S) = (CHOOSE h : Sums(h, f, S))[S]
BY DEF SumFunctionOnSet, FoldFunctionOnSet, MapThenFoldSet, Sums, Pick

-----------------------------------------------------------------------------
(* Induction, with the induction hypothesis as a set.                      *)

\* A set of numbers that holds 0, and k + 1 with k, holds every number.
LEMMA NatSetInduction ==
    ASSUME NEW G, 0 \in G, \A k \in Nat : k \in G => k + 1 \in G
    PROVE  \A k \in Nat : k \in G
<1> DEFINE T == Nat \ G
<1>1. SUFFICES ASSUME T # {} PROVE FALSE
  OBVIOUS
<1>2. T \subseteq Nat
  OBVIOUS
<1>3. PICK y \in T : \A z \in T : ~(<<z, y>> \in OpToRel(<, Nat))
  <2> HIDE DEF T
  <2> QED BY <1>1, <1>2, WFMin, NatLessThanWellFounded, Zenon
<1>4. \A z \in T : ~(z < y)
  BY <1>2, <1>3 DEF OpToRel
<1>5. y # 0 /\ y - 1 \in Nat /\ y - 1 < y /\ (y - 1) + 1 = y
  OBVIOUS
<1>6. y - 1 \in G
  BY <1>4, <1>5
<1> QED BY <1>5, <1>6

\* A nonempty family of finite subsets has a smallest member.
LEMMA SmallestSubset ==
    ASSUME NEW T, NEW B, B # {}, B \subseteq FiniteSubsetsOf(T)
    PROVE  \E M \in B : \A U \in B : ~(<<U, M>> \in StrictSubsetOrdering(T))
BY WFMin, FS_StrictSubsetOrderingWellFounded, Zenon

\* A family of subsets of a finite set that holds every set whose proper
\* subsets it holds, holds all of them.
LEMMA SubsetInduction ==
    ASSUME NEW T, IsFiniteSet(T), NEW G,
           \A S \in SUBSET T : (\A U \in SUBSET S : U # S => U \in G) => S \in G
    PROVE  \A S \in SUBSET T : S \in G
<1> DEFINE B == (SUBSET T) \ G
<1>1. SUFFICES ASSUME B # {} PROVE FALSE
  OBVIOUS
<1>2. \A S \in B : S \subseteq T /\ IsFiniteSet(S)
  BY FS_Subset
<1>3. B \subseteq FiniteSubsetsOf(T)
  BY <1>2 DEF FiniteSubsetsOf
<1>4. PICK M \in B : \A U \in B : ~(<<U, M>> \in StrictSubsetOrdering(T))
  <2> HIDE DEF B
  <2> QED BY <1>1, <1>3, SmallestSubset
<1>5. \A U \in SUBSET M : U # M => U \in G
  BY <1>4 DEF StrictSubsetOrdering
<1> QED BY <1>5

-----------------------------------------------------------------------------
(* The fold is defined, and has one value.                                 *)

\* What is left once an element is taken out is a smaller set.
LEMMA PickIn ==
    ASSUME NEW S, S # {}
    PROVE  Pick(S) \in S /\ S \ {Pick(S)} \subseteq S /\ S \ {Pick(S)} # S
BY DEF Pick

\* Level by level, the equation of the fold has a solution.
LEMMA SumsExist ==
    ASSUME NEW T, IsFiniteSet(T), NEW f \in [T -> Int]
    PROVE  \E h \in [SUBSET T -> Int] : Sums(h, f, T)
<1> DEFINE Level(k) == {s \in SUBSET T : Cardinality(s) <= k}
           Value(h, s) == IF s = {} THEN 0 ELSE f[Pick(s)] + h[s \ {Pick(s)}]
           G == {k \in Nat : \E h \in [Level(k) -> Int] : \A s \in Level(k) : h[s] = Value(h, s)}
<1>1. \A s \in SUBSET T : /\ Cardinality(s) \in Nat /\ Cardinality(s) <= Cardinality(T)
                          /\ Cardinality(s) = 0 <=> s = {}
  BY FS_Subset, FS_CardinalityType, FS_EmptySet
<1>2. \A s \in SUBSET T : s # {} =>
        /\ Pick(s) \in T /\ f[Pick(s)] \in Int
        /\ s \ {Pick(s)} \in SUBSET T /\ Cardinality(s \ {Pick(s)}) = Cardinality(s) - 1
  <2> TAKE s \in SUBSET T
  <2> HAVE s # {}
  <2>1. Pick(s) \in s
    BY PickIn
  <2>2. IsFiniteSet(s)
    BY FS_Subset
  <2>3. Cardinality(s \ {Pick(s)}) = Cardinality(s) - 1
    BY <2>1, <2>2, FS_RemoveElement
  <2> QED BY <2>1, <2>3
<1>3. 0 \in G
  <2> DEFINE h == [s \in Level(0) |-> 0]
  <2>1. \A s \in Level(0) : s = {}
    BY <1>1
  <2>2. h \in [Level(0) -> Int] /\ \A s \in Level(0) : h[s] = Value(h, s)
    BY <2>1
  <2> QED BY <2>2
<1>4. \A k \in Nat : k \in G => k + 1 \in G
  <2> TAKE k \in Nat
  <2> HAVE k \in G
  <2>1. PICK h \in [Level(k) -> Int] : \A s \in Level(k) : h[s] = Value(h, s)
    OBVIOUS
  <2> DEFINE g == [s \in Level(k + 1) |-> Value(h, s)]
  <2>2. \A s \in Level(k + 1) : s # {} => s \ {Pick(s)} \in Level(k)
    BY <1>1, <1>2
  <2>3. g \in [Level(k + 1) -> Int]
    BY <1>2, <2>2
  <2>4. \A s \in Level(k) : s \in Level(k + 1) /\ g[s] = h[s]
    BY <1>1, <2>1
  <2>5. \A s \in Level(k + 1) : g[s] = Value(g, s)
    BY <2>2, <2>4
  <2> HIDE DEF g, Level, Value
  <2>6. \E x \in [Level(k + 1) -> Int] : \A s \in Level(k + 1) : x[s] = Value(x, s)
    BY <2>3, <2>5
  <2> QED BY <2>6
<1>5. \A k \in Nat : k \in G
  <2> HIDE DEF G
  <2> QED BY <1>3, <1>4, NatSetInduction
<1>6. Cardinality(T) \in Nat /\ Level(Cardinality(T)) = SUBSET T
  BY <1>1, FS_CardinalityType
<1>7. PICK h \in [SUBSET T -> Int] : \A s \in SUBSET T : h[s] = Value(h, s)
  <2> DEFINE n == Cardinality(T)
  <2>1. n \in G
    BY <1>5, <1>6
  <2>2. \E h \in [Level(n) -> Int] : \A s \in Level(n) : h[s] = Value(h, s)
    BY <2>1
  <2> HIDE DEF Level, Value
  <2> QED BY <2>2, <1>6
<1>8. Sums(h, f, T)
  BY <1>7 DEF Sums
<1> QED BY <1>8

\* A solution for a set and one for a subset agree on the subset's subsets.
LEMMA SumsUnique ==
    ASSUME NEW T, IsFiniteSet(T), NEW f \in [T -> Int], NEW S \in SUBSET T,
           NEW h \in [SUBSET T -> Int], Sums(h, f, T), NEW g, Sums(g, f, S)
    PROVE  g[S] = h[S]
<1> DEFINE G == {s \in SUBSET S : g[s] = h[s]}
<1>1. /\ \A s \in SUBSET S : g[s] = IF s = {} THEN 0 ELSE f[Pick(s)] + g[s \ {Pick(s)}]
      /\ \A s \in SUBSET S : h[s] = IF s = {} THEN 0 ELSE f[Pick(s)] + h[s \ {Pick(s)}]
  <2>1. g = [s \in SUBSET S |-> IF s = {} THEN 0 ELSE f[Pick(s)] + g[s \ {Pick(s)}]]
    BY DEF Sums
  <2>2. h = [s \in SUBSET T |-> IF s = {} THEN 0 ELSE f[Pick(s)] + h[s \ {Pick(s)}]]
    BY DEF Sums
  <2>3. \A s \in SUBSET S : g[s] = IF s = {} THEN 0 ELSE f[Pick(s)] + g[s \ {Pick(s)}]
    BY <2>1, Zenon
  <2>4. \A s \in SUBSET T : h[s] = IF s = {} THEN 0 ELSE f[Pick(s)] + h[s \ {Pick(s)}]
    BY <2>2, Zenon
  <2> QED BY <2>3, <2>4
<1>2. IsFiniteSet(S)
  BY FS_Subset
<1>3. ASSUME NEW s \in SUBSET S, \A U \in SUBSET s : U # s => U \in G PROVE s \in G
  <2>1. CASE s = {}
    BY <2>1, <1>1
  <2>2. CASE s # {}
    <3>1. s \ {Pick(s)} \in G
      BY <2>2, <1>3, PickIn
    <3> QED BY <2>2, <3>1, <1>1
  <2> QED BY <2>1, <2>2
<1>4. \A s \in SUBSET S : s \in G
  <2> HIDE DEF G
  <2> QED BY <1>2, <1>3, SubsetInduction
<1> QED BY <1>4

\* h gives the sums of f over all subsets of T.
SumsOf(h, f, T) ==
    /\ h \in [SUBSET T -> Int] /\ Sums(h, f, T)
    /\ \A S \in SUBSET T : SumFunctionOnSet(f, S) = h[S]

\* One function gives the sums of f over all subsets of T.
LEMMA SumFunctionExists ==
    ASSUME NEW T, IsFiniteSet(T), NEW f \in [T -> Int]
    PROVE  \E h : SumsOf(h, f, T)
<1>1. PICK h \in [SUBSET T -> Int] : Sums(h, f, T)
  BY SumsExist
<1>2. ASSUME NEW S \in SUBSET T PROVE SumFunctionOnSet(f, S) = h[S]
  <2> DEFINE r == [x \in S |-> f[x]]
  <2>1. PICK g : Sums(g, f, S)
    <3>1. IsFiniteSet(S) /\ r \in [S -> Int]
      BY FS_Subset
    <3>2. PICK g \in [SUBSET S -> Int] : Sums(g, r, S)
      BY <3>1, SumsExist
    <3>3. \A s \in SUBSET S : s # {} => r[Pick(s)] = f[Pick(s)]
      BY PickIn
    <3>4. Sums(g, f, S)
      BY <3>2, <3>3 DEF Sums
    <3> QED BY <3>4
  <2>2. Sums((CHOOSE k : Sums(k, f, S)), f, S)
    BY <2>1
  <2> QED BY <2>2, <1>1, SumsUnique, SumIs
<1> QED BY <1>1, <1>2 DEF SumsOf

-----------------------------------------------------------------------------
(* What the proofs about stock and lots use.                               *)

\* A sum is a number, nothing sums to 0, and any element may come first.
LEMMA SumStep ==
    ASSUME NEW T, IsFiniteSet(T), NEW f \in [T -> Int]
    PROVE  /\ SumFunctionOnSet(f, {}) = 0
           /\ \A S \in SUBSET T : SumFunctionOnSet(f, S) \in Int
           /\ \A S \in SUBSET T : \A x \in S :
                SumFunctionOnSet(f, S) = f[x] + SumFunctionOnSet(f, S \ {x})
<1>0. PICK h : SumsOf(h, f, T)
  BY SumFunctionExists
<1>1. /\ h \in [SUBSET T -> Int] /\ Sums(h, f, T)
      /\ \A S \in SUBSET T : SumFunctionOnSet(f, S) = h[S]
  BY <1>0 DEF SumsOf
<1>2. \A s \in SUBSET T : h[s] = IF s = {} THEN 0 ELSE f[Pick(s)] + h[s \ {Pick(s)}]
  <2>1. h = [s \in SUBSET T |-> IF s = {} THEN 0 ELSE f[Pick(s)] + h[s \ {Pick(s)}]]
    BY <1>1 DEF Sums
  <2> QED BY <2>1, Zenon
<1> DEFINE G == {S \in SUBSET T : \A x \in S : h[S] = f[x] + h[S \ {x}]}
<1>3. ASSUME NEW S \in SUBSET T, \A U \in SUBSET S : U # S => U \in G PROVE S \in G
  <2> SUFFICES ASSUME NEW x \in S PROVE h[S] = f[x] + h[S \ {x}]
    OBVIOUS
  <2> DEFINE c == Pick(S)
  <2>1. c \in S /\ h[S] = f[c] + h[S \ {c}]
    BY <1>2, PickIn
  <2> HIDE DEF c
  <2>2. CASE x = c
    BY <2>1, <2>2
  <2>3. CASE x # c
    <3> DEFINE R == (S \ {c}) \ {x}
    <3>1. S \ {c} \in G /\ S \ {x} \in G
      BY <2>1, <1>3
    <3>2. h[S \ {c}] = f[x] + h[(S \ {c}) \ {x}]
      BY <2>3, <3>1
    <3>3. h[S \ {x}] = f[c] + h[(S \ {x}) \ {c}]
      BY <2>1, <2>3, <3>1
    <3>4. (S \ {x}) \ {c} = R
      OBVIOUS
    <3>5. h[R] \in Int /\ f[c] \in Int /\ f[x] \in Int
      BY <1>1, <2>1
    <3> HIDE DEF R
    <3>6. h[S \ {c}] = f[x] + h[R] /\ h[S \ {x}] = f[c] + h[R]
      BY <3>2, <3>3, <3>4 DEF R
    <3> QED BY <2>1, <3>5, <3>6
  <2> QED BY <2>2, <2>3
<1>4. \A S \in SUBSET T : S \in G
  <2> HIDE DEF G
  <2> QED BY <1>3, SubsetInduction
<1>5. SumFunctionOnSet(f, {}) = 0
  BY <1>1, <1>2
<1>6. \A S \in SUBSET T : \A x \in S : h[S] = f[x] + h[S \ {x}]
  BY <1>4
<1>7. \A S \in SUBSET T : \A x \in S : SumFunctionOnSet(f, S) = f[x] + SumFunctionOnSet(f, S \ {x})
  <2> TAKE S \in SUBSET T
  <2> TAKE x \in S
  <2>1. S \ {x} \in SUBSET T
    OBVIOUS
  <2> QED BY <2>1, <1>1, <1>6
<1> QED BY <1>1, <1>5, <1>7

\* Summing e = f + d term by term gives the sum of the sums.
LEMMA SumPlus ==
    ASSUME NEW T, IsFiniteSet(T), NEW e \in [T -> Int], NEW f \in [T -> Int], NEW d \in [T -> Int],
           NEW S \in SUBSET T, \A x \in S : e[x] = f[x] + d[x]
    PROVE  SumFunctionOnSet(e, S) = SumFunctionOnSet(f, S) + SumFunctionOnSet(d, S)
<1> DEFINE Q(r) == SumFunctionOnSet(e, r) = SumFunctionOnSet(f, r) + SumFunctionOnSet(d, r)
           G == {r \in SUBSET S : Q(r)}
<1>1. ASSUME NEW r \in SUBSET S, \A U \in SUBSET r : U # r => U \in G PROVE r \in G
  <2>1. CASE r = {}
    BY <2>1, SumStep
  <2>2. CASE r # {}
    <3>1. PICK x : x \in r
      BY <2>2
    <3>2. r \ {x} \in G
      BY <3>1, <1>1
    <3> DEFINE ae == SumFunctionOnSet(e, r \ {x})
               af == SumFunctionOnSet(f, r \ {x})
               ad == SumFunctionOnSet(d, r \ {x})
    <3>3. ae = af + ad
      BY <3>2
    <3>4. r \in SUBSET T /\ r \ {x} \in SUBSET T /\ x \in T
      BY <3>1
    <3>5. ae \in Int /\ af \in Int /\ ad \in Int
      BY <3>4, SumStep
    <3>6. /\ SumFunctionOnSet(e, r) = e[x] + ae
          /\ SumFunctionOnSet(f, r) = f[x] + af
          /\ SumFunctionOnSet(d, r) = d[x] + ad
      BY <3>1, <3>4, SumStep
    <3> HIDE DEF ae, af, ad
    <3>7. e[x] = f[x] + d[x] /\ f[x] \in Int /\ d[x] \in Int
      BY <3>1, <3>4
    <3> QED BY <3>3, <3>5, <3>6, <3>7
  <2> QED BY <2>1, <2>2
<1>2. \A r \in SUBSET S : r \in G
  <2>1. IsFiniteSet(S)
    BY FS_Subset
  <2> HIDE DEF G
  <2> QED BY <2>1, <1>1, SubsetInduction
<1> QED BY <1>2

AddsUp(e, f, d, S) ==
    /\ e \in [S -> Int] /\ f \in [S -> Int] /\ d \in [S -> Int] /\ IsFiniteSet(S)
    /\ \A x \in S : e[x] = f[x] + d[x]

LEMMA SumPlusAll ==
    ASSUME NEW S, NEW e, NEW f, NEW d, AddsUp(e, f, d, S)
    PROVE  SumFunctionOnSet(e, S) = SumFunctionOnSet(f, S) + SumFunctionOnSet(d, S)
<1>1. S \in SUBSET S
  OBVIOUS
<1> QED BY <1>1, SumPlus DEF AddsUp

\* The sum depends only on the values in the set.
LEMMA SumSame ==
    ASSUME NEW f, NEW g, NEW S, \A x \in S : g[x] = f[x]
    PROVE  SumFunctionOnSet(g, S) = SumFunctionOnSet(f, S)
<1>1. \A s \in SUBSET S : s # {} => g[Pick(s)] = f[Pick(s)]
  BY PickIn
<1>2. \A h : Sums(h, g, S) <=> Sums(h, f, S)
  <2> TAKE h
  <2>1. [s \in SUBSET S |-> IF s = {} THEN 0 ELSE g[Pick(s)] + h[s \ {Pick(s)}]]
           = [s \in SUBSET S |-> IF s = {} THEN 0 ELSE f[Pick(s)] + h[s \ {Pick(s)}]]
    BY <1>1
  <2> QED BY <2>1 DEF Sums
<1>3. (CHOOSE h : Sums(h, g, S)) = (CHOOSE h : Sums(h, f, S))
  BY <1>2
<1> QED BY <1>3, SumIs

\* A sum of larger terms is at least as large.
LEMMA SumLess ==
    ASSUME NEW T, IsFiniteSet(T), NEW f \in [T -> Int], NEW g \in [T -> Int],
           NEW S \in SUBSET T, \A x \in S : f[x] <= g[x]
    PROVE  SumFunctionOnSet(f, S) <= SumFunctionOnSet(g, S)
<1> DEFINE Q(r) == SumFunctionOnSet(f, r) <= SumFunctionOnSet(g, r)
           G == {r \in SUBSET S : Q(r)}
<1>1. ASSUME NEW r \in SUBSET S, \A U \in SUBSET r : U # r => U \in G PROVE r \in G
  <2>1. CASE r = {}
    BY <2>1, SumStep
  <2>2. CASE r # {}
    <3>1. PICK x : x \in r
      BY <2>2
    <3> DEFINE af == SumFunctionOnSet(f, r \ {x})
               ag == SumFunctionOnSet(g, r \ {x})
    <3>2. af <= ag
      BY <3>1, <1>1
    <3>3. r \in SUBSET T /\ r \ {x} \in SUBSET T /\ x \in T
      BY <3>1
    <3>4. af \in Int /\ ag \in Int
      BY <3>3, SumStep
    <3>5. SumFunctionOnSet(f, r) = f[x] + af /\ SumFunctionOnSet(g, r) = g[x] + ag
      BY <3>1, <3>3, SumStep
    <3> HIDE DEF af, ag
    <3>6. f[x] <= g[x] /\ f[x] \in Int /\ g[x] \in Int
      BY <3>1, <3>3
    <3> QED BY <3>2, <3>4, <3>5, <3>6
  <2> QED BY <2>1, <2>2
<1>2. \A r \in SUBSET S : r \in G
  <2>1. IsFiniteSet(S)
    BY FS_Subset
  <2> HIDE DEF G
  <2> QED BY <2>1, <1>1, SubsetInduction
<1> QED BY <1>2

\* Zeros sum to 0.
LEMMA SumZero ==
    ASSUME NEW S, IsFiniteSet(S), NEW f, \A x \in S : f[x] = 0
    PROVE  SumFunctionOnSet(f, S) = 0
<1> DEFINE z == [x \in S |-> 0]
           s == SumFunctionOnSet(z, S)
<1>1. z \in [S -> Int] /\ \A x \in S : z[x] = z[x] + z[x] /\ f[x] = z[x]
  OBVIOUS
<1>2. s = s + s /\ s \in Int
  <2> HIDE DEF z
  <2>1. S \in SUBSET S
    OBVIOUS
  <2> QED BY <1>1, <2>1, SumPlus, SumStep
<1>3. SumFunctionOnSet(f, S) = s
  <2> HIDE DEF z
  <2> QED BY <1>1, SumSame
<1> HIDE DEF s
<1>4. \A k \in Int : k = k + k => k = 0
  OBVIOUS
<1>5. s = 0
  BY <1>2, <1>4
<1> QED BY <1>3, <1>5

\* Natural terms have a natural sum, which every term bounds from below.
LEMMA SumNat ==
    ASSUME NEW T, IsFiniteSet(T), NEW f \in [T -> Nat], NEW S \in SUBSET T
    PROVE  /\ SumFunctionOnSet(f, S) \in Nat
           /\ \A x \in S : f[x] <= SumFunctionOnSet(f, S)
<1> DEFINE z == [x \in T |-> 0]
<1>1. f \in [T -> Int] /\ z \in [T -> Int] /\ \A x \in T : z[x] <= f[x] /\ z[x] = 0
  OBVIOUS
<1> HIDE DEF z
<1>2. ASSUME NEW R \in SUBSET T PROVE SumFunctionOnSet(f, R) \in Nat
  <2>1. IsFiniteSet(R)
    BY FS_Subset
  <2>2. SumFunctionOnSet(z, R) = 0
    BY <1>1, <2>1, SumZero
  <2>3. \A x \in R : z[x] <= f[x]
    BY <1>1
  <2>4. SumFunctionOnSet(z, R) <= SumFunctionOnSet(f, R)
    BY <1>1, <2>3, SumLess
  <2>5. SumFunctionOnSet(f, R) \in Int
    BY <1>1, SumStep
  <2> QED BY <2>2, <2>4, <2>5
<1>3. ASSUME NEW x \in S PROVE f[x] <= SumFunctionOnSet(f, S)
  <2>1. S \ {x} \in SUBSET T
    OBVIOUS
  <2>2. SumFunctionOnSet(f, S) = f[x] + SumFunctionOnSet(f, S \ {x})
    BY <1>1, SumStep
  <2>3. SumFunctionOnSet(f, S \ {x}) \in Nat /\ f[x] \in Nat
    BY <1>2, <2>1
  <2> QED BY <2>2, <2>3
<1> QED BY <1>2, <1>3

\* Two functions that differ at x only have sums that differ as they do at x.
LEMMA SumChange ==
    ASSUME NEW T, IsFiniteSet(T), NEW f \in [T -> Int], NEW g \in [T -> Int], NEW S \in SUBSET T,
           NEW x \in S, \A y \in S : y # x => g[y] = f[y]
    PROVE  SumFunctionOnSet(g, S) = SumFunctionOnSet(f, S) - f[x] + g[x]
<1> DEFINE R == S \ {x}
<1>1. R \in SUBSET T /\ \A y \in R : g[y] = f[y]
  OBVIOUS
<1>2. SumFunctionOnSet(f, S) = f[x] + SumFunctionOnSet(f, R) /\ SumFunctionOnSet(g, S) = g[x] + SumFunctionOnSet(g, R)
  BY SumStep
<1> HIDE DEF R
<1>3. SumFunctionOnSet(g, R) = SumFunctionOnSet(f, R)
  BY <1>1, SumSame
<1>4. SumFunctionOnSet(f, R) \in Int
  BY <1>1, SumStep
<1>5. f[x] \in Int /\ g[x] \in Int
  OBVIOUS
<1> QED BY <1>2, <1>3, <1>4, <1>5

\* f and g agree on S, except at x.
EqualBut(f, g, S, x) ==
    /\ f \in [S -> Int] /\ g \in [S -> Int] /\ x \in S /\ IsFiniteSet(S)
    /\ \A y \in S : y # x => g[y] = f[y]

LEMMA SumChangeAll ==
    ASSUME NEW S, NEW f, NEW g, NEW x, EqualBut(f, g, S, x)
    PROVE  /\ SumFunctionOnSet(f, S) \in Int
           /\ SumFunctionOnSet(g, S) = SumFunctionOnSet(f, S) - f[x] + g[x]
<1>1. S \in SUBSET S
  OBVIOUS
<1> QED BY <1>1, SumChange, SumStep DEF EqualBut

\* What is 0 outside a subset sums to its sum over the subset.
LEMMA SumSupport ==
    ASSUME NEW T, IsFiniteSet(T), NEW f \in [T -> Int], NEW S \in SUBSET T,
           \A x \in T : x \notin S => f[x] = 0
    PROVE  SumFunctionOnSet(f, T) = SumFunctionOnSet(f, S)
<1> DEFINE G == {r \in SUBSET T : S \subseteq r => SumFunctionOnSet(f, r) = SumFunctionOnSet(f, S)}
<1>1. ASSUME NEW r \in SUBSET T, \A U \in SUBSET r : U # r => U \in G PROVE r \in G
  <2> SUFFICES ASSUME S \subseteq r PROVE SumFunctionOnSet(f, r) = SumFunctionOnSet(f, S)
    OBVIOUS
  <2>1. CASE r = S
    BY <2>1
  <2>2. CASE r # S
    <3>1. PICK x \in r : x \notin S
      BY <2>2
    <3>2. SumFunctionOnSet(f, r \ {x}) = SumFunctionOnSet(f, S)
      BY <3>1, <1>1
    <3>3. SumFunctionOnSet(f, r) = f[x] + SumFunctionOnSet(f, r \ {x})
      BY <3>1, SumStep
    <3>4. f[x] = 0 /\ SumFunctionOnSet(f, S) \in Int
      BY <3>1, SumStep
    <3> QED BY <3>2, <3>3, <3>4
  <2> QED BY <2>1, <2>2
<1>2. \A r \in SUBSET T : r \in G
  <2> HIDE DEF G
  <2> QED BY <1>1, SubsetInduction
<1>3. T \in SUBSET T /\ S \subseteq T
  OBVIOUS
<1> QED BY <1>2, <1>3

-----------------------------------------------------------------------------
(* Walks that draw a quantity from a queue, front first.                   *)

\* B[x] are the elements of S before x, in an order of all of S.
Queue(S, B) ==
    /\ B \in [S -> SUBSET S]
    /\ \A x \in S : x \notin B[x]
    /\ \A x \in S : \A y \in B[x] : B[y] \subseteq B[x]
    /\ \A x, y \in S : x = y \/ x \in B[y] \/ y \in B[x]

\* The smaller of two numbers.
Smaller(a, b) == IF a <= b THEN a ELSE b

\* What a walk for q units takes from x: what those before x leave of q, at
\* most what x holds.
WalkTakes(q, before, most) == IF before >= q THEN 0 ELSE Smaller(q - before, most)

\* A finite queue that is not empty has a last element.
LEMMA QueueHasLast ==
    ASSUME NEW S, IsFiniteSet(S), NEW B, Queue(S, B)
    PROVE  \A r \in SUBSET S : r # {} => \E m \in r : \A y \in r : y = m \/ y \in B[m]
<1> DEFINE G == {r \in SUBSET S : r # {} => \E m \in r : \A y \in r : y = m \/ y \in B[m]}
<1>1. ASSUME NEW r \in SUBSET S, \A U \in SUBSET r : U # r => U \in G PROVE r \in G
  <2> SUFFICES ASSUME r # {} PROVE \E m \in r : \A y \in r : y = m \/ y \in B[m]
    OBVIOUS
  <2>1. PICK x : x \in r
    OBVIOUS
  <2>2. CASE r = {x}
    BY <2>2
  <2>3. CASE r # {x}
    <3>1. r \ {x} # {} /\ r \ {x} \in G
      BY <2>1, <2>3, <1>1
    <3>2. PICK m \in r \ {x} : \A y \in r \ {x} : y = m \/ y \in B[m]
      BY <3>1
    <3>3. CASE x \in B[m]
      BY <3>2, <3>3
    <3>4. CASE m \in B[x]
      <4>1. B[m] \subseteq B[x]
        BY <3>4, <2>1 DEF Queue
      <4> QED BY <3>2, <3>4, <4>1, <2>1
    <3> QED BY <3>2, <3>3, <3>4, <2>1 DEF Queue
  <2> QED BY <2>2, <2>3
<1>2. \A r \in SUBSET S : r \in G
  <2> HIDE DEF G
  <2> QED BY <1>1, SubsetInduction
<1> QED BY <1>2

\* The walk takes q units in all, or everything there is.
LEMMA WalkSum ==
    ASSUME NEW S, IsFiniteSet(S), NEW B, Queue(S, B), NEW q \in Nat,
           NEW w \in [S -> Nat], NEW t \in [S -> Nat],
           \A x \in S : t[x] = WalkTakes(q, SumFunctionOnSet(w, B[x]), w[x])
    PROVE  SumFunctionOnSet(t, S) = Smaller(q, SumFunctionOnSet(w, S))
<1> DEFINE Front(r) == \A x \in r : B[x] \subseteq r
           Q(r) == SumFunctionOnSet(t, r) = Smaller(q, SumFunctionOnSet(w, r))
           G == {r \in SUBSET S : Front(r) => Q(r)}
<1>0. w \in [S -> Int] /\ t \in [S -> Int]
  OBVIOUS
<1>1. ASSUME NEW r \in SUBSET S, \A U \in SUBSET r : U # r => U \in G PROVE r \in G
  <2> SUFFICES ASSUME Front(r) PROVE Q(r)
    OBVIOUS
  <2>1. CASE r = {}
    <3>1. SumFunctionOnSet(t, {}) = 0 /\ SumFunctionOnSet(w, {}) = 0
      BY <1>0, SumStep
    <3> QED BY <2>1, <3>1 DEF Smaller
  <2>2. CASE r # {}
    <3>1. PICK m \in r : \A y \in r : y = m \/ y \in B[m]
      BY <2>2, QueueHasLast
    <3> DEFINE u == r \ {m}
    <3>2. m \in S /\ m \notin B[m] /\ B[m] \subseteq r
      BY DEF Queue
    <3>3. B[m] = u
      BY <3>1, <3>2
    <3>4. Front(u)
      <4> SUFFICES ASSUME NEW x \in u PROVE B[x] \subseteq u
        OBVIOUS
      <4>1. x \in B[m] /\ x \in S
        BY <3>3
      <4>2. B[x] \subseteq B[m]
        BY <3>2, <4>1 DEF Queue
      <4> QED BY <4>2, <3>3
    <3>5. u \in SUBSET S /\ u # r /\ u \in SUBSET r
      OBVIOUS
    <3>6. Q(u)
      BY <3>4, <3>5, <1>1
    <3> DEFINE a == SumFunctionOnSet(w, u)
               b == SumFunctionOnSet(t, u)
    <3>7. SumFunctionOnSet(w, r) = w[m] + a /\ SumFunctionOnSet(t, r) = t[m] + b
      BY <1>0, <3>2, SumStep
    <3>8. a \in Nat /\ b = Smaller(q, a)
      BY <3>5, <3>6, SumNat
    <3>9. t[m] = WalkTakes(q, a, w[m])
      BY <3>2, <3>3
    <3> HIDE DEF a, b, u
    <3>10. w[m] \in Nat
      BY <3>2
    <3>11. t[m] + b = Smaller(q, w[m] + a)
      BY <3>8, <3>9, <3>10 DEF WalkTakes, Smaller
    <3> QED BY <3>7, <3>11
  <2> QED BY <2>1, <2>2
<1>2. \A r \in SUBSET S : r \in G
  <2> HIDE DEF G
  <2> QED BY <1>1, SubsetInduction
<1>3. Front(S) /\ S \in SUBSET S
  BY DEF Queue
<1> QED BY <1>2, <1>3

\* The same for a walk over a part S of T, which takes nothing elsewhere.
LEMMA WalkPart ==
    ASSUME NEW T, IsFiniteSet(T), NEW S \in SUBSET T, NEW B, Queue(S, B), NEW q \in Nat,
           NEW x \in [T -> Nat], NEW t \in [T -> Nat],
           \A b \in S : t[b] = WalkTakes(q, SumFunctionOnSet(x, B[b]), x[b]),
           \A b \in T : b \notin S => t[b] = 0
    PROVE  /\ SumFunctionOnSet(t, T) = Smaller(q, SumFunctionOnSet(x, S))
           /\ SumFunctionOnSet(x, S) \in Nat
<1> DEFINE w == [b \in S |-> x[b]]
           u == [b \in S |-> t[b]]
<1>1. IsFiniteSet(S)
  BY FS_Subset
<1>2. w \in [S -> Nat] /\ u \in [S -> Nat] /\ \A b \in S : w[b] = x[b] /\ u[b] = t[b]
  OBVIOUS
<1> HIDE DEF w, u
<1>3. \A b \in S : u[b] = WalkTakes(q, SumFunctionOnSet(w, B[b]), w[b])
  <2> TAKE b \in S
  <2>1. B[b] \in SUBSET S
    BY DEF Queue
  <2>2. \A y \in B[b] : w[y] = x[y]
    BY <1>2, <2>1
  <2>3. SumFunctionOnSet(w, B[b]) = SumFunctionOnSet(x, B[b])
    BY <2>2, SumSame
  <2> QED BY <1>2, <2>3
<1>4. SumFunctionOnSet(u, S) = Smaller(q, SumFunctionOnSet(w, S))
  BY <1>1, <1>2, <1>3, WalkSum
<1>5. SumFunctionOnSet(w, S) = SumFunctionOnSet(x, S) /\ SumFunctionOnSet(u, S) = SumFunctionOnSet(t, S)
  BY <1>2, SumSame
<1>6. t \in [T -> Int]
  OBVIOUS
<1>7. SumFunctionOnSet(t, T) = SumFunctionOnSet(t, S)
  BY <1>6, SumSupport
<1>8. SumFunctionOnSet(x, S) \in Nat
  BY SumNat
<1> QED BY <1>4, <1>5, <1>7, <1>8

\* A part of a sum of natural numbers is no larger than the sum.
LEMMA SumPart ==
    ASSUME NEW T, IsFiniteSet(T), NEW f \in [T -> Nat], NEW S \in SUBSET T
    PROVE  SumFunctionOnSet(f, S) <= SumFunctionOnSet(f, T)
<1> DEFINE g == [x \in T |-> IF x \in S THEN f[x] ELSE 0]
<1>1. /\ f \in [T -> Int] /\ g \in [T -> Int] /\ T \in SUBSET T
      /\ \A x \in T : x \notin S => g[x] = 0
      /\ \A x \in T : g[x] <= f[x]
      /\ \A x \in S : g[x] = f[x]
  OBVIOUS
<1> HIDE DEF g
<1>2. SumFunctionOnSet(g, T) = SumFunctionOnSet(g, S)
  BY <1>1, SumSupport
<1>3. SumFunctionOnSet(g, S) = SumFunctionOnSet(f, S)
  BY <1>1, SumSame
<1>4. SumFunctionOnSet(g, T) <= SumFunctionOnSet(f, T)
  BY <1>1, SumLess
<1> QED BY <1>2, <1>3, <1>4

\* Natural numbers that sum to 1 at most are 0 but for one 1.
LEMMA SumOne ==
    ASSUME NEW T, IsFiniteSet(T), NEW f \in [T -> Nat], SumFunctionOnSet(f, T) <= 1,
           NEW x \in T, f[x] > 0
    PROVE  f[x] = 1 /\ \A y \in T : f[y] > 0 => y = x
<1>1. f \in [T -> Int] /\ T \in SUBSET T /\ T \ {x} \in SUBSET T
  OBVIOUS
<1>2. SumFunctionOnSet(f, T) = f[x] + SumFunctionOnSet(f, T \ {x})
  BY <1>1, SumStep
<1>3. /\ SumFunctionOnSet(f, T \ {x}) \in Nat
      /\ \A y \in T \ {x} : f[y] <= SumFunctionOnSet(f, T \ {x})
  BY <1>1, SumNat
<1>4. f[x] = 1 /\ SumFunctionOnSet(f, T \ {x}) = 0
  BY <1>2, <1>3
<1>5. \A y \in T \ {x} : f[y] = 0
  BY <1>3, <1>4
<1> QED BY <1>4, <1>5
=============================================================================
