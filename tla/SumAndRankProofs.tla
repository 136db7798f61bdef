--------------------------- MODULE SumAndRankProofs ---------------------------
(***************************************************************************)
(* Sums over finite sets, for the modules that add up what several          *)
(* positions give or take, and ranks in a finite total order, for those that *)
(* sort them.                                                              *)
(*                                                                         *)
(* SumFunctionOnSet chooses the solution of a recursion over the subsets of *)
(* its set: that there is one, and only one, is shown by induction over a   *)
(* set of subsets (SubsetInduction), a first-order fact.                    *)
(***************************************************************************)
EXTENDS Integers, FiniteSets, Functions, FiniteSetTheorems, TLAPS

Pick(S) == CHOOSE x \in S : TRUE

LEMMA PickIn == ASSUME NEW S, S # {} PROVE Pick(S) \in S
BY DEF Pick

\* A set of subsets that holds a set once it holds all its proper subsets.
LEMMA SubsetInduction ==
    ASSUME NEW S, IsFiniteSet(S), NEW T,
           \A s \in SUBSET S : (\A u \in SUBSET s : u # s => u \in T) => s \in T
    PROVE  SUBSET S \subseteq T
<1> DEFINE R == StrictSubsetOrdering(S)
           Bad == (SUBSET S) \ T
<1>1. SUFFICES ASSUME Bad # {} PROVE FALSE
  OBVIOUS
<1>2. FiniteSubsetsOf(S) = SUBSET S
  BY FS_FiniteSubsetsOfFinite
<1>3. IsWellFoundedOn(R, SUBSET S)
  BY <1>2, FS_StrictSubsetOrderingWellFounded
<1>4. PICK s \in Bad : \A u \in Bad : ~(<<u, s>> \in R)
  <2> HIDE DEF R
  <2>1. Bad \subseteq SUBSET S
    OBVIOUS
  <2> HIDE DEF Bad
  <2> QED
    BY <1>1, <1>3, <2>1, WFMin
<1>5. ASSUME NEW u \in SUBSET s, u # s PROVE u \in T
  <2>1. u \in SUBSET S /\ s \in SUBSET S
    OBVIOUS
  <2>2. <<u, s>> \in R
    BY <1>5, <2>1 DEF StrictSubsetOrdering
  <2> QED
    BY <1>4, <2>1, <2>2
<1>6. s \in T
  BY <1>5
<1> QED
  BY <1>6

\* A set that holds 0, and the successor of each number it holds, up to n.
LEMMA RangeInduction ==
    ASSUME NEW n \in Nat, NEW T, 0 \in T, \A k \in 0 .. n - 1 : k \in T => k + 1 \in T
    PROVE  n \in T
<1> DEFINE S == 1 .. n
           C == {s \in SUBSET S : Cardinality(s) \in T}
<1>1. IsFiniteSet(S) /\ Cardinality(S) = n
  <2>1. PICK z \in Int, m \in Int : z = 1 /\ m = n
    OBVIOUS
  <2>2. IsFiniteSet(z .. m) /\ Cardinality(z .. m) = IF z > m THEN 0 ELSE m - z + 1
    BY ONLY FS_Interval, z \in Int, m \in Int
  <2> QED
    BY <2>1, <2>2
<1> HIDE DEF S
<1>2. ASSUME NEW s \in SUBSET S, \A u \in SUBSET s : u # s => u \in C
      PROVE  s \in C
  <2>1. IsFiniteSet(s) /\ Cardinality(s) \in 0 .. n
    BY <1>1, FS_Subset, FS_CardinalityType
  <2>2. CASE s = {}
    BY <2>2, FS_EmptySet
  <2>3. CASE s # {}
    <3>1. PICK x \in s : TRUE
      BY <2>3
    <3>2. IsFiniteSet(s \ {x}) /\ Cardinality(s \ {x}) = Cardinality(s) - 1
      BY <2>1, <3>1, FS_RemoveElement
    <3>3. Cardinality(s \ {x}) \in Nat
      BY <3>2, FS_CardinalityType
    <3>4. Cardinality(s \ {x}) \in T
      BY <1>2, <3>1
    <3> QED
      BY <2>1, <3>2, <3>3, <3>4
  <2> QED
    BY <2>2, <2>3
<1> HIDE DEF C
<1>3. SUBSET S \subseteq C
  BY <1>1, <1>2, SubsetInduction
<1> QED
  BY <1>1, <1>3 DEF C

IsIter(g, f, S) ==
    g = [s \in SUBSET S |-> IF s = {} THEN 0 ELSE f[Pick(s)] + g[s \ {Pick(s)}]]

LEMMA SumIsIter ==
    ASSUME NEW f, NEW S
    PROVE  SumFunctionOnSet(f, S) = (CHOOSE g : IsIter(g, f, S))[S]
BY DEF SumFunctionOnSet, FoldFunctionOnSet, MapThenFoldSet, IsIter, Pick

LEMMA IterUnique ==
    ASSUME NEW f, NEW S, IsFiniteSet(S), NEW U, S \subseteq U, NEW g, NEW h,
           IsIter(g, f, S), IsIter(h, f, U)
    PROVE  \A s \in SUBSET S : g[s] = h[s]
<1> DEFINE T == {s \in SUBSET S : g[s] = h[s]}
<1>1. ASSUME NEW s \in SUBSET S, \A u \in SUBSET s : u # s => u \in T
      PROVE  s \in T
  <2>1. CASE s = {}
    BY <2>1 DEF IsIter
  <2>2. CASE s # {}
    <3>1. Pick(s) \in s
      BY <2>2, PickIn
    <3>2. s \ {Pick(s)} \in T
      BY <1>1, <3>1
    <3>3. g[s] = f[Pick(s)] + g[s \ {Pick(s)}] /\ h[s] = f[Pick(s)] + h[s \ {Pick(s)}]
      BY <2>2 DEF IsIter
    <3> QED
      BY <3>2, <3>3
  <2> QED
    BY <2>1, <2>2
<1> HIDE DEF T
<1>2. SUBSET S \subseteq T
  BY <1>1, SubsetInduction
<1> QED
  BY <1>2 DEF T

\* The value of a sum: that of any solution of its recursion.
LEMMA SumOfIter ==
    ASSUME NEW f, NEW S, IsFiniteSet(S), NEW g, IsIter(g, f, S)
    PROVE  \A s \in SUBSET S : SumFunctionOnSet(f, s) = g[s]
<1> TAKE s \in SUBSET S
<1> DEFINE h == [u \in SUBSET s |-> g[u]]
<1>1. IsIter(h, f, s)
  <2>1. \A u \in SUBSET s : h[u] = IF u = {} THEN 0 ELSE f[Pick(u)] + h[u \ {Pick(u)}]
    <3> SUFFICES ASSUME NEW u \in SUBSET s
                 PROVE  h[u] = IF u = {} THEN 0 ELSE f[Pick(u)] + h[u \ {Pick(u)}]
      OBVIOUS
    <3>1. g[u] = IF u = {} THEN 0 ELSE f[Pick(u)] + g[u \ {Pick(u)}]
      BY DEF IsIter
    <3> QED
      BY <3>1
  <2> QED
    BY <2>1 DEF IsIter
<1> HIDE DEF h
<1>2. PICK k : k = CHOOSE it : IsIter(it, f, s)
  OBVIOUS
<1>3. IsIter(k, f, s)
  BY <1>1, <1>2
<1>4. SumFunctionOnSet(f, s) = k[s]
  BY <1>2, SumIsIter
<1>5. IsFiniteSet(s)
  BY FS_Subset
<1>6. k[s] = g[s]
  BY <1>3, <1>5, IterUnique
<1> QED
  BY <1>4, <1>6

LEMMA IterExists ==
    ASSUME NEW f, NEW S, IsFiniteSet(S)
    PROVE  \E g : IsIter(g, f, S)
<1> DEFINE T == {s \in SUBSET S : \E g : IsIter(g, f, s)}
<1>1. ASSUME NEW s \in SUBSET S, \A u \in SUBSET s : u # s => u \in T
      PROVE  s \in T
  <2> DEFINE g == [u \in SUBSET s |->
                     IF u = {} THEN 0 ELSE f[Pick(u)] + SumFunctionOnSet(f, u \ {Pick(u)})]
  <2>1. ASSUME NEW u \in SUBSET s, u # s, u # {}
        PROVE  SumFunctionOnSet(f, u) = f[Pick(u)] + SumFunctionOnSet(f, u \ {Pick(u)})
    <3>1. PICK h : IsIter(h, f, u)
      BY <1>1, <2>1
    <3>2. IsFiniteSet(u)
      BY FS_Subset
    <3>3. SumFunctionOnSet(f, u) = h[u] /\ SumFunctionOnSet(f, u \ {Pick(u)}) = h[u \ {Pick(u)}]
      BY <3>1, <3>2, SumOfIter
    <3>4. h[u] = f[Pick(u)] + h[u \ {Pick(u)}]
      BY <2>1, <3>1 DEF IsIter
    <3> QED
      BY <3>3, <3>4
  <2>2. ASSUME NEW u \in SUBSET s, u # s PROVE g[u] = SumFunctionOnSet(f, u)
    <3>1. CASE u = {}
      <4>1. PICK h : IsIter(h, f, u)
        BY <1>1, <2>2
      <4>2. SumFunctionOnSet(f, u) = h[u]
        BY <3>1, <4>1, SumOfIter, FS_EmptySet
      <4>3. h[u] = 0
        BY <3>1, <4>1 DEF IsIter
      <4> QED
        BY <3>1, <4>2, <4>3
    <3>2. CASE u # {}
      BY <2>1, <2>2, <3>2
    <3> QED
      BY <3>1, <3>2
  <2>3. ASSUME NEW u \in SUBSET s, u # {}
        PROVE  g[u] = f[Pick(u)] + g[u \ {Pick(u)}]
    <3>1. Pick(u) \in u
      BY <2>3, PickIn
    <3>2. u \ {Pick(u)} \in SUBSET s /\ u \ {Pick(u)} # s
      BY <3>1
    <3>3. g[u \ {Pick(u)}] = SumFunctionOnSet(f, u \ {Pick(u)})
      BY <2>2, <3>2
    <3> QED
      BY <2>3, <3>3
  <2>4. g[{}] = 0 /\ DOMAIN g = SUBSET s
    OBVIOUS
  <2> HIDE DEF g
  <2>5. g = [u \in SUBSET s |-> g[u]]
    BY <2>4 DEF g
  <2>6. IsIter(g, f, s)
    BY <2>3, <2>4, <2>5 DEF IsIter
  <2> QED
    BY <2>6
<1> HIDE DEF T
<1>2. SUBSET S \subseteq T
  BY <1>1, SubsetInduction
<1> QED
  BY <1>2 DEF T

\* What the later lemmas use of a sum: one term at a time.
LEMMA SumStep ==
    ASSUME NEW f, NEW S, IsFiniteSet(S)
    PROVE  /\ SumFunctionOnSet(f, {}) = 0
           /\ S # {} => SumFunctionOnSet(f, S) = f[Pick(S)] + SumFunctionOnSet(f, S \ {Pick(S)})
<1>1. PICK g : IsIter(g, f, S)
  BY IterExists
<1>2. \A s \in SUBSET S : SumFunctionOnSet(f, s) = g[s]
  BY <1>1, SumOfIter
<1> QED
  BY <1>1, <1>2 DEF IsIter

LEMMA SumInt ==
    ASSUME NEW f, NEW S, IsFiniteSet(S), \A x \in S : f[x] \in Int
    PROVE  SumFunctionOnSet(f, S) \in Int
<1> DEFINE T == {s \in SUBSET S : SumFunctionOnSet(f, s) \in Int}
<1>1. ASSUME NEW s \in SUBSET S, \A u \in SUBSET s : u # s => u \in T
      PROVE  s \in T
  <2>1. IsFiniteSet(s)
    BY FS_Subset
  <2>2. CASE s = {}
    <3>1. SumFunctionOnSet(f, s) = 0
      BY <2>1, <2>2, SumStep
    <3> QED
      BY <2>2, <3>1
  <2>3. CASE s # {}
    <3>1. Pick(s) \in s
      BY <2>3, PickIn
    <3>2. s \ {Pick(s)} \in T
      BY <1>1, <3>1
    <3> QED
      BY <2>1, <2>3, <3>1, <3>2, SumStep
  <2> QED
    BY <2>2, <2>3
<1> HIDE DEF T
<1>2. SUBSET S \subseteq T
  BY <1>1, SubsetInduction
<1> QED
  BY <1>2 DEF T

\* Sums are additive, also with a factor.
LEMMA SumLinear ==
    ASSUME NEW h, NEW k \in Int, NEW f, NEW g, NEW S, IsFiniteSet(S),
           \A x \in S : f[x] \in Int /\ g[x] \in Int /\ h[x] = k * f[x] + g[x]
    PROVE  SumFunctionOnSet(h, S) = k * SumFunctionOnSet(f, S) + SumFunctionOnSet(g, S)
<1> DEFINE T == {s \in SUBSET S : SumFunctionOnSet(h, s) = k * SumFunctionOnSet(f, s) + SumFunctionOnSet(g, s)}
<1>1. ASSUME NEW s \in SUBSET S, \A u \in SUBSET s : u # s => u \in T
      PROVE  s \in T
  <2>1. IsFiniteSet(s)
    BY FS_Subset
  <2>2. CASE s = {}
    <3>1. SumFunctionOnSet(h, s) = 0 /\ SumFunctionOnSet(f, s) = 0 /\ SumFunctionOnSet(g, s) = 0
      BY <2>1, <2>2, SumStep
    <3> QED
      BY <3>1
  <2>3. CASE s # {}
    <3> DEFINE x == Pick(s)
               u == s \ {x}
    <3>1. x \in s
      BY <2>3, PickIn
    <3>2. u \in T /\ u \in SUBSET S
      BY <1>1, <3>1
    <3>3. IsFiniteSet(u)
      BY <3>2, FS_Subset
    <3>4. /\ SumFunctionOnSet(h, s) = h[x] + SumFunctionOnSet(h, u)
          /\ SumFunctionOnSet(f, s) = f[x] + SumFunctionOnSet(f, u)
          /\ SumFunctionOnSet(g, s) = g[x] + SumFunctionOnSet(g, u)
      BY <2>1, <2>3, SumStep
    <3>5. SumFunctionOnSet(f, u) \in Int /\ SumFunctionOnSet(g, u) \in Int
      BY <3>2, <3>3, SumInt
    <3>6. f[x] \in Int /\ g[x] \in Int /\ h[x] = k * f[x] + g[x]
      BY <3>1
    <3>7. SumFunctionOnSet(h, u) = k * SumFunctionOnSet(f, u) + SumFunctionOnSet(g, u)
      BY <3>2
    <3> HIDE DEF x, u
    <3>8. k * (f[x] + SumFunctionOnSet(f, u)) = k * f[x] + k * SumFunctionOnSet(f, u)
      BY <3>5, <3>6
    <3>9. k * f[x] \in Int /\ k * SumFunctionOnSet(f, u) \in Int
      BY <3>5, <3>6
    <3>10. SumFunctionOnSet(h, s) = k * SumFunctionOnSet(f, s) + SumFunctionOnSet(g, s)
      BY <3>4, <3>5, <3>6, <3>7, <3>8, <3>9
    <3> QED
      BY <3>10
  <2> QED
    BY <2>2, <2>3
<1> HIDE DEF T
<1>2. SUBSET S \subseteq T
  BY <1>1, SubsetInduction
<1> QED
  BY <1>2 DEF T

LEMMA SumOrder ==
    ASSUME NEW f, NEW g, NEW S, IsFiniteSet(S),
           \A x \in S : f[x] \in Int /\ g[x] \in Int /\ f[x] <= g[x]
    PROVE  SumFunctionOnSet(f, S) <= SumFunctionOnSet(g, S)
<1> DEFINE T == {s \in SUBSET S : SumFunctionOnSet(f, s) <= SumFunctionOnSet(g, s)}
<1>1. ASSUME NEW s \in SUBSET S, \A u \in SUBSET s : u # s => u \in T
      PROVE  s \in T
  <2>1. IsFiniteSet(s)
    BY FS_Subset
  <2>2. CASE s = {}
    <3>1. SumFunctionOnSet(f, s) = 0 /\ SumFunctionOnSet(g, s) = 0
      BY <2>1, <2>2, SumStep
    <3> QED
      BY <2>2, <3>1
  <2>3. CASE s # {}
    <3> DEFINE x == Pick(s)
               u == s \ {x}
    <3>1. x \in s
      BY <2>3, PickIn
    <3>2. u \in T /\ u \in SUBSET S
      BY <1>1, <3>1
    <3>3. IsFiniteSet(u)
      BY <3>2, FS_Subset
    <3>4. /\ SumFunctionOnSet(f, s) = f[x] + SumFunctionOnSet(f, u)
          /\ SumFunctionOnSet(g, s) = g[x] + SumFunctionOnSet(g, u)
      BY <2>1, <2>3, SumStep
    <3>5. SumFunctionOnSet(f, u) \in Int /\ SumFunctionOnSet(g, u) \in Int
      BY <3>2, <3>3, SumInt
    <3> QED
      BY <3>1, <3>2, <3>4, <3>5
  <2> QED
    BY <2>2, <2>3
<1> HIDE DEF T
<1>2. SUBSET S \subseteq T
  BY <1>1, SubsetInduction
<1> QED
  BY <1>2 DEF T

LEMMA SumNat ==
    ASSUME NEW f, NEW S, IsFiniteSet(S), \A x \in S : f[x] \in Nat
    PROVE  /\ SumFunctionOnSet(f, S) \in Nat
           /\ \A x \in S : f[x] <= SumFunctionOnSet(f, S)
<1> DEFINE T == {s \in SUBSET S : SumFunctionOnSet(f, s) \in Nat /\ \A x \in s : f[x] <= SumFunctionOnSet(f, s)}
<1>1. ASSUME NEW s \in SUBSET S, \A u \in SUBSET s : u # s => u \in T
      PROVE  s \in T
  <2>1. IsFiniteSet(s)
    BY FS_Subset
  <2>2. CASE s = {}
    <3>1. SumFunctionOnSet(f, s) = 0
      BY <2>1, <2>2, SumStep
    <3> QED
      BY <2>2, <3>1
  <2>3. CASE s # {}
    <3>1. Pick(s) \in s
      BY <2>3, PickIn
    <3>2. s \ {Pick(s)} \in T
      BY <1>1, <3>1
    <3>3. SumFunctionOnSet(f, s) = f[Pick(s)] + SumFunctionOnSet(f, s \ {Pick(s)})
      BY <2>1, <2>3, SumStep
    <3> QED
      BY <3>1, <3>2, <3>3
  <2> QED
    BY <2>2, <2>3
<1> HIDE DEF T
<1>2. SUBSET S \subseteq T
  BY <1>1, SubsetInduction
<1> QED
  BY <1>2 DEF T

\* A sum of marks counts what is marked.
LEMMA SumOfMarks ==
    ASSUME NEW f, NEW S, IsFiniteSet(S), \A x \in S : f[x] \in {0, 1}
    PROVE  SumFunctionOnSet(f, S) = Cardinality({x \in S : f[x] = 1})
<1> DEFINE Marked(s) == {x \in s : f[x] = 1}
           T == {s \in SUBSET S : SumFunctionOnSet(f, s) = Cardinality(Marked(s))}
<1>1. ASSUME NEW s \in SUBSET S, \A u \in SUBSET s : u # s => u \in T
      PROVE  s \in T
  <2>1. IsFiniteSet(s)
    BY FS_Subset
  <2>2. CASE s = {}
    <3>1. Marked(s) = {}
      BY <2>2
    <3>2. Cardinality(Marked(s)) = 0
      BY <3>1, FS_EmptySet
    <3> QED
      BY <2>1, <2>2, <3>2, SumStep
  <2>3. CASE s # {}
    <3> DEFINE x == Pick(s)
               u == s \ {x}
    <3>1. x \in s
      BY <2>3, PickIn
    <3>2. u \in T
      BY <1>1, <3>1
    <3>3. SumFunctionOnSet(f, s) = f[x] + SumFunctionOnSet(f, u)
      BY <2>1, <2>3, SumStep
    <3>4. IsFiniteSet(Marked(u)) /\ Cardinality(Marked(u)) \in Nat
      <4>1. Marked(u) \subseteq S
        OBVIOUS
      <4> QED
        BY <4>1, FS_Subset, FS_CardinalityType
    <3>5. f[x] = 1 => Marked(s) = Marked(u) \cup {x} /\ x \notin Marked(u)
      BY <3>1
    <3>6. f[x] = 0 => Marked(s) = Marked(u)
      BY <3>1
    <3>7. Cardinality(Marked(s)) = f[x] + Cardinality(Marked(u))
      <4>1. f[x] \in {0, 1}
        BY <3>1
      <4> HIDE DEF Marked, x, u
      <4> QED
        BY <3>4, <3>5, <3>6, <4>1, FS_AddElement
    <3> QED
      BY <3>2, <3>3, <3>7
  <2> QED
    BY <2>2, <2>3
<1> HIDE DEF T
<1>2. SUBSET S \subseteq T
  BY <1>1, SubsetInduction
<1> QED
  BY <1>2 DEF T

\* Sums of functions that agree where it matters.
LEMMA SumSame ==
    ASSUME NEW f, NEW g, NEW S, IsFiniteSet(S), \A x \in S : f[x] \in Int /\ f[x] = g[x]
    PROVE  SumFunctionOnSet(f, S) = SumFunctionOnSet(g, S)
<1>1. \A x \in S : f[x] \in Int /\ g[x] \in Int /\ f[x] <= g[x] /\ g[x] <= f[x]
  OBVIOUS
<1>2. SumFunctionOnSet(f, S) \in Int /\ SumFunctionOnSet(g, S) \in Int
  BY <1>1, SumInt
<1>3. /\ SumFunctionOnSet(f, S) <= SumFunctionOnSet(g, S)
      /\ SumFunctionOnSet(g, S) <= SumFunctionOnSet(f, S)
  BY <1>1, SumOrder
<1> QED
  BY <1>2, <1>3

\* Any term can be taken out of a sum first.
LEMMA SumRemove ==
    ASSUME NEW f, NEW S, IsFiniteSet(S), \A x \in S : f[x] \in Int, NEW x \in S
    PROVE  SumFunctionOnSet(f, S) = f[x] + SumFunctionOnSet(f, S \ {x})
<1> DEFINE Sum(s) == SumFunctionOnSet(f, s)
           T == {s \in SUBSET S : \A y \in s : Sum(s) = f[y] + Sum(s \ {y})}
<1>1. ASSUME NEW s \in SUBSET S, \A u \in SUBSET s : u # s => u \in T
      PROVE  s \in T
  <2> SUFFICES ASSUME NEW y \in s PROVE Sum(s) = f[y] + Sum(s \ {y})
    OBVIOUS
  <2>1. PICK z \in s : Sum(s) = f[z] + Sum(s \ {z})
    <3>1. IsFiniteSet(s)
      BY FS_Subset
    <3> QED
      BY <3>1, SumStep, PickIn
  <2>2. CASE z = y
    BY <2>1, <2>2
  <2>3. CASE z # y
    <3>1. Sum(s \ {z}) = f[y] + Sum((s \ {z}) \ {y})
      BY <1>1, <2>3
    <3>2. Sum(s \ {y}) = f[z] + Sum((s \ {y}) \ {z})
      BY <1>1, <2>3
    <3>3. (s \ {z}) \ {y} = (s \ {y}) \ {z}
      OBVIOUS
    <3>4. f[y] \in Int /\ f[z] \in Int /\ Sum((s \ {y}) \ {z}) \in Int
      <4>1. IsFiniteSet((s \ {y}) \ {z})
        BY FS_Subset
      <4> QED
        BY <4>1, SumInt
    <3> DEFINE rest == Sum((s \ {y}) \ {z})
    <3>5. Sum(s \ {z}) = f[y] + rest /\ Sum(s \ {y}) = f[z] + rest /\ rest \in Int
      BY <3>1, <3>2, <3>3, <3>4
    <3> HIDE DEF Sum, rest
    <3> QED
      BY <2>1, <3>4, <3>5
  <2> QED
    BY <2>2, <2>3
<1> HIDE DEF T
<1>2. SUBSET S \subseteq T
  BY <1>1, SubsetInduction
<1> QED
  BY <1>2 DEF T

\* One more term, while the others stay.
LEMMA SumExtend ==
    ASSUME NEW f, NEW g, NEW S, IsFiniteSet(S), NEW x, x \notin S,
           \A y \in S : f[y] \in Int /\ g[y] = f[y], g[x] \in Int
    PROVE  SumFunctionOnSet(g, S \cup {x}) = SumFunctionOnSet(f, S) + g[x]
<1>1. IsFiniteSet(S \cup {x})
  BY FS_AddElement
<1>2. SumFunctionOnSet(g, S \cup {x}) = g[x] + SumFunctionOnSet(g, (S \cup {x}) \ {x})
  BY <1>1, SumRemove
<1>3. (S \cup {x}) \ {x} = S
  OBVIOUS
<1>4. SumFunctionOnSet(f, S) = SumFunctionOnSet(g, S) /\ SumFunctionOnSet(f, S) \in Int
  BY SumSame, SumInt
<1>5. SumFunctionOnSet(g, S \cup {x}) = g[x] + SumFunctionOnSet(f, S)
  BY <1>2, <1>3, <1>4
<1> QED
  BY <1>4, <1>5
\* Zeros add nothing.
LEMMA SumOfPositive ==
    ASSUME NEW f, NEW S, IsFiniteSet(S), \A x \in S : f[x] \in Nat
    PROVE  SumFunctionOnSet(f, {x \in S : f[x] > 0}) = SumFunctionOnSet(f, S)
<1> DEFINE Filled(s) == {x \in s : f[x] > 0}
           T == {s \in SUBSET S : SumFunctionOnSet(f, Filled(s)) = SumFunctionOnSet(f, s)}
<1>1. ASSUME NEW s \in SUBSET S, \A u \in SUBSET s : u # s => u \in T
      PROVE  s \in T
  <2>1. IsFiniteSet(s) /\ \A x \in s : f[x] \in Int
    BY FS_Subset
  <2>2. CASE \A x \in s : f[x] > 0
    <3>1. Filled(s) = s
      BY <2>2
    <3> QED
      BY <3>1
  <2>3. CASE \E x \in s : ~(f[x] > 0)
    <3>1. PICK x \in s : f[x] = 0
      BY <2>3
    <3>2. s \ {x} \in T
      BY <1>1, <3>1
    <3>3. Filled(s) = Filled(s \ {x})
      BY <3>1
    <3>4. SumFunctionOnSet(f, s) = f[x] + SumFunctionOnSet(f, s \ {x})
      BY <2>1, SumRemove
    <3>5. SumFunctionOnSet(f, s \ {x}) \in Int
      <4>1. IsFiniteSet(s \ {x}) /\ \A y \in s \ {x} : f[y] \in Int
        BY <2>1, FS_Subset
      <4> QED
        BY <4>1, SumInt
    <3> HIDE DEF Filled
    <3>6. SumFunctionOnSet(f, Filled(s \ {x})) = SumFunctionOnSet(f, s \ {x})
      BY <3>2
    <3> QED
      BY <3>1, <3>3, <3>4, <3>5, <3>6
  <2> QED
    BY <2>2, <2>3
<1> HIDE DEF T
<1>2. SUBSET S \subseteq T
  BY <1>1, SubsetInduction
<1> QED
  BY <1>2 DEF T

-----------------------------------------------------------------------------
(* Ranks in a finite total order.                                           *)

Below(R, S, x) == {y \in S : <<y, x>> \in R}

Orders(R, S) ==
    /\ \A x \in S : <<x, x>> \notin R
    /\ \A x, y \in S : x # y => <<x, y>> \in R \/ <<y, x>> \in R
    /\ \A x, y, z \in S : <<x, y>> \in R /\ <<y, z>> \in R => <<x, z>> \in R

\* In a finite total order the number of elements before one tells it apart, and
\* takes every value below the size of the set.
LEMMA RanksAreDistinct ==
    ASSUME NEW R, NEW S, IsFiniteSet(S), Orders(R, S), NEW rank,
           rank = [x \in S |-> Cardinality(Below(R, S, x))]
    PROVE  /\ Cardinality(S) \in Nat
           /\ \A x \in S : rank[x] \in 0 .. Cardinality(S) - 1
           /\ \A x, y \in S : x # y => rank[x] # rank[y]
           /\ \A x, y \in S : <<x, y>> \in R => rank[x] < rank[y]
           /\ \A i \in 0 .. Cardinality(S) - 1 : \E x \in S : rank[x] = i
<1> DEFINE n == Cardinality(S)
<1>1. n \in Nat
  BY FS_CardinalityType
<1>2. ASSUME NEW x \in S
      PROVE  /\ IsFiniteSet(Below(R, S, x)) /\ rank[x] = Cardinality(Below(R, S, x))
             /\ rank[x] \in Nat
  <2>1. Below(R, S, x) \in SUBSET S
    BY DEF Below
  <2>2. IsFiniteSet(Below(R, S, x))
    BY <2>1, FS_Subset
  <2> QED
    BY <2>2, FS_CardinalityType
<1>3. ASSUME NEW x \in S PROVE rank[x] \in 0 .. n - 1
  <2>1. Below(R, S, x) \in SUBSET (S \ {x})
    BY DEF Below, Orders
  <2>2. IsFiniteSet(S \ {x}) /\ Cardinality(S \ {x}) = n - 1
    BY FS_RemoveElement
  <2>3. Cardinality(Below(R, S, x)) <= n - 1
    BY <2>1, <2>2, FS_Subset
  <2> QED
    BY <1>1, <1>2, <2>3
<1>4. ASSUME NEW x \in S, NEW y \in S, <<x, y>> \in R PROVE rank[x] < rank[y]
  <2>1. Below(R, S, x) \in SUBSET Below(R, S, y)
    BY <1>4 DEF Below, Orders
  <2>2. x \in Below(R, S, y) /\ x \notin Below(R, S, x)
    BY <1>4 DEF Below, Orders
  <2>3. Below(R, S, x) # Below(R, S, y)
    BY <2>2
  <2>4. /\ Cardinality(Below(R, S, x)) <= Cardinality(Below(R, S, y))
        /\ Cardinality(Below(R, S, y)) # Cardinality(Below(R, S, x))
    BY <1>2, <2>1, <2>3, FS_Subset
  <2> QED
    BY <1>2, <2>4
<1>5. ASSUME NEW x \in S, NEW y \in S, x # y PROVE rank[x] # rank[y]
  <2>1. rank[x] < rank[y] \/ rank[y] < rank[x]
    BY <1>4, <1>5 DEF Orders
  <2>2. rank[x] \in Nat /\ rank[y] \in Nat
    BY <1>2
  <2> QED
    BY <2>1, <2>2
<1>6. rank \in Injection(S, 0 .. n - 1)
  <2>1. rank \in [S -> 0 .. n - 1]
    BY <1>3
  <2>2. \A a, b \in DOMAIN rank : rank[a] = rank[b] => a = b
    BY <1>5
  <2> QED
    BY <2>1, <2>2 DEF Injection, IsInjective
<1>7. IsFiniteSet(0 .. n - 1) /\ Cardinality(0 .. n - 1) = n
  <2>1. PICK z \in Int, m \in Int : z = 0 /\ m = n - 1
    BY <1>1
  <2> HIDE DEF n
  <2>2. IsFiniteSet(z .. m) /\ Cardinality(z .. m) = IF z > m THEN 0 ELSE m - z + 1
    BY ONLY FS_Interval, z \in Int, m \in Int
  <2> QED
    BY <1>1, <2>1, <2>2
<1>8. rank \in Surjection(S, 0 .. n - 1)
  <2> HIDE DEF n
  <2> QED
    BY <1>6, <1>7, FS_Injection DEF n
<1>9. ASSUME NEW i \in 0 .. n - 1 PROVE \E x \in S : rank[x] = i
  BY <1>8 DEF Surjection
<1> QED
  BY <1>1, <1>3, <1>4, <1>5, <1>9

\* As many elements as asked for have fewer than that before them.
LEMMA FirstRanks ==
    ASSUME NEW R, NEW S, IsFiniteSet(S), Orders(R, S), NEW k \in 0 .. Cardinality(S)
    PROVE  Cardinality({x \in S : Cardinality(Below(R, S, x)) < k}) = k
<1> DEFINE n == Cardinality(S)
           A == {x \in S : Cardinality(Below(R, S, x)) < k}
<1>1. PICK rank : rank = [x \in S |-> Cardinality(Below(R, S, x))]
  OBVIOUS
<1>2. /\ n \in Nat
      /\ \A x \in S : rank[x] \in 0 .. n - 1
      /\ \A x, y \in S : x # y => rank[x] # rank[y]
      /\ \A i \in 0 .. n - 1 : \E x \in S : rank[x] = i
  BY <1>1, RanksAreDistinct
<1>3. A \in SUBSET S /\ \A x \in S : x \in A <=> rank[x] < k
  BY <1>1
<1> HIDE DEF A
<1>4. PICK f : f = [x \in A |-> rank[x]]
  OBVIOUS
<1>5. f \in Bijection(A, 0 .. k - 1)
  <2>1. f \in [A -> 0 .. k - 1]
    BY <1>2, <1>3, <1>4
  <2>2. \A a, b \in DOMAIN f : f[a] = f[b] => a = b
    BY <1>2, <1>3, <1>4
  <2>3. \A i \in 0 .. k - 1 : \E x \in A : f[x] = i
    <3> SUFFICES ASSUME NEW i \in 0 .. k - 1 PROVE \E x \in A : f[x] = i
      OBVIOUS
    <3>1. i \in 0 .. n - 1 /\ i < k
      BY <1>2
    <3>2. PICK x \in S : rank[x] = i
      BY <1>2, <3>1
    <3> QED
      BY <1>3, <1>4, <3>1, <3>2
  <2> QED
    BY <2>1, <2>2, <2>3 DEF Bijection, Injection, Surjection, IsInjective
<1>6. IsFiniteSet(A)
  BY <1>3, FS_Subset
<1>7. ExistsBijection(A, 0 .. k - 1)
  BY <1>5 DEF ExistsBijection
<1>8. Cardinality(0 .. k - 1) = Cardinality(A)
  BY <1>6, <1>7, FS_Bijection
<1>9. Cardinality(0 .. k - 1) = k
  BY <1>2, FS_Interval
<1> QED
  BY <1>8, <1>9 DEF A

\* Keys of naturals, the largest first, the smaller number of equals.
Prior(key, x, y) == key[x] > key[y] \/ (key[x] = key[y] /\ x < y)

ByKey(key, S) == {e \in S \X S : Prior(key, e[1], e[2])}

LEMMA KeysOrder ==
    ASSUME NEW S, S \subseteq Nat, NEW key, \A x \in S : key[x] \in Nat,
           NEW R, R = ByKey(key, S)
    PROVE  /\ Orders(R, S)
           /\ \A x \in S : \A y : y \in Below(R, S, x) <=> y \in S /\ Prior(key, y, x)
<1>1. ASSUME NEW x \in S, NEW y \in S PROVE <<x, y>> \in R <=> Prior(key, x, y)
  <2>1. PICK pair : pair = <<x, y>>
    OBVIOUS
  <2>2. pair \in S \X S /\ pair[1] = x /\ pair[2] = y
    BY <2>1
  <2> QED
    BY <2>1, <2>2 DEF ByKey
<1>2. \A x \in S : <<x, x>> \notin R
  BY <1>1 DEF Prior
<1>3. ASSUME NEW x \in S, NEW y \in S, x # y PROVE <<x, y>> \in R \/ <<y, x>> \in R
  <2>1. Prior(key, x, y) \/ Prior(key, y, x)
    BY <1>3 DEF Prior
  <2> QED
    BY <1>1, <2>1
<1>4. ASSUME NEW x \in S, NEW y \in S, NEW z \in S, <<x, y>> \in R, <<y, z>> \in R
      PROVE  <<x, z>> \in R
  <2>1. Prior(key, x, y) /\ Prior(key, y, z)
    BY <1>1, <1>4
  <2>2. Prior(key, x, z)
    BY <2>1 DEF Prior
  <2> QED
    BY <1>1, <2>2
<1>5. Orders(R, S)
  BY <1>2, <1>3, <1>4 DEF Orders
<1>6. \A x \in S : \A y : y \in Below(R, S, x) <=> y \in S /\ Prior(key, y, x)
  BY <1>1 DEF Below
<1> QED
  BY <1>5, <1>6
================================================================================
