---------------------------- MODULE SolverProofs ----------------------------
(***************************************************************************)
(* For every set of requests and every curve: the removal loop of the       *)
(* solver stays inside the eligible positions, narrows at each turn, and    *)
(* certifies only routes within the fill bound whose fills add up to the    *)
(* request, with the next best positions in reserve.  And of the tool that  *)
(* compares its routes with constant-product pools: the estimate of an      *)
(* exact output is covered, for all reserves, amounts and fees.             *)
(***************************************************************************)
EXTENDS Solver, LiquidityComparison, SumAndRankProofs
-----------------------------------------------------------------------------
(* Arithmetic.                                                              *)

\* Integer division as the two facts the proofs use.
LEMMA Division ==
    ASSUME NEW a \in Nat, NEW b \in Nat \ {0}
    PROVE  /\ a \div b \in Nat
           /\ (a \div b) * b <= a
           /\ a < (a \div b) * b + b
  BY SMT

\* Products of naturals keep an order.
LEMMA ProductMonotone ==
    ASSUME NEW a \in Nat, NEW b \in Nat, NEW c \in Nat, a <= b
    PROVE  a * c <= b * c /\ c * a <= c * b
  BY SMT

\* A quotient is as large as any number whose multiple fits below.
LEMMA QuotientFits ==
    ASSUME NEW a \in Nat, NEW b \in Nat \ {0}, NEW n \in Nat, n * b <= a
    PROVE  a \div b >= n
  <1> DEFINE q == a \div b
  <1>1. q \in Nat /\ a < q * b + b
    BY Division
  <1>2. q * b + b = (q + 1) * b
    BY <1>1
  <1>3. n * b < (q + 1) * b
    BY <1>1, <1>2
  <1>4. CASE q + 1 <= n
    <2>1. (q + 1) * b <= n * b
      BY <1>1, <1>4, ProductMonotone
    <2> QED BY <1>3, <2>1, <1>1
  <1>5. CASE ~(q + 1 <= n)
    BY <1>5, <1>1
  <1> QED BY <1>4, <1>5

\* Products that are ordered with a positive common factor order the others.
LEMMA CancelFactor ==
    ASSUME NEW a \in Nat, NEW b \in Nat, NEW d \in Nat \ {0}, a * d <= b * d
    PROVE  a <= b
  BY SMT
-----------------------------------------------------------------------------
(* What a search may return.                                                *)

LEMMA ToWadType ==
    ASSUME NEW n \in Int, NEW d \in Nat \ {0}
    PROVE  ToWad(n, d) \in Int
<1>1. 2 * n + d \in Int /\ 2 * d \in Nat \ {0}
  OBVIOUS
<1> QED
  BY <1>1 DEF ToWad

LEMMA PositiveProduct ==
    ASSUME NEW a \in Nat \ {0}, NEW b \in Nat \ {0}
    PROVE  a * b \in Nat \ {0}
OBVIOUS

\* In the domain, the base of the power stays above zero.
LEMMA ShiftedType ==
    ASSUME NEW curve, curve.mu \in 1 .. WAD - 1, NEW yInt \in Nat \ {0}, NEW y \in 0 .. yInt
    PROVE  Shifted(curve, y, yInt) \in Nat \ {0}
<1>1. PICK m \in Nat, z \in Nat : m = curve.mu /\ z = yInt - y /\ m + 1 <= WAD /\ z <= yInt
  BY QuoteMathAssumption
<1>2. m * z <= m * yInt /\ m * z \in Nat /\ m * yInt \in Nat
  BY <1>1, ProductMonotone
<1>3. (m + 1) * yInt <= WAD * yInt /\ (m + 1) * yInt = m * yInt + yInt /\ WAD * yInt \in Nat
  BY <1>1, QuoteMathAssumption, ProductMonotone
<1>4. m * z < WAD * yInt
  BY <1>2, <1>3
<1> QED
  BY <1>1, <1>2, <1>3, <1>4 DEF Shifted

LEMMA AmountInType ==
    ASSUME NEW c, WellFormed(c), InDomain(c.state), NEW y \in 0 .. c.state.yInt
    PROVE  AmountIn(c.curve, c.state, y) \in Int
<1>1. /\ c.curve.kappa \in Nat \ {0} /\ c.state.yInt \in Nat \ {0} /\ WAD \in Nat \ {0}
      /\ c.state.y \in 0 .. c.state.yInt /\ y \in Int /\ c.state.y \in Int
  BY QuoteMathAssumption DEF WellFormed, InDomain
<1>2. CASE c.curve.branch = "Flat"
  <2>1. (c.state.y - y) * WAD \in Int
    BY <1>1
  <2> QED
    BY <1>1, <1>2, <2>1, ToWadType DEF AmountIn
<1>3. CASE c.curve.branch # "Flat"
  <2> DEFINE before == Shifted(c.curve, c.state.y, c.state.yInt)
             after == Shifted(c.curve, y, c.state.yInt)
  <2>1. before \in Nat \ {0} /\ after \in Nat \ {0}
    BY <1>1, <1>3, ShiftedType DEF WellFormed
  <2>2. AmountIn(c.curve, c.state, y)
          = ToWad(WAD * c.state.yInt * c.state.yInt * WAD * (before - after),
                  c.curve.kappa * before * after)
    BY <1>3 DEF AmountIn
  <2> HIDE DEF before, after
  <2>3. c.curve.kappa * before \in Nat \ {0}
    BY <1>1, <2>1, PositiveProduct
  <2>4. c.curve.kappa * before * after \in Nat \ {0}
    BY <2>1, <2>3, PositiveProduct
  <2>5. WAD * c.state.yInt \in Int
    BY <1>1
  <2>6. WAD * c.state.yInt * c.state.yInt \in Int
    BY <1>1, <2>5
  <2>7. WAD * c.state.yInt * c.state.yInt * WAD * (before - after) \in Int
    BY <1>1, <2>1, <2>6
  <2> QED
    BY <2>2, <2>4, <2>7, ToWadType
<1> QED
  BY <1>2, <1>3

LEMMA MarginalRateType ==
    ASSUME NEW c, WellFormed(c), InDomain(c.state)
    PROVE  MarginalRate(c.curve, c.state) \in Int
<1>1. /\ c.curve.kappa \in Nat \ {0} /\ c.state.yInt \in Nat \ {0} /\ WAD \in Nat \ {0}
      /\ c.state.y \in 0 .. c.state.yInt
  BY QuoteMathAssumption DEF WellFormed, InDomain
<1>2. CASE c.curve.branch = "Flat"
  BY <1>1, <1>2 DEF MarginalRate
<1>3. CASE c.curve.branch # "Flat"
  <2> DEFINE n == Shifted(c.curve, c.state.y, c.state.yInt)
             d == WAD * c.state.yInt
  <2>1. n \in Nat \ {0} /\ c.curve.mu \in Nat \ {0}
    BY <1>1, <1>3, ShiftedType DEF WellFormed
  <2>2. d \in Nat \ {0}
    BY <1>1, PositiveProduct
  <2>3. MarginalRate(c.curve, c.state) = ToWad(c.curve.kappa * WAD * n * n, c.curve.mu * d * d)
    BY <1>3 DEF MarginalRate
  <2> HIDE DEF n, d
  <2>4. c.curve.mu * d \in Nat \ {0}
    BY <2>1, <2>2, PositiveProduct
  <2>5. c.curve.mu * d * d \in Nat \ {0}
    BY <2>2, <2>4, PositiveProduct
  <2>6. c.curve.kappa * WAD \in Nat \ {0}
    BY <1>1, PositiveProduct
  <2>7. c.curve.kappa * WAD * n \in Nat \ {0}
    BY <2>1, <2>6, PositiveProduct
  <2>8. c.curve.kappa * WAD * n * n \in Nat \ {0}
    BY <2>1, <2>7, PositiveProduct
  <2> QED
    BY <2>3, <2>5, <2>8, ToWadType
<1> QED
  BY <1>2, <1>3

\* What measureCandidate returns: integers, and a capacity above zero.
LEMMA MeasuredType ==
    ASSUME NEW c, WellFormed(c), NEW kind \in Kinds, Measurable(c, kind)
    PROVE  /\ Measured(c, kind).capacity \in Nat
           /\ Measured(c, kind).startRate \in Int
           /\ Measured(c, kind).key = c.key
<1>1. /\ InDomain(c.state) /\ c.state.y \in 1 .. c.state.y
      /\ AmountIn(c.curve, c.state, c.state.y - c.state.y) > 0
  BY DEF Measurable, CanQuoteExactOutput
<1>2. c.state.y \in Nat /\ c.state.yInt \in Nat /\ c.state.y - c.state.y = 0
  BY <1>1 DEF WellFormed, InDomain
<1>3. AmountIn(c.curve, c.state, 0) \in Nat
  BY <1>1, <1>2, AmountInType
<1>4. MarginalRate(c.curve, c.state) \in Int
  BY <1>1, MarginalRateType
<1> DEFINE full == QuoteExactOutput(c.curve, c.state, c.state.y)
<1>5. full.in = AmountIn(c.curve, c.state, 0) /\ full.rateBefore = MarginalRate(c.curve, c.state)
  BY <1>2 DEF QuoteExactOutput, Quote
<1> HIDE DEF full
<1>6. /\ Measured(c, kind).capacity = IF kind = "ExactInput" THEN full.in ELSE c.state.y
      /\ Measured(c, kind).startRate = full.rateBefore
      /\ Measured(c, kind).key = c.key
  BY DEF Measured, full
<1> QED
  BY <1>2, <1>3, <1>4, <1>5, <1>6

Bounds(c) == (0 .. c.capacity) \X (0 .. c.capacity)

Width(range) == range[2] - range[1]

\* One turn of the search of AllocationAtRate, given the turns after it.
Turn(search, range, c, threshold) ==
    LET low    == range[1]
        high   == range[2]
        middle == (low + high) \div 2
    IN  IF high - low <= 1 THEN low
        ELSE IF ~Quotable(c, middle) THEN Crash
        ELSE IF RateAfter(c, middle) >= threshold THEN search[<<middle, high>>]
                                                  ELSE search[<<low, middle>>]

IsSearch(search, c, threshold) ==
    search = [range \in Bounds(c) |-> Turn(search, range, c, threshold)]

\* The halves of a range are ranges, and narrower.
LEMMA Halves ==
    ASSUME NEW c, c.capacity \in Nat, NEW range \in Bounds(c), Width(range) > 1,
           NEW middle, middle = (range[1] + range[2]) \div 2
    PROVE  /\ <<middle, range[2]>> \in Bounds(c) /\ Width(<<middle, range[2]>>) < Width(range)
           /\ <<range[1], middle>> \in Bounds(c) /\ Width(<<range[1], middle>>) < Width(range)
<1>1. PICK low \in 0 .. c.capacity, high \in 0 .. c.capacity :
        range = <<low, high>> /\ range[1] = low /\ range[2] = high
  BY DEF Bounds
<1>2. high - low > 1 /\ middle = (low + high) \div 2
  BY <1>1 DEF Width
<1>3. low < middle /\ middle < high /\ middle \in Int
  BY <1>2
<1>4. middle \in 0 .. c.capacity
  BY <1>3
<1> QED
  BY <1>1, <1>3, <1>4 DEF Bounds, Width

\* The turns of two searches that agree on narrower ranges agree.
LEMMA SameTurn ==
    ASSUME NEW c, c.capacity \in Nat, NEW threshold, NEW g, NEW h, NEW range \in Bounds(c),
           \A r \in Bounds(c) : Width(r) < Width(range) => g[r] = h[r]
    PROVE  Turn(g, range, c, threshold) = Turn(h, range, c, threshold)
<1>1. PICK middle : middle = (range[1] + range[2]) \div 2
  OBVIOUS
<1>2. CASE Width(range) > 1
  <2>1. /\ g[<<middle, range[2]>>] = h[<<middle, range[2]>>]
        /\ g[<<range[1], middle>>] = h[<<range[1], middle>>]
    BY <1>1, <1>2, Halves
  <2> QED
    BY <1>1, <2>1 DEF Turn
<1>3. CASE ~(Width(range) > 1)
  <2>1. range[2] - range[1] <= 1
    BY <1>3 DEF Bounds, Width
  <2> QED
    BY <2>1 DEF Turn
<1> QED
  BY <1>2, <1>3

LEMMA SearchExists ==
    ASSUME NEW c, c.capacity \in Nat, NEW threshold
    PROVE  \E search : IsSearch(search, c, threshold)
<1> DEFINE n == c.capacity
           UpTo(g, k) == /\ g = [r \in Bounds(c) |-> g[r]]
                         /\ \A r \in Bounds(c) :
                              Width(r) <= k => g[r] = Turn(g, r, c, threshold)
           T == {k \in 0 .. n : \E g : UpTo(g, k)}
<1>1. \A r \in Bounds(c) : Width(r) \in Int /\ Width(r) <= n
  BY DEF Bounds, Width
<1>2. 0 \in T
  <2> DEFINE g == [r \in Bounds(c) |-> r[1]]
  <2>1. ASSUME NEW r \in Bounds(c), Width(r) <= 0 PROVE g[r] = Turn(g, r, c, threshold)
    <3>1. r[2] - r[1] <= 1
      BY <1>1, <2>1 DEF Width, Bounds
    <3> QED
      BY <3>1 DEF Turn
  <2>2. g = [r \in Bounds(c) |-> g[r]]
    OBVIOUS
  <2> HIDE DEF g
  <2>3. UpTo(g, 0)
    BY <2>1, <2>2
  <2> QED
    BY <2>3
<1>3. ASSUME NEW k \in 0 .. n - 1, k \in T PROVE k + 1 \in T
  <2>1. PICK g : UpTo(g, k)
    BY <1>3
  <2> DEFINE h == [r \in Bounds(c) |-> IF Width(r) <= k THEN g[r]
                                       ELSE Turn(g, r, c, threshold)]
  <2>2. \A r \in Bounds(c) : h[r] = Turn(g, r, c, threshold) \/ ~(Width(r) <= k + 1)
    BY <2>1
  <2>3. \A r \in Bounds(c) : Width(r) <= k => h[r] = g[r]
    OBVIOUS
  <2>4. h = [r \in Bounds(c) |-> h[r]]
    OBVIOUS
  <2> HIDE DEF h
  <2>5. ASSUME NEW r \in Bounds(c), Width(r) <= k + 1 PROVE h[r] = Turn(h, r, c, threshold)
    <3>1. \A s \in Bounds(c) : Width(s) < Width(r) => g[s] = h[s]
      BY <1>1, <2>3, <2>5
    <3>2. Turn(g, r, c, threshold) = Turn(h, r, c, threshold)
      BY <3>1, SameTurn
    <3> QED
      BY <2>2, <2>5, <3>2
  <2>6. UpTo(h, k + 1)
    BY <2>4, <2>5
  <2> HIDE DEF UpTo
  <2> QED
    BY <2>6
<1> HIDE DEF T
<1>4. n \in T
  BY <1>2, <1>3, RangeInduction
<1>5. PICK g : UpTo(g, n)
  BY <1>4 DEF T
<1>6. g = [r \in Bounds(c) |-> Turn(g, r, c, threshold)]
  BY <1>1, <1>5
<1> QED
  BY <1>6 DEF IsSearch

\* A search ends with an amount the position has, or with a quote that throws.
LEMMA SearchType ==
    ASSUME NEW c, c.capacity \in Nat, NEW threshold, NEW search, IsSearch(search, c, threshold)
    PROVE  \A range \in Bounds(c) : search[range] \in 0 .. c.capacity \cup {Crash}
<1> DEFINE n == c.capacity
           T == {k \in 0 .. n :
                   \A r \in Bounds(c) : Width(r) <= k => search[r] \in 0 .. n \cup {Crash}}
<1>1. \A r \in Bounds(c) : /\ Width(r) \in Int /\ Width(r) <= n
                           /\ r[1] \in 0 .. n /\ Width(r) = r[2] - r[1]
  BY DEF Bounds, Width
<1>2. \A r \in Bounds(c) : search[r] = Turn(search, r, c, threshold)
  BY DEF IsSearch
<1>3. ASSUME NEW r \in Bounds(c), Width(r) <= 1 PROVE search[r] = r[1]
  BY <1>1, <1>2, <1>3 DEF Turn
<1>4. 0 \in T
  BY <1>1, <1>3
<1>5. ASSUME NEW k \in 0 .. n - 1, k \in T PROVE k + 1 \in T
  <2>1. ASSUME NEW r \in Bounds(c), Width(r) <= k + 1 PROVE search[r] \in 0 .. n \cup {Crash}
    <3>1. CASE Width(r) <= 1
      BY <1>1, <1>3, <3>1
    <3>2. CASE Width(r) > 1
      <4>1. PICK middle : middle = (r[1] + r[2]) \div 2
        OBVIOUS
      <4>2. search[r] \in {r[1], Crash, search[<<middle, r[2]>>], search[<<r[1], middle>>]}
        BY <1>2, <4>1 DEF Turn
      <4>3. /\ <<middle, r[2]>> \in Bounds(c) /\ Width(<<middle, r[2]>>) < Width(r)
            /\ <<r[1], middle>> \in Bounds(c) /\ Width(<<r[1], middle>>) < Width(r)
        BY <3>2, <4>1, Halves
      <4>4. Width(<<middle, r[2]>>) <= k /\ Width(<<r[1], middle>>) <= k
        BY <1>1, <2>1, <4>3
      <4> QED
        BY <1>1, <1>5, <4>2, <4>3, <4>4
    <3> QED
      BY <1>1, <3>1, <3>2
  <2> QED
    BY <2>1
<1> HIDE DEF T
<1>6. n \in T
  BY <1>4, <1>5, RangeInduction
<1> QED
  BY <1>1, <1>6 DEF T

LEMMA AllocationType ==
    ASSUME NEW c, c.capacity \in Nat, NEW threshold
    PROVE  AllocationAtRate(c, threshold) \in 0 .. c.capacity \cup {Crash}
<1> DEFINE search == CHOOSE g : IsSearch(g, c, threshold)
<1>1. AllocationAtRate(c, threshold) \in {0, c.capacity, search[<<0, c.capacity>>]}
  BY DEF AllocationAtRate, IsSearch, Turn, Bounds
<1>2. IsSearch(search, c, threshold)
  BY SearchExists
<1> HIDE DEF search
<1>3. <<0, c.capacity>> \in Bounds(c)
  BY DEF Bounds
<1>4. search[<<0, c.capacity>>] \in 0 .. c.capacity \cup {Crash}
  BY <1>2, <1>3, SearchType
<1> QED
  BY <1>1, <1>4
-----------------------------------------------------------------------------
(* A solved split.                                                         *)

\* A split fills only positions that it was given an amount for, and what is
\* not solved carries the code of an error.
LEMMA SplitFills ==
    ASSUME NEW amount
    PROVE  /\ Split(amount).status \in {"Solved", "Crash"}
           /\ Split(amount).status = "Solved" => Fills(Split(amount)) \subseteq DOMAIN amount
<1> DEFINE filled == {c \in DOMAIN amount : amount[c] > 0}
<1>1. CASE \A c \in filled : Quotable(c, amount[c])
  <2>1. Split(amount).status = "Solved"
    BY <1>1 DEF Split
  <2>2. Split(amount).amount = [c \in filled |-> amount[c]]
    BY <1>1 DEF Split
  <2>3. Fills(Split(amount)) = filled
    BY <2>2 DEF Fills
  <2> QED
    BY <2>1, <2>3
<1>2. CASE ~(\A c \in filled : Quotable(c, amount[c]))
  BY <1>2 DEF Split, Thrown
<1> QED
  BY <1>1, <1>2

LEMMA GrantedDomain ==
    ASSUME NEW atMost, NEW atLeast, NEW rate, NEW remaining
    PROVE  DOMAIN Granted(atMost, atLeast, rate, remaining) = DOMAIN rate
BY DEF Granted

Codes == {"Solved", "Crash", "InvalidRequest", "InsufficientLiquidity"}

LEMMA SolveAtRateFills ==
    ASSUME NEW M, NEW target, NEW low
    PROVE  /\ SolveAtRate(M, target, low).status \in Codes
           /\ SolveAtRate(M, target, low).status = "Solved"
                => Fills(SolveAtRate(M, target, low)) \subseteq M
<1> DEFINE s == SolveAtRate(M, target, low)
           atMost == AllocationsAtRate(M, low)
           atLeast == AllocationsAtRate(M, low + 1)
           rate == [c \in M |-> RateAfter(c, atLeast[c])]
           amount == Granted(atMost, atLeast, rate, target - Total(atLeast))
<1>1. s \in {Thrown("Crash"), Thrown("InvalidRequest"), Thrown("InsufficientLiquidity"),
             Split(amount)}
  BY DEF SolveAtRate
<1>2. DOMAIN amount = M
  <2>1. DOMAIN rate = M
    OBVIOUS
  <2> QED
    BY <2>1, GrantedDomain
<1>3. CASE s = Split(amount)
  <2>1. s.status \in {"Solved", "Crash"} /\ (s.status = "Solved" => Fills(s) \subseteq M)
    <3> HIDE DEF s, amount
    <3> QED
      BY <1>2, <1>3, SplitFills
  <2> QED
    BY <2>1 DEF Codes
<1>4. CASE s \in {Thrown("Crash"), Thrown("InvalidRequest"), Thrown("InsufficientLiquidity")}
  <2> HIDE DEF s
  <2>1. s.status \in {"Crash", "InvalidRequest", "InsufficientLiquidity"}
    BY <1>4 DEF Thrown
  <2> QED
    BY <2>1 DEF Codes, s
<1> HIDE DEF s, amount
<1>5. /\ s.status \in Codes
      /\ s.status = "Solved" => Fills(s) \subseteq M
  BY <1>1, <1>3, <1>4 DEF s
<1> QED
  BY <1>5 DEF s

\* A solved split fills only positions of the market it was solved over.
LEMMA SolvedFills ==
    ASSUME NEW M, NEW target
    PROVE  /\ SolveUnbounded(M, target).status \in Codes
           /\ SolveUnbounded(M, target).status = "Solved"
                => Fills(SolveUnbounded(M, target)) \subseteq M
<1> DEFINE s == SolveUnbounded(M, target)
           low == MarginalMarketRate(M, target)
<1>1. s \in {Thrown("Crash"), Thrown("InsufficientLiquidity"), SolveAtRate(M, target, low)}
  BY DEF SolveUnbounded
<1>2. CASE s = SolveAtRate(M, target, low)
  <2> HIDE DEF s, low
  <2> QED
    BY <1>2, SolveAtRateFills DEF s
<1>3. CASE s \in {Thrown("Crash"), Thrown("InsufficientLiquidity")}
  <2> HIDE DEF s
  <2>1. s.status \in {"Crash", "InsufficientLiquidity"}
    BY <1>3 DEF Thrown
  <2> QED
    BY <2>1 DEF Codes, s
<1> QED
  BY <1>1, <1>2, <1>3

\* A market the provers can add up: finitely many positions of integer capacity.
IsMarket(M) == IsFiniteSet(M) /\ \A c \in M : c.capacity \in Nat

\* Fills that add up to the target, none of more than the position has.
Serves(s, target) ==
    /\ Total(s.amount) = target
    /\ \A c \in Fills(s) : s.amount[c] \in 1 .. c.capacity

LEMMA TotalType ==
    ASSUME NEW amount, IsFiniteSet(DOMAIN amount), \A c \in DOMAIN amount : amount[c] \in Int
    PROVE  Total(amount) \in Int
BY SumInt DEF Total

\* Positions that give nothing do not count, and a fill was quoted.
LEMMA SplitServes ==
    ASSUME NEW amount, IsFiniteSet(DOMAIN amount), \A c \in DOMAIN amount : amount[c] \in Nat,
           Split(amount).status = "Solved"
    PROVE  Serves(Split(amount), Total(amount))
<1> DEFINE filled == {c \in DOMAIN amount : amount[c] > 0}
           given == [c \in filled |-> amount[c]]
<1>1. \A c \in filled : Quotable(c, amount[c])
  BY DEF Split, Thrown
<1>2. Split(amount).amount = given
  BY <1>1 DEF Split
<1>3. IsFiniteSet(filled) /\ DOMAIN given = filled
  BY FS_Subset
<1>4. SumFunctionOnSet(given, filled) = SumFunctionOnSet(amount, filled)
  <2>1. \A c \in filled : given[c] \in Int /\ given[c] = amount[c]
    OBVIOUS
  <2> HIDE DEF filled, given
  <2> QED
    BY <1>3, <2>1, SumSame
<1>5. SumFunctionOnSet(amount, filled) = SumFunctionOnSet(amount, DOMAIN amount)
  BY SumOfPositive
<1>6. \A c \in filled : given[c] \in 1 .. c.capacity
  BY <1>1 DEF Quotable
<1> HIDE DEF filled, given
<1> QED
  BY <1>2, <1>3, <1>4, <1>5, <1>6 DEF Serves, Total, Fills

LEMMA MinMaxType ==
    ASSUME NEW a \in Int, NEW b \in Int
    PROVE  /\ Min({a, b}) \in {a, b} /\ Min({a, b}) <= a /\ Min({a, b}) <= b
           /\ Max({a, b}) \in {a, b} /\ Max({a, b}) >= a /\ Max({a, b}) >= b
<1>1. a <= b \/ b <= a
  OBVIOUS
<1>2. \E x \in {a, b} : \A y \in {a, b} : x <= y
  BY <1>1
<1>3. \E x \in {a, b} : \A y \in {a, b} : x >= y
  BY <1>1
<1> QED
  BY <1>2, <1>3 DEF Min, Max

LEMMA AheadType ==
    ASSUME NEW c, NEW atMost, NEW atLeast, NEW rate, IsFiniteSet(DOMAIN rate),
           \A d \in DOMAIN rate : atMost[d] \in Int /\ atLeast[d] \in Int
    PROVE  Ahead(c, atMost, atLeast, rate) \in Int
<1> DEFINE earlier == {d \in DOMAIN rate :
                         rate[d] > rate[c] \/ (rate[d] = rate[c] /\ d.key < c.key)}
           room == [d \in earlier |-> Max({0, atMost[d] - atLeast[d]})]
<1>1. IsFiniteSet(earlier) /\ earlier \subseteq DOMAIN rate
  BY FS_Subset
<1>2. ASSUME NEW d \in earlier PROVE room[d] \in Int
  <2>1. PICK z \in Int, m \in Int : z = 0 /\ m = atMost[d] - atLeast[d]
    BY <1>1
  <2>2. Max({z, m}) \in {z, m}
    BY MinMaxType
  <2> QED
    BY <2>1, <2>2
<1>3. Ahead(c, atMost, atLeast, rate) = SumFunctionOnSet(room, earlier)
  BY DEF Ahead
<1> HIDE DEF earlier, room
<1> QED
  BY <1>1, <1>2, <1>3, SumInt

\* The band only adds to what is sure.
LEMMA GrantedType ==
    ASSUME NEW atMost, NEW atLeast, NEW rate, NEW remaining \in Int, IsFiniteSet(DOMAIN rate),
           \A d \in DOMAIN rate : atMost[d] \in Int /\ atLeast[d] \in Nat
    PROVE  \A c \in DOMAIN rate : Granted(atMost, atLeast, rate, remaining)[c] \in Nat
<1> TAKE c \in DOMAIN rate
<1>1. PICK ahead \in Int : ahead = Ahead(c, atMost, atLeast, rate)
  BY AheadType
<1>2. PICK room \in Int, rest \in Int : room = atMost[c] - atLeast[c] /\ rest = remaining - ahead
  OBVIOUS
<1>3. PICK least \in Int : least = Min({room, rest})
  <2>1. Min({room, rest}) \in {room, rest}
    BY MinMaxType
  <2> QED
    BY <2>1
<1>4. PICK share \in Nat : share = Max({0, least})
  <2>1. PICK z \in Int : z = 0
    OBVIOUS
  <2>2. Max({z, least}) \in {z, least} /\ Max({z, least}) >= z
    BY MinMaxType
  <2> QED
    BY <2>1, <2>2
<1>5. Granted(atMost, atLeast, rate, remaining)[c] = atLeast[c] + share
  BY <1>1, <1>2, <1>3, <1>4 DEF Granted
<1> QED
  BY <1>5

LEMMA SolveAtRateServes ==
    ASSUME NEW M, IsMarket(M), NEW target \in Int, NEW low,
           SolveAtRate(M, target, low).status = "Solved"
    PROVE  Serves(SolveAtRate(M, target, low), target)
<1> DEFINE atMost == AllocationsAtRate(M, low)
           atLeast == AllocationsAtRate(M, low + 1)
           rate == [c \in M |-> RateAfter(c, atLeast[c])]
           amount == Granted(atMost, atLeast, rate, target - Total(atLeast))
<1>1. /\ ~Crashed(atMost) /\ ~Crashed(atLeast)
      /\ Total(amount) = target
      /\ SolveAtRate(M, target, low) = Split(amount)
  BY DEF SolveAtRate, Thrown
<1>2. /\ DOMAIN atMost = M /\ DOMAIN atLeast = M /\ DOMAIN rate = M
      /\ \A c \in M : /\ atMost[c] = AllocationAtRate(c, low)
                      /\ atLeast[c] = AllocationAtRate(c, low + 1)
  BY DEF AllocationsAtRate
<1> HIDE DEF atMost, atLeast
<1>3. ASSUME NEW c \in M PROVE atMost[c] \in Nat /\ atLeast[c] \in Nat
  <2>1. c.capacity \in Nat
    BY DEF IsMarket
  <2>2. /\ atMost[c] \in 0 .. c.capacity \cup {Crash}
        /\ atLeast[c] \in 0 .. c.capacity \cup {Crash}
    BY <1>2, <2>1, AllocationType
  <2>3. atMost[c] # Crash /\ atLeast[c] # Crash
    BY <1>1, <1>2 DEF Crashed
  <2> QED
    BY <2>1, <2>2, <2>3
<1>4. target - Total(atLeast) \in Int
  BY <1>2, <1>3, TotalType DEF IsMarket
<1>5. DOMAIN amount = M
  BY <1>2, GrantedDomain
<1> HIDE DEF rate
<1>6. \A c \in M : amount[c] \in Nat
  BY <1>2, <1>3, <1>4, GrantedType DEF IsMarket
<1> HIDE DEF amount
<1>7. Serves(Split(amount), Total(amount))
  BY <1>1, <1>5, <1>6, SplitServes DEF IsMarket
<1> QED
  BY <1>1, <1>7

LEMMA SolvedServes ==
    ASSUME NEW M, IsMarket(M), NEW target \in Int, SolveUnbounded(M, target).status = "Solved"
    PROVE  Serves(SolveUnbounded(M, target), target)
<1>1. PICK low : SolveUnbounded(M, target) = SolveAtRate(M, target, low)
  BY DEF SolveUnbounded, Thrown
<1> QED
  BY <1>1, SolveAtRateServes
-----------------------------------------------------------------------------
(* The market and the shortlist.                                            *)

LEMMA RangeIsFinite ==
    ASSUME NEW S, NEW s \in Seq(S)
    PROVE  IsFiniteSet(ToSet(s))
<1>1. PICK m \in Nat : m = Len(s)
  OBVIOUS
<1>2. IsFiniteSet(DOMAIN s)
  <2>1. DOMAIN s = 1 .. m
    BY <1>1
  <2>2. IsFiniteSet(1 .. m)
    BY FS_Interval
  <2> QED
    BY <2>1, <2>2
<1>3. PICK f : f = [i \in DOMAIN s |-> s[i]]
  OBVIOUS
<1>4. f \in Surjection(DOMAIN s, ToSet(s))
  BY <1>3 DEF Surjection, ToSet
<1> QED
  BY <1>2, <1>4, FS_Surjection

LEMMA MetricsType ==
    ASSUME NEW r \in Requests, r.kind \in Kinds
    PROVE  /\ IsMarket(Metrics(r))
           /\ \A c \in Metrics(r) : c.startRate \in Int /\ c.key \in Nat
           /\ ~HasDuplicates(r.candidates) =>
                \A c, d \in Metrics(r) : c.key = d.key => c = d
<1> DEFINE C == {c \in ToSet(r.candidates) : Admitted(c, r) /\ Measurable(c, r.kind)}
<1>1. /\ r.candidates \in Seq(ToSet(r.candidates))
      /\ \A c \in ToSet(r.candidates) : WellFormed(c)
  BY SolverAssumption
<1>2. IsFiniteSet(C)
  BY <1>1, RangeIsFinite, FS_Subset
<1>3. Metrics(r) = {Measured(c, r.kind) : c \in C}
  BY DEF Metrics
<1>4. IsFiniteSet(Metrics(r))
  <2>1. PICK f : f = [c \in C |-> Measured(c, r.kind)]
    OBVIOUS
  <2>2. f \in Surjection(C, Metrics(r))
    BY <1>3, <2>1 DEF Surjection
  <2> HIDE DEF C
  <2> QED
    BY <1>2, <2>2, FS_Surjection
<1>5. ASSUME NEW m \in Metrics(r)
      PROVE  /\ m.capacity \in Nat /\ m.startRate \in Int /\ m.key \in Nat
             /\ \E i \in DOMAIN r.candidates :
                  /\ m = Measured(r.candidates[i], r.kind)
                  /\ m.key = r.candidates[i].key
  <2>1. PICK c \in C : m = Measured(c, r.kind)
    BY <1>3
  <2>2. PICK i \in DOMAIN r.candidates : c = r.candidates[i]
    BY DEF ToSet
  <2>3. WellFormed(c) /\ Measurable(c, r.kind)
    BY <1>1
  <2>4. m.capacity \in Nat /\ m.startRate \in Int /\ m.key = c.key
    BY <2>1, <2>3, MeasuredType
  <2> QED
    BY <2>1, <2>2, <2>3, <2>4 DEF WellFormed
<1>6. ASSUME ~HasDuplicates(r.candidates), NEW c \in Metrics(r), NEW d \in Metrics(r),
             c.key = d.key
      PROVE  c = d
  <2>1. PICK i \in DOMAIN r.candidates :
          c = Measured(r.candidates[i], r.kind) /\ c.key = r.candidates[i].key
    BY <1>5
  <2>2. PICK j \in DOMAIN r.candidates :
          d = Measured(r.candidates[j], r.kind) /\ d.key = r.candidates[j].key
    BY <1>5
  <2>3. i = j
    BY <1>6, <2>1, <2>2 DEF HasDuplicates
  <2> QED
    BY <2>1, <2>2, <2>3
<1> QED
  BY <1>4, <1>5, <1>6 DEF IsMarket

\* The reserves are the first of the rest in the order of compareMetrics.
LEMMA ShortlistIsNextBest ==
    ASSUME NEW M, IsFiniteSet(M), \A c \in M : c.startRate \in Int /\ c.key \in Nat,
           \A c, d \in M : c.key = d.key => c = d,
           NEW s, NEW count \in Nat, NEW res, res = Shortlist(M, s, count)
    PROVE  /\ Len(res) <= count
           /\ \A i \in DOMAIN res :
                /\ res[i] \in M \ Fills(s)
                /\ \A c \in M \ (Fills(s) \cup ToSet(res)) : c.startRate <= res[i].startRate
<1> DEFINE rest == M \ Fills(s)
           R == {e \in rest \X rest : Before(e[1], e[2])}
           rank == [c \in rest |-> Cardinality(Below(R, rest, c))]
<1>1. IsFiniteSet(rest) /\ rest \subseteq M
  BY FS_Subset
<1>2. res = [i \in 1 .. Min({count, Cardinality(rest)}) |->
               CHOOSE c \in rest : Cardinality({d \in rest : Before(d, c)}) = i - 1]
  BY DEF Shortlist
<1> HIDE DEF rest
<1>3. \A c, d \in rest : <<c, d>> \in R <=> Before(c, d)
  OBVIOUS
<1> HIDE DEF R
<1>4. Orders(R, rest)
  <2>1. \A c \in rest : ~Before(c, c)
    BY <1>1 DEF Before
  <2>2. \A c, d \in rest : c # d => Before(c, d) \/ Before(d, c)
    BY <1>1 DEF Before
  <2>3. \A c, d, e \in rest : Before(c, d) /\ Before(d, e) => Before(c, e)
    BY <1>1 DEF Before
  <2> QED
    BY <1>3, <2>1, <2>2, <2>3 DEF Orders
<1>0. rank = [c \in rest |-> Cardinality(Below(R, rest, c))]
  OBVIOUS
<1>5. \A c \in rest : rank[c] = Cardinality({d \in rest : Before(d, c)})
  <2>1. ASSUME NEW c \in rest PROVE Below(R, rest, c) = {d \in rest : Before(d, c)}
    BY <1>3 DEF Below
  <2> QED
    BY <2>1
<1>6. /\ Cardinality(rest) \in Nat
      /\ \A c \in rest : rank[c] \in 0 .. Cardinality(rest) - 1
      /\ \A c, d \in rest : c # d => rank[c] # rank[d]
      /\ \A c, d \in rest : <<c, d>> \in R => rank[c] < rank[d]
      /\ \A i \in 0 .. Cardinality(rest) - 1 : \E c \in rest : rank[c] = i
  <2> HIDE DEF rank
  <2> QED
    BY <1>0, <1>1, <1>4, RanksAreDistinct
<1> HIDE DEF rank
<1>7. PICK n \in Nat : n = Min({count, Cardinality(rest)}) /\ n <= count /\ n <= Cardinality(rest)
  <2>1. PICK k \in Nat : k = Cardinality(rest)
    BY <1>6
  <2>2. Min({count, k}) \in {count, k} /\ Min({count, k}) <= count /\ Min({count, k}) <= k
    <3>1. count \in Int /\ k \in Int
      OBVIOUS
    <3> QED
      BY ONLY <3>1, MinMaxType
  <2>3. Min({count, k}) \in Nat
    BY <2>1, <2>2
  <2> QED
    BY <2>1, <2>2, <2>3
<1>8. ASSUME NEW i \in 1 .. n PROVE res[i] \in rest /\ rank[res[i]] = i - 1
  <2>1. i - 1 \in 0 .. Cardinality(rest) - 1
    BY <1>6, <1>7
  <2>2. \E c \in rest : Cardinality({d \in rest : Before(d, c)}) = i - 1
    BY <1>5, <1>6, <2>1
  <2>3. res[i] = CHOOSE c \in rest : Cardinality({d \in rest : Before(d, c)}) = i - 1
    BY <1>2, <1>7
  <2>4. res[i] \in rest /\ Cardinality({d \in rest : Before(d, res[i])}) = i - 1
    BY <2>2, <2>3
  <2> QED
    BY <1>5, <2>4
<1>9. DOMAIN res = 1 .. n /\ Len(res) = n
  BY <1>2, <1>7
<1>10. ASSUME NEW i \in 1 .. n, NEW c \in rest \ ToSet(res)
       PROVE  c.startRate <= res[i].startRate
  <2>1. rank[c] >= n
    <3> SUFFICES ASSUME rank[c] + 1 \in 1 .. n PROVE FALSE
      BY <1>6, <1>7
    <3>1. rank[res[rank[c] + 1]] = rank[c] /\ res[rank[c] + 1] \in rest
      BY <1>6, <1>8
    <3>2. res[rank[c] + 1] = c
      BY <1>6, <3>1
    <3> QED
      BY <1>9, <3>2 DEF ToSet
  <2>2. res[i] \in rest /\ rank[res[i]] < rank[c]
    BY <1>6, <1>8, <2>1
  <2>3. c # res[i] /\ ~(<<c, res[i]>> \in R)
    BY <1>6, <2>2
  <2>4. Before(res[i], c)
    BY <1>3, <1>4, <2>2, <2>3 DEF Orders
  <2>5. c.startRate \in Int /\ res[i].startRate \in Int
    BY <1>1, <2>2
  <2> QED
    BY <2>4, <2>5 DEF Before
<1>11. M \ (Fills(s) \cup ToSet(res)) = rest \ ToSet(res)
  BY DEF rest
<1> QED
  BY <1>7, <1>8, <1>9, <1>10, <1>11 DEF rest
-----------------------------------------------------------------------------
(* The removal loop.                                                        *)

\* The inductive invariant: the positions of the split are eligible, they serve
\* the request after every turn, and a certificate keeps the bound that Certify
\* saw and the reserves it chose.
FillBound ==
    outcome = "Route" =>
        /\ solution # None
        /\ Cardinality(Fills(solution)) <= request.maxFills

Served ==
    solution # None =>
        /\ ValidRequest(request) /\ ~HasDuplicates(request.candidates)
        /\ Serves(solution, request.amount)

SolverInv == TypeOK /\ FillBound /\ Served /\ ReservesAreNextBest

\* The positions of a request, with what the requests promise of it.
LEMMA RequestMarket ==
    ASSUME TypeOK
    PROVE  /\ request.amount \in Int /\ request.reserveCount \in Int
           /\ IsMarket(Metrics(request))
           /\ \A M \in SUBSET Metrics(request) : IsMarket(M)
           /\ \A c \in Metrics(request) : c.startRate \in Int /\ c.key \in Nat
           /\ ~HasDuplicates(request.candidates) =>
                \A c, d \in Metrics(request) : c.key = d.key => c = d
<1>1. request \in Requests
  BY DEF TypeOK
<1>2. request.kind \in Kinds /\ request.amount \in Int /\ request.reserveCount \in Int
  BY <1>1, SolverAssumption
<1>3. /\ IsMarket(Metrics(request))
      /\ \A c \in Metrics(request) : c.startRate \in Int /\ c.key \in Nat
      /\ ~HasDuplicates(request.candidates) =>
           \A c, d \in Metrics(request) : c.key = d.key => c = d
  BY <1>1, <1>2, MetricsType
<1>4. \A M \in SUBSET Metrics(request) : IsMarket(M)
  BY <1>3, FS_Subset DEF IsMarket
<1> QED
  BY <1>2, <1>3, <1>4

LEMMA InitInv == Init => SolverInv
BY DEF Init, SolverInv, TypeOK, FillBound, Served, ReservesAreNextBest, None, Outcomes

LEMMA ThrowInv ==
    ASSUME SolverInv, NEW code \in Outcomes \ {"Route", "Pending"}, Throw(code)
    PROVE  SolverInv'
BY DEF SolverInv, TypeOK, FillBound, Served, ReservesAreNextBest, Throw, Outcomes, Metrics

LEMMA RejectInv ==
    ASSUME SolverInv, Reject
    PROVE  SolverInv'
<1>1. PICK code \in {"InvalidRequest", "DuplicateCandidate", "InsufficientLiquidity"} : Throw(code)
  BY DEF Reject
<1> QED
  BY <1>1, ThrowInv DEF Outcomes

LEMMA SolveAllInv ==
    ASSUME SolverInv, SolveAll
    PROVE  SolverInv'
<1>1. PICK s : /\ s = SolveUnbounded(Metrics(request), request.amount)
               /\ IF s.status = "Solved"
                  THEN /\ available' = Metrics(request)
                       /\ solution' = s
                       /\ UNCHANGED <<request, reserves, outcome>>
                  ELSE Throw(s.status)
  BY DEF SolveAll
<1>2. s.status \in Codes /\ (s.status = "Solved" => Fills(s) \subseteq Metrics(request))
  BY <1>1, SolvedFills
<1>5. s.status = "Solved" => Serves(s, request.amount)
  BY <1>1, RequestMarket, SolvedServes DEF SolverInv
<1>3. CASE s.status = "Solved"
  <2>1. outcome' = "Pending" /\ request' = request /\ solution' = s
        /\ available' = Metrics(request)
    BY <1>1, <1>3 DEF SolveAll
  <2>2. TypeOK' /\ FillBound' /\ ReservesAreNextBest'
    BY <2>1, <1>2, <1>3 DEF SolverInv, TypeOK, FillBound, ReservesAreNextBest, Metrics, Outcomes
  <2>3. Served'
    BY <2>1, <1>3, <1>5 DEF SolveAll, Served, Serves, Fills, Total
  <2> QED
    BY <2>2, <2>3 DEF SolverInv
<1>4. CASE s.status # "Solved"
  BY <1>1, <1>2, <1>4, ThrowInv DEF Codes, Outcomes
<1> QED
  BY <1>3, <1>4

\* What one turn of the loop does: it throws, or it removes one of the
\* filled positions and goes on with a split over the others.
LEMMA RemoveOneStep ==
    ASSUME SolverInv, RemoveOne
    PROVE  \/ \E code \in Outcomes \ {"Route", "Pending"} : Throw(code)
           \/ \E c \in Fills(solution) :
                /\ available' = available \ {c}
                /\ solution'.status = "Solved"
                /\ Fills(solution') \subseteq available \ {c}
                /\ Serves(solution', request.amount)
                /\ UNCHANGED <<request, reserves, outcome>>
<1> DEFINE Rest(c) == SolveUnbounded(available \ {c}, request.amount)
           tried == [c \in Fills(solution) |-> Rest(c)]
           aborted == {c \in Fills(solution) :
                         tried[c].status \notin {"Solved", "InsufficientLiquidity"}}
<1>1. \A c \in Fills(solution) :
         /\ tried[c].status \in Codes
         /\ tried[c].status = "Solved" =>
              Fills(tried[c]) \subseteq available \ {c} /\ Serves(tried[c], request.amount)
  <2> TAKE c \in Fills(solution)
  <2>1. tried[c] = Rest(c)
    OBVIOUS
  <2>2. request.amount \in Int /\ IsMarket(available \ {c})
    BY RequestMarket DEF SolverInv, TypeOK
  <2> HIDE DEF tried
  <2> QED
    BY <2>1, <2>2, SolvedFills, SolvedServes
<1>2. \/ \E c \in aborted : Throw(tried[c].status)
      \/ Throw("MaxFillsExceeded")
      \/ \E c \in Fills(solution) :
           /\ IsBestRemoval(c, tried, request.kind)
           /\ available' = available \ {c}
           /\ solution' = tried[c]
           /\ UNCHANGED <<request, reserves, outcome>>
  BY DEF RemoveOne
<1> HIDE DEF tried
<1>3. CASE \E c \in aborted : Throw(tried[c].status)
  BY <1>1, <1>3 DEF Codes, Outcomes
<1>4. CASE Throw("MaxFillsExceeded")
  BY <1>4 DEF Outcomes
<1>5. CASE \E c \in Fills(solution) :
             /\ IsBestRemoval(c, tried, request.kind)
             /\ available' = available \ {c}
             /\ solution' = tried[c]
             /\ UNCHANGED <<request, reserves, outcome>>
  BY <1>1, <1>5 DEF IsBestRemoval
<1> QED
  BY <1>2, <1>3, <1>4, <1>5

LEMMA RemoveOneInv ==
    ASSUME SolverInv, RemoveOne
    PROVE  SolverInv'
<1>1. CASE \E code \in Outcomes \ {"Route", "Pending"} : Throw(code)
  BY <1>1, ThrowInv
<1>2. CASE \E c \in Fills(solution) :
             /\ available' = available \ {c}
             /\ solution'.status = "Solved"
             /\ Fills(solution') \subseteq available \ {c}
             /\ Serves(solution', request.amount)
             /\ UNCHANGED <<request, reserves, outcome>>
  <2>1. outcome' = "Pending" /\ solution # None
    BY <1>2 DEF RemoveOne, Searching
  <2>2. TypeOK' /\ FillBound' /\ ReservesAreNextBest'
    BY <1>2, <2>1 DEF SolverInv, TypeOK, FillBound, ReservesAreNextBest, Outcomes, Metrics
  <2>3. Served'
    BY <1>2, <2>1 DEF SolverInv, Served, Serves, Fills, Total
  <2> QED
    BY <2>2, <2>3 DEF SolverInv
<1> QED
  BY <1>1, <1>2, RemoveOneStep

LEMMA CertifyInv ==
    ASSUME SolverInv, Certify
    PROVE  SolverInv'
<1>1. UNCHANGED <<request, available, solution>> /\ outcome' = "Route" /\ solution # None
      /\ Cardinality(Fills(solution)) <= request.maxFills
      /\ reserves' = Shortlist(Metrics(request), solution, request.reserveCount)
  BY DEF Certify, Searching
<1>2. TypeOK' /\ FillBound' /\ Served'
  BY <1>1 DEF SolverInv, TypeOK, FillBound, Served, Serves, Outcomes, Metrics, Fills
<1>3. /\ request.reserveCount \in Nat
      /\ ~HasDuplicates(request.candidates)
  <2>1. TypeOK /\ Served
    BY DEF SolverInv
  <2>2. request.reserveCount \in Int
    BY <2>1, RequestMarket
  <2>3. ValidRequest(request) /\ ~HasDuplicates(request.candidates)
    BY <1>1, <2>1 DEF Served
  <2>4. request.reserveCount >= 0
    BY <2>3 DEF ValidRequest
  <2>5. request.reserveCount \in Nat
    BY <2>2, <2>4
  <2> QED
    BY <2>3, <2>5
<1>4. /\ IsFiniteSet(Metrics(request))
      /\ \A c \in Metrics(request) : c.startRate \in Int /\ c.key \in Nat
      /\ \A c, d \in Metrics(request) : c.key = d.key => c = d
  BY <1>3, RequestMarket DEF SolverInv, IsMarket
<1>5. /\ Len(reserves') <= request.reserveCount
      /\ \A i \in DOMAIN reserves' :
           /\ reserves'[i] \in Metrics(request) \ Fills(solution)
           /\ \A c \in Metrics(request) \ (Fills(solution) \cup ToSet(reserves')) :
                c.startRate <= reserves'[i].startRate
  BY <1>1, <1>3, <1>4, ShortlistIsNextBest
<1>6. Metrics(request') = Metrics(request) /\ Fills(solution') = Fills(solution)
      /\ request' = request
  BY <1>1
<1>7. ReservesAreNextBest'
  BY <1>5, <1>6 DEF ReservesAreNextBest, Metrics, Fills, ToSet
<1> QED
  BY <1>2, <1>7 DEF SolverInv

LEMMA NextInv == SolverInv /\ [Next]_vars => SolverInv'
<1> SUFFICES ASSUME SolverInv, [Next]_vars PROVE SolverInv'
  OBVIOUS
<1>1. CASE Reject BY <1>1, RejectInv
<1>2. CASE SolveAll BY <1>2, SolveAllInv
<1>3. CASE RemoveOne BY <1>3, RemoveOneInv
<1>4. CASE Certify BY <1>4, CertifyInv
<1>5. CASE UNCHANGED vars
  BY <1>5 DEF vars, SolverInv, TypeOK, FillBound, Served, Serves, ReservesAreNextBest, Metrics, Fills
<1>6. CASE Finished
  BY <1>6, <1>5 DEF Finished
<1> QED
  BY <1>1, <1>2, <1>3, <1>4, <1>5, <1>6 DEF Next

\* The invariant of the removal loop, for every request and every curve.
THEOREM SolverInvariant == Spec => []SolverInv
BY InitInv, NextInv, PTL DEF Spec

\* The loop only ever splits over eligible positions of the request.
THEOREM SolverTypeOK == Spec => []TypeOK
<1>1. SolverInv => TypeOK
  BY DEF SolverInv
<1> QED
  BY <1>1, SolverInvariant, PTL

\* A certificate never exceeds maxFills and fills only positions that were
\* offered as active, backed, and on the right side and market.
THEOREM SolverRouteIsEligible == Spec => []RouteIsEligible
<1>1. SolverInv => RouteIsEligible
  <2> SUFFICES ASSUME SolverInv, outcome = "Route", NEW c \in Fills(solution)
               PROVE  /\ Cardinality(Fills(solution)) <= request.maxFills
                      /\ \E i \in DOMAIN request.candidates :
                           LET d == request.candidates[i]
                           IN  /\ d.key = c.key
                               /\ d.market = request.market /\ d.side = request.side
                               /\ d.active /\ d.backed
    BY DEF SolverInv, FillBound, RouteIsEligible
  <2>1. c \in Metrics(request)
    BY DEF SolverInv, TypeOK, FillBound
  <2>2. PICK d \in ToSet(request.candidates) :
           Admitted(d, request) /\ c = Measured(d, request.kind)
    BY <2>1 DEF Metrics
  <2>3. PICK i \in DOMAIN request.candidates : d = request.candidates[i]
    BY <2>2 DEF ToSet
  <2>4. c.key = d.key
    BY <2>2 DEF Measured
  <2> QED
    BY <2>2, <2>3, <2>4 DEF Admitted, SolverInv, FillBound
<1> QED
  BY <1>1, SolverInvariant, PTL

\* A certificate's fills add up to the amount asked for, each within what the
\* position has, and its reserves are the best of the others: whatever rate the
\* searches find, and after any number of removals.
THEOREM SolverCertificateIsWhole == Spec => []CertificateIsWhole
<1>1. SolverInv => RouteServesRequest
  BY DEF SolverInv, FillBound, Served, Serves, RouteServesRequest
<1>2. SolverInv => CertificateIsWhole
  BY <1>1 DEF SolverInv, CertificateIsWhole
<1> QED
  BY <1>2, SolverInvariant, PTL

\* Every turn of the removal loop narrows the market, so that the loop ends
\* after at most as many turns as there are positions.
THEOREM SolverEachTurnNarrows == Spec => EachTurnNarrows
<1> DEFINE Narrows ==
      Searching /\ outcome' = "Pending" =>
          /\ available' # available /\ available' \subseteq available
          /\ Fills(solution') \subseteq available'
<1>1. SolverInv /\ [Next]_vars => [Narrows]_vars
  <2> SUFFICES ASSUME SolverInv, Next, Searching, outcome' = "Pending"
               PROVE  /\ available' # available /\ available' \subseteq available
                      /\ Fills(solution') \subseteq available'
    OBVIOUS
  <2>1. CASE RemoveOne
    <3>1. PICK c \in Fills(solution) :
             /\ available' = available \ {c}
             /\ Fills(solution') \subseteq available \ {c}
      BY <2>1, RemoveOneStep DEF Throw
    <3>2. c \in available
      BY <3>1 DEF SolverInv, TypeOK, Searching
    <3> QED
      BY <3>1, <3>2
  <2>2. CASE Reject
    BY <2>2 DEF Reject, Searching
  <2>3. CASE SolveAll
    BY <2>3 DEF SolveAll, Searching
  <2>4. CASE Certify
    BY <2>4 DEF Certify
  <2>5. CASE Finished
    BY <2>5 DEF Finished, Searching
  <2> QED
    BY <2>1, <2>2, <2>3, <2>4, <2>5 DEF Next
<1> QED
  BY <1>1, SolverInvariant, PTL DEF Spec, EachTurnNarrows
-----------------------------------------------------------------------------
(* LiquidityComparison.                                                     *)

\* divCeil is the least multiple from above: it loses nothing.
LEMMA DivCeilCovers ==
    ASSUME NEW a \in Nat, NEW b \in Nat \ {0}
    PROVE  /\ DivCeil(a, b) \in Nat
           /\ DivCeil(a, b) * b >= a
  <1>1. a + b - 1 \in Nat
    BY SMT
  <1>2. /\ (a + b - 1) \div b \in Nat
        /\ a + b - 1 < ((a + b - 1) \div b) * b + b
    BY <1>1, Division
  <1> DEFINE q == ((a + b - 1) \div b) * b
  <1>3. q \in Nat /\ a + b - 1 < q + b
    BY <1>2
  <1>4. q >= a
    <2> HIDE DEF q
    <2> QED BY <1>3
  <1> QED BY <1>2, <1>4 DEF DivCeil

\* The two roundings of an exact-output estimate, in plain numbers: net covers
\* what the reserves x, r + a of a constant product ask for the output a, and
\* gross covers net after a fee that leaves m of B parts.
LEMMA CoveredOutput ==
    ASSUME NEW x \in Nat, NEW r \in Nat, NEW a \in Nat, NEW B \in Nat,
           NEW net \in Nat, NEW g \in Nat, net * r >= x * a, g >= net * B
    PROVE  a * (x * B + g) <= (r + a) * g
  <1>1. /\ net * B \in Nat /\ net * r \in Nat /\ x * a \in Nat
        /\ a * g \in Nat /\ r * g \in Nat
    BY SMT
  <1>2. (net * B) * r <= g * r
    BY <1>1, ProductMonotone
  <1>3. (x * a) * B <= (net * r) * B
    BY <1>1, ProductMonotone
  <1>4. (net * r) * B = (net * B) * r
    BY SMT
  <1>5. (x * a) * B <= r * g
    BY <1>1, <1>2, <1>3, <1>4
  <1>6. a * (x * B + g) = (x * a) * B + a * g
    BY SMT
  <1>7. (r + a) * g = r * g + a * g
    BY SMT
  <1> QED
    BY <1>1, <1>5, <1>6, <1>7

LEMMA CoveredProduct ==
    ASSUME NEW x \in Nat, NEW r \in Nat, NEW a \in Nat, NEW gross \in Nat, NEW net \in Nat,
           net * r >= x * a, net <= gross
    PROVE  (x + gross) * r >= x * (r + a)
  <1>1. net * r <= gross * r /\ net * r \in Nat /\ gross * r \in Nat
    BY ProductMonotone
  <1>2. (x + gross) * r = x * r + gross * r
    BY SMT
  <1>3. x * (r + a) = x * r + x * a
    BY SMT
  <1>4. x * r \in Nat /\ x * a \in Nat
    BY SMT
  <1> QED
    BY <1>1, <1>2, <1>3, <1>4

\* Every estimate for an exact output, whatever the reserves, the amount and
\* the fee, buys that output at the pool's own formula (standard-dex.ts).
THEOREM EveryEstimateIsCovered ==
    ASSUME NEW pool \in [in : Nat, out : Nat], NEW amount \in Nat
    PROVE  EstimateIsCovered(pool, amount)
  <1> SUFFICES ASSUME Quotes(pool, "ExactOutput", amount)
               PROVE  /\ Output(pool, RequiredInput(pool, amount)) >= amount
                      /\ (pool.in + RequiredInput(pool, amount)) * (pool.out - amount)
                           >= pool.in * pool.out
    BY DEF EstimateIsCovered
  <1> DEFINE m == BPS - Fee
             x == pool.in
             r == pool.out - amount
             net == DivCeil(x * amount, r)
             gross == DivCeil(net * BPS, m)
  <1>1. /\ x \in Nat \ {0} /\ r \in Nat \ {0} /\ m \in Nat \ {0}
        /\ BPS \in Nat \ {0} /\ m <= BPS /\ pool.out = r + amount /\ pool.out \in Nat
    BY ComparisonAssumption DEF Quotes
  <1>2. RequiredInput(pool, amount) = gross
    BY DEF RequiredInput
  <1>3. Output(pool, gross) = (pool.out * (gross * m)) \div (x * BPS + gross * m)
    BY DEF Output
  <1> HIDE DEF m, x, r, net, gross
  <1>4. net \in Nat /\ net * r >= x * amount
    <2>1. x * amount \in Nat
      BY <1>1
    <2> QED
      BY <1>1, <2>1, DivCeilCovers DEF net
  <1>5. gross \in Nat /\ gross * m >= net * BPS
    <2>1. net * BPS \in Nat
      BY <1>1, <1>4
    <2> QED
      BY <1>1, <2>1, DivCeilCovers DEF gross
  <1>6. net <= gross
    <2>1. m * net <= BPS * net
      BY <1>1, <1>4, ProductMonotone
    <2>2. net * m <= gross * m
      BY <2>1, <1>1, <1>4, <1>5
    <2> QED
      BY <2>2, <1>1, <1>4, <1>5, CancelFactor
  <1>7. gross * m \in Nat /\ x * BPS \in Nat
    BY <1>1, <1>5
  <1>8. x * BPS + gross * m \in Nat \ {0}
    <2>1. x * BPS > 0
      BY <1>1
    <2> QED
      BY <2>1, <1>7
  <1>9. Output(pool, gross) >= amount
    <2>1. amount * (x * BPS + gross * m) <= (r + amount) * (gross * m)
      BY <1>1, <1>4, <1>5, <1>7, CoveredOutput
    <2>2. (r + amount) * (gross * m) \in Nat
      BY <1>1, <1>7
    <2>3. ((r + amount) * (gross * m)) \div (x * BPS + gross * m) >= amount
      BY <2>1, <2>2, <1>8, QuotientFits
    <2> QED
      BY <2>3, <1>1, <1>3
  <1>10. (x + gross) * r >= x * (r + amount)
    BY <1>1, <1>4, <1>5, <1>6, CoveredProduct
  <1> QED
    BY <1>1, <1>2, <1>9, <1>10 DEF x, r
=============================================================================
