------------------------- MODULE QuotePipelineProofs -------------------------
(***************************************************************************)
(* Proofs about QuotePipeline: what the solver API answers, whatever the    *)
(* chain and the subgraph do between its awaits, for every set of           *)
(* positions, every page size, every lag and every rate.                    *)
(*                                                                         *)
(* The inductive invariant is ChainInv /\ CallInv.  ChainInv relates the    *)
(* blocks: versions only grow along them, and a version stands for one      *)
(* value of what is sold.  CallInv says, stage by stage, what the locals of *)
(* the request have to do with the blocks they were read from.              *)
(***************************************************************************)
EXTENDS QuotePipeline, SumAndRankProofs
-----------------------------------------------------------------------------
(* Raw shares: distributeRawAmounts.                                        *)

LEMMA DivisionBy ==
    ASSUME NEW n \in Nat, NEW d \in Nat \ {0}
    PROVE  /\ n \div d \in Nat /\ (n % d) \in 0 .. d - 1
           /\ n = d * (n \div d) + (n % d)
<1>1. n \in Int /\ d \in Int /\ d > 0
  OBVIOUS
<1>2. n \div d \in Nat /\ (n % d) \in 0 .. d - 1
  OBVIOUS
<1>3. ASSUME NEW m \in Int, NEW e \in Int, e > 0
      PROVE  m = e * (m \div e) + (m % e)
  BY <1>3
<1> QED
  BY <1>1, <1>2, <1>3

Ahead(split, p) ==
    {q \in DOMAIN split : \/ Remainder(split, q) > Remainder(split, p)
                          \/ Remainder(split, q) = Remainder(split, p) /\ q < p}

Floors(split) == [q \in DOMAIN split |-> split[q] \div Scale]

Remainders(split) == [q \in DOMAIN split |-> Remainder(split, q)]

LEMMA RemaindersOrder ==
    ASSUME NEW split, DOMAIN split \subseteq Nat, \A q \in DOMAIN split : split[q] \in Nat,
           Scale \in Nat \ {0}, NEW R, R = ByKey(Remainders(split), DOMAIN split)
    PROVE  /\ Orders(R, DOMAIN split)
           /\ \A p \in DOMAIN split : Below(R, DOMAIN split, p) = Ahead(split, p)
           /\ \A p \in DOMAIN split :
                RoundedUp(split, p) <=>
                  Cardinality(Ahead(split, p))
                    < request.amount - SumFunctionOnSet(Floors(split), DOMAIN split)
<1> DEFINE S == DOMAIN split
           rem == Remainders(split)
<1>1. \A q \in S : rem[q] \in Nat /\ rem[q] = Remainder(split, q)
  BY DivisionBy DEF Remainder, Remainders
<1>2. Orders(R, S) /\ \A p \in S : \A q : q \in Below(R, S, p) <=> q \in S /\ Prior(rem, q, p)
  <2> HIDE DEF S, rem
  <2> QED
    BY <1>1, KeysOrder DEF S, rem
<1>3. ASSUME NEW p \in S PROVE \A q : q \in Ahead(split, p) <=> q \in S /\ Prior(rem, q, p)
  BY <1>1 DEF Ahead, Prior
<1>4. ASSUME NEW p \in S
      PROVE  RoundedUp(split, p) <=>
               Cardinality(Ahead(split, p)) < request.amount - SumFunctionOnSet(Floors(split), S)
  <2>1. DOMAIN Floors(split) = S
    BY DEF Floors
  <2> QED
    BY <2>1 DEF RoundedUp, Ahead, Floors
<1> QED
  BY <1>2, <1>3, <1>4

\* The remainders add up to whole raw units, no more of them than there are
\* positions with a remainder.
LEMMA LeftOver ==
    ASSUME NEW split, IsFiniteSet(DOMAIN split), \A q \in DOMAIN split : split[q] \in Nat,
           Scale \in Nat \ {0}, request.amount \in Nat,
           SumFunctionOnSet(split, DOMAIN split) = AmountWad
    PROVE  /\ SumFunctionOnSet(Floors(split), DOMAIN split) \in Nat
           /\ request.amount - SumFunctionOnSet(Floors(split), DOMAIN split)
                \in 0 .. Cardinality({q \in DOMAIN split : Remainder(split, q) > 0})
<1> DEFINE S == DOMAIN split
           rem == [q \in S |-> Remainder(split, q)]
           mark == [q \in S |-> IF Remainder(split, q) > 0 THEN 1 ELSE 0]
           bound == [q \in S |-> (Scale - 1) * mark[q]]
           zero == [q \in S |-> 0]
           floor == Floors(split)
           some == {q \in S : Remainder(split, q) > 0}
<1>1. \A q \in S : /\ split[q] \in Nat /\ floor[q] \in Nat /\ rem[q] \in 0 .. Scale - 1
                   /\ split[q] = Scale * floor[q] + rem[q]
  BY DivisionBy DEF Floors, Remainder
<1>2. SumFunctionOnSet(split, S) = Scale * SumFunctionOnSet(floor, S) + SumFunctionOnSet(rem, S)
  <2> HIDE DEF S, rem, floor
  <2> QED
    BY <1>1, SumLinear DEF S
<1>3. SumFunctionOnSet(floor, S) \in Nat /\ SumFunctionOnSet(rem, S) \in Nat
  <2> HIDE DEF S, rem, floor
  <2> QED
    BY <1>1, SumNat DEF S
<1>4. \A q \in S : mark[q] \in {0, 1} /\ zero[q] = 0 /\ bound[q] \in Int
                    /\ bound[q] = (Scale - 1) * mark[q] + zero[q]
  BY <1>1
<1>5. \A q \in S : rem[q] <= bound[q]
  <2> SUFFICES ASSUME NEW q \in S PROVE rem[q] <= bound[q]
    OBVIOUS
  <2>1. CASE rem[q] > 0
    BY <1>1, <2>1
  <2>2. CASE rem[q] = 0
    BY <1>1, <2>2
  <2> QED
    BY <1>1, <2>1, <2>2
<1>6. SumFunctionOnSet(rem, S) <= SumFunctionOnSet(bound, S)
  <2>1. \A q \in S : rem[q] \in Int /\ bound[q] \in Int /\ rem[q] <= bound[q]
    BY <1>1, <1>4, <1>5
  <2> HIDE DEF S, rem, bound
  <2> QED
    BY <2>1, SumOrder DEF S
<1>7. SumFunctionOnSet(bound, S) = (Scale - 1) * SumFunctionOnSet(mark, S) + SumFunctionOnSet(zero, S)
  <2> HIDE DEF S, mark, bound, zero
  <2> QED
    BY <1>4, SumLinear DEF S
<1>8. SumFunctionOnSet(zero, S) = 0
  <2>1. SumFunctionOnSet(zero, S) = Cardinality({q \in S : zero[q] = 1})
    BY SumOfMarks
  <2>2. {q \in S : zero[q] = 1} = {}
    OBVIOUS
  <2> QED
    BY <2>1, <2>2, FS_EmptySet
<1>9. SumFunctionOnSet(mark, S) = Cardinality(some) /\ Cardinality(some) \in Nat
  <2>1. \A q \in S : mark[q] \in {0, 1}
    BY <1>4
  <2>2. SumFunctionOnSet(mark, S) = Cardinality({q \in S : mark[q] = 1})
    <3> HIDE DEF S, mark
    <3> QED
      BY <2>1, SumOfMarks DEF S
  <2>3. {q \in S : mark[q] = 1} = some
    OBVIOUS
  <2>4. IsFiniteSet(some)
    BY FS_Subset
  <2> QED
    BY <2>2, <2>3, <2>4, FS_CardinalityType
<1> DEFINE F == SumFunctionOnSet(floor, S)
           m == Cardinality(some)
           k == request.amount - F
<1>10. request.amount * Scale = Scale * F + SumFunctionOnSet(rem, S)
  BY <1>2 DEF AmountWad
<1>11. SumFunctionOnSet(rem, S) <= (Scale - 1) * m
  BY <1>6, <1>7, <1>8, <1>9
<1>12. F \in Nat /\ m \in Nat /\ SumFunctionOnSet(rem, S) \in Nat /\ k \in Int
  BY <1>3, <1>9
<1> HIDE DEF F, m, S, rem, some, floor
<1>13. Scale * k = SumFunctionOnSet(rem, S)
  <2>1. Scale * k = request.amount * Scale - Scale * F
    BY <1>12
  <2> QED
    BY <1>10, <1>12, <2>1
<1>14. k >= 0
  BY <1>12, <1>13
<1>15. k <= m
  <2>1. Scale * k <= (Scale - 1) * m
    BY <1>11, <1>13
  <2>2. ASSUME k > m PROVE FALSE
    <3>1. Scale * k >= Scale * (m + 1)
      BY <1>12, <2>2
    <3>2. Scale * (m + 1) > (Scale - 1) * m
      BY <1>12
    <3>3. Scale * k \in Int /\ Scale * (m + 1) \in Int /\ (Scale - 1) * m \in Int
      BY <1>12
    <3> HIDE DEF k
    <3> QED
      BY <2>1, <3>1, <3>2, <3>3
  <2> QED
    BY <1>12, <2>2
<1> QED
  BY <1>12, <1>14, <1>15 DEF F, m, S, some, floor

\* Exactly as many shares are rounded up as raw units are left over, and only
\* shares with a remainder.
LEMMA SharesAddUp ==
    ASSUME NEW split, IsFiniteSet(DOMAIN split), DOMAIN split \subseteq Nat,
           \A q \in DOMAIN split : split[q] \in Nat,
           Scale \in Nat \ {0}, request.amount \in Nat,
           SumFunctionOnSet(split, DOMAIN split) = AmountWad,
           NEW shares, shares = [p \in DOMAIN split |-> Share(split, p)]
    PROVE  /\ SumFunctionOnSet(shares, DOMAIN split) = request.amount
           /\ \A p \in DOMAIN split :
                /\ shares[p] \in Nat /\ shares[p] <= request.amount
                /\ shares[p] * Scale - split[p] \in (1 - Scale) .. (Scale - 1)
<1> DEFINE S == DOMAIN split
           R == ByKey(Remainders(split), S)
           floor == Floors(split)
           k == request.amount - SumFunctionOnSet(floor, S)
           up == [p \in S |-> IF RoundedUp(split, p) THEN 1 ELSE 0]
           some == {q \in S : Remainder(split, q) > 0}
<1>1. /\ Orders(R, S)
      /\ \A p \in S : Below(R, S, p) = Ahead(split, p)
      /\ \A p \in S : RoundedUp(split, p) <=> Cardinality(Ahead(split, p)) < k
  BY RemaindersOrder
<1>2. SumFunctionOnSet(floor, S) \in Nat /\ k \in 0 .. Cardinality(some)
  BY LeftOver
<1>3. /\ IsFiniteSet(some) /\ Cardinality(some) \in Nat /\ Cardinality(S) \in Nat
      /\ Cardinality(some) <= Cardinality(S)
  <2>1. some \in SUBSET S
    OBVIOUS
  <2> QED
    BY <2>1, FS_Subset, FS_CardinalityType
<1>4. \A q \in S : /\ split[q] \in Nat /\ floor[q] \in Nat
                   /\ Remainder(split, q) \in 0 .. Scale - 1
                   /\ split[q] = Scale * floor[q] + Remainder(split, q)
  BY DivisionBy DEF Floors, Remainder
<1>5. SumFunctionOnSet(up, S) = k
  <2>1. {p \in S : up[p] = 1} = {p \in S : Cardinality(Below(R, S, p)) < k}
    BY <1>1
  <2>2. \A p \in S : up[p] \in {0, 1}
    OBVIOUS
  <2>3. k \in 0 .. Cardinality(S)
    BY <1>2, <1>3
  <2>4. Cardinality({p \in S : Cardinality(Below(R, S, p)) < k}) = k
    <3> HIDE DEF S, R, k
    <3> QED
      BY <1>1, <2>3, FirstRanks DEF S
  <2>5. SumFunctionOnSet(up, S) = Cardinality({p \in S : up[p] = 1})
    <3> HIDE DEF S, up
    <3> QED
      BY <2>2, SumOfMarks DEF S
  <2> QED
    BY <2>1, <2>4, <2>5
<1>6. \A p \in S : up[p] \in {0, 1} /\ shares[p] = 1 * floor[p] + up[p]
  BY <1>4 DEF Share, Floors
<1>7. SumFunctionOnSet(shares, S) = 1 * SumFunctionOnSet(floor, S) + SumFunctionOnSet(up, S)
  <2>1. \A p \in S : floor[p] \in Int /\ up[p] \in Int /\ shares[p] = 1 * floor[p] + up[p]
    BY <1>4, <1>6
  <2> HIDE DEF S, floor, up
  <2> QED
    BY <2>1, SumLinear DEF S
<1>8. SumFunctionOnSet(shares, S) = request.amount
  BY <1>2, <1>5, <1>7
<1>9. \A p \in S : shares[p] \in Nat /\ shares[p] <= request.amount
  <2>1. \A p \in S : shares[p] \in Nat
    BY <1>4, <1>6
  <2> HIDE DEF S
  <2> QED
    BY <1>8, <2>1, SumNat DEF S
<1>10. ASSUME NEW p \in S, RoundedUp(split, p) PROVE Remainder(split, p) > 0
  <2> SUFFICES ASSUME Remainder(split, p) = 0 PROVE FALSE
    BY <1>4
  <2>1. some \in SUBSET Ahead(split, p)
    BY DEF Ahead
  <2>2. IsFiniteSet(Ahead(split, p))
    <3>1. Ahead(split, p) \in SUBSET S
      BY DEF Ahead
    <3> QED
      BY <3>1, FS_Subset
  <2>3. Cardinality(some) <= Cardinality(Ahead(split, p)) /\ Cardinality(Ahead(split, p)) \in Nat
    BY <2>1, <2>2, FS_Subset, FS_CardinalityType
  <2> QED
    BY <1>1, <1>2, <1>3, <1>10, <2>3
<1>11. ASSUME NEW p \in S PROVE shares[p] * Scale - split[p] \in (1 - Scale) .. (Scale - 1)
  <2> DEFINE f == floor[p]
             r == Remainder(split, p)
  <2>1. f \in Nat /\ r \in 0 .. Scale - 1 /\ split[p] = Scale * f + r
    BY <1>4
  <2>2. shares[p] = f + up[p] /\ up[p] \in {0, 1} /\ (up[p] = 1 => r > 0)
    BY <1>6, <1>10, <2>1
  <2> HIDE DEF f, r, up
  <2>3. CASE up[p] = 0
    <3>1. shares[p] * Scale = Scale * f
      BY <2>1, <2>2, <2>3
    <3>2. Scale * f \in Int
      BY <2>1
    <3> QED
      BY <2>1, <3>1, <3>2
  <2>4. CASE up[p] = 1
    <3>1. shares[p] * Scale = Scale * f + Scale
      BY <2>1, <2>2, <2>4
    <3>2. Scale * f \in Int
      BY <2>1
    <3> QED
      BY <2>1, <2>2, <2>4, <3>1, <3>2
  <2> QED
    BY <2>2, <2>3, <2>4
<1> QED
  BY <1>8, <1>9, <1>11
-----------------------------------------------------------------------------
(* The limit: applySlippage.                                                *)

LEMMA ProductOrder ==
    ASSUME NEW t \in Nat, NEW c \in Nat, NEW d \in Nat
    PROVE  /\ t * c \in Nat /\ t * d \in Nat
           /\ c <= d => t * c <= t * d
OBVIOUS

\* Quotients compare as the multiples of the divisor around the dividend.
LEMMA QuotientOrder ==
    ASSUME NEW t \in Nat, NEW q \in Nat, NEW d \in Nat \ {0}, NEW n \in Nat, NEW r \in 0 .. d - 1,
           n = d * q + r
    PROVE  /\ n <= t * d => q <= t
           /\ t * d + d - 1 <= n => t <= q
<1>1. d * q \in Nat /\ d * t \in Nat /\ d * t = t * d
  BY ProductOrder
<1>2. ASSUME n <= t * d, t + 1 <= q PROVE FALSE
  <2>1. d * (t + 1) <= d * q /\ d * (t + 1) = d * t + d
    BY <1>2, ProductOrder
  <2> QED
    BY <1>1, <1>2, <2>1
<1>3. ASSUME t * d + d - 1 <= n, q + 1 <= t PROVE FALSE
  <2>1. d * (q + 1) <= d * t /\ d * (q + 1) = d * q + d
    BY <1>3, ProductOrder
  <2> QED
    BY <1>1, <1>3, <2>1
<1> QED
  BY <1>2, <1>3

\* A fraction below one of t, rounded down, and one above it, rounded up.
LEMMA FractionOrder ==
    ASSUME NEW t \in Nat, NEW c \in Nat, NEW d \in Nat \ {0}
    PROVE  /\ c <= d => (t * c) \div d <= t
           /\ d <= c => t <= (t * c + d - 1) \div d
<1>1. ASSUME c <= d PROVE (t * c) \div d <= t
  <2> DEFINE n == t * c
             q == n \div d
  <2>1. n \in Nat /\ n <= t * d
    BY <1>1, ProductOrder
  <2> HIDE DEF n
  <2>2. q \in Nat /\ n % d \in 0 .. d - 1 /\ n = d * q + (n % d)
    BY <2>1, DivisionBy
  <2> HIDE DEF q
  <2>3. q <= t
    BY <2>1, <2>2, QuotientOrder
  <2> QED
    BY <2>3 DEF n, q
<1>2. ASSUME d <= c PROVE t <= (t * c + d - 1) \div d
  <2> DEFINE n == t * c + d - 1
             q == n \div d
  <2>1. n \in Nat /\ t * d + d - 1 <= n
    BY <1>2, ProductOrder
  <2> HIDE DEF n
  <2>2. q \in Nat /\ n % d \in 0 .. d - 1 /\ n = d * q + (n % d)
    BY <2>1, DivisionBy
  <2> HIDE DEF q
  <2>3. t <= q
    BY <2>1, <2>2, QuotientOrder
  <2> QED
    BY <2>3 DEF n, q
<1> QED
  BY <1>1, <1>2

\* The limit is on the far side of what is quoted: no less than that comes out
\* of an exact input, no more of it goes into an exact output.
LEMMA LimitAllowsQuote ==
    ASSUME NEW total \in Nat, request.slippageBps \in 0 .. Basis
    PROVE  IF request.kind = "ExactInput" THEN total >= Limit(total) ELSE total <= Limit(total)
<1>1. PICK b \in 0 .. Basis : b = request.slippageBps
  OBVIOUS
<1>2. /\ Basis \in Nat \ {0} /\ Basis - b \in Nat /\ Basis - b <= Basis
      /\ Basis + b \in Nat /\ Basis <= Basis + b
  <2>1. Basis \in Nat \ {0}
    <3>1. \A m : m = 10000 => m \in Nat \ {0}
      OBVIOUS
    <3> QED
      BY ONLY <3>1 DEF Basis
  <2> HIDE DEF Basis
  <2> QED
    BY <2>1
<1>3. (total * (Basis - b)) \div Basis <= total
  BY <1>2, FractionOrder
<1>4. total <= (total * (Basis + b) + Basis - 1) \div Basis
  BY <1>2, FractionOrder
<1> QED
  BY <1>1, <1>3, <1>4 DEF Limit, DivUp
-----------------------------------------------------------------------------
(* The chain.                                                               *)

Bounded(s) == \A p \in Positions : s.sold[p] <= Capacity[p]

\* States that blocks hold.
Sound == {s \in States : Bounded(s)}

\* What is later on one chain: versions grow, and an unchanged version means
\* an unchanged side.
Follows(s, u) ==
    \A p \in Positions : /\ s.version[p] <= u.version[p]
                         /\ s.version[p] = u.version[p] => s.sold[p] = u.sold[p]

ChainInv ==
    /\ blocks \in Seq(Sound) /\ Len(blocks) \in 1 .. MaxBlocks
    /\ \A i, j \in DOMAIN blocks : i <= j => Follows(blocks[i], blocks[j])
    /\ reorged \in BOOLEAN
    /\ index.height \in DOMAIN blocks /\ index.state \in Sound
    /\ ~reorged => index.state = blocks[index.height]
    /\ request \in Requests

\* What a step of the others leaves of the chain for a request in progress.
Grows ==
    /\ Len(blocks) <= Len(blocks')
    /\ ~reorged' => ~reorged /\ \A i \in DOMAIN blocks : blocks'[i] = blocks[i]
    /\ request' = request

LEMMA FollowsIsPreorder ==
    ASSUME NEW s \in Sound, NEW u \in Sound, NEW w \in Sound
    PROVE  Follows(s, s) /\ (Follows(s, u) /\ Follows(u, w) => Follows(s, w))
<1>1. \A p \in Positions : s.version[p] \in Nat /\ u.version[p] \in Nat /\ w.version[p] \in Nat
  BY DEF Sound, States
<1> QED
  BY <1>1 DEF Follows

LEMMA DepthType ==
    ASSUME NEW s \in Sound, NEW p \in Positions
    PROVE  /\ s.sold[p] \in 0 .. Capacity[p] /\ s.version[p] \in Nat /\ Capacity[p] \in Nat
           /\ s.active[p] \in BOOLEAN
           /\ Depth(s, p) \in Nat /\ Depth(s, p) <= Capacity[p]
           /\ Price(p, s.sold[p]) \in Nat /\ Outgoing(p, s.sold[p]) \in Nat
<1>1. s.sold[p] \in Nat /\ s.version[p] \in Nat /\ s.active[p] \in BOOLEAN
  BY DEF Sound, States
<1>2. Capacity[p] \in Nat
  BY QuotePipelineAssumption
<1>3. s.sold[p] <= Capacity[p]
  BY DEF Sound, Bounded
<1>4. s.sold[p] \in 0 .. Capacity[p]
  BY <1>1, <1>2, <1>3
<1>5. Price(p, s.sold[p]) \in Nat /\ Outgoing(p, s.sold[p]) \in Nat
  BY <1>4, QuotePipelineAssumption
<1> QED
  BY <1>1, <1>2, <1>4, <1>5 DEF Depth

\* What a transaction makes of the runtime of a side.
LEMMA SideStep ==
    ASSUME NEW s \in Sound, NEW p \in Positions, NEW n \in Nat, n <= Capacity[p],
           NEW m \in Makers, NEW f \in Nat, NEW u \in
             {[s EXCEPT !.version[p] = @ + 1, !.sold[p] = n],
              [s EXCEPT !.version[p] = @ + 1, !.sold[p] = n, !.funds[m] = f]}
    PROVE  u \in Sound /\ Follows(s, u)
<1> DEFINE version == [s.version EXCEPT ![p] = @ + 1]
           sold == [s.sold EXCEPT ![p] = n]
           funds == [s.funds EXCEPT ![m] = f]
<1>1. s = [version |-> s.version, sold |-> s.sold, active |-> s.active, funds |-> s.funds]
      /\ s.version \in [Positions -> Nat] /\ s.sold \in [Positions -> Nat]
      /\ s.active \in [Positions -> BOOLEAN] /\ s.funds \in [Makers -> Nat]
  BY DEF Sound, States
<1>2. \/ u = [version |-> version, sold |-> sold, active |-> s.active, funds |-> s.funds]
      \/ u = [version |-> version, sold |-> sold, active |-> s.active, funds |-> funds]
  BY <1>1
<1>3. version \in [Positions -> Nat] /\ sold \in [Positions -> Nat] /\ funds \in [Makers -> Nat]
  BY <1>1
<1>4. u \in States /\ u.version = version /\ u.sold = sold
  <2> HIDE DEF version, sold, funds
  <2> QED
    BY <1>1, <1>2, <1>3 DEF States
<1>5. \A q \in Positions : s.sold[q] <= Capacity[q] /\ s.version[q] \in Nat
  BY DepthType
<1>6. Bounded(u)
  BY <1>1, <1>4, <1>5 DEF Bounded
<1>7. Follows(s, u)
  <2> SUFFICES ASSUME NEW q \in Positions
               PROVE  /\ s.version[q] <= u.version[q]
                      /\ s.version[q] = u.version[q] => s.sold[q] = u.sold[q]
    BY DEF Follows
  <2>1. CASE q = p
    <3>1. u.version[q] = s.version[q] + 1
      BY <1>1, <1>4, <2>1
    <3> QED
      BY <1>5, <3>1
  <2>2. CASE q # p
    <3>1. u.version[q] = s.version[q] /\ u.sold[q] = s.sold[q]
      BY <1>1, <1>4, <2>2
    <3> QED
      BY <1>5, <3>1
  <2> QED
    BY <2>1, <2>2
<1> QED
  BY <1>4, <1>6, <1>7 DEF Sound

LEMMA AfterFollows ==
    ASSUME NEW s \in Sound, NEW t \in Transactions
    PROVE  After(s, t) \in Sound /\ Follows(s, After(s, t))
<1>1. s = [version |-> s.version, sold |-> s.sold, active |-> s.active, funds |-> s.funds]
      /\ s.version \in [Positions -> Nat] /\ s.sold \in [Positions -> Nat]
      /\ s.active \in [Positions -> BOOLEAN] /\ s.funds \in [Makers -> Nat] /\ Bounded(s)
  BY DEF Sound, States
<1>2. s \in Sound /\ Follows(s, s)
  BY FollowsIsPreorder
<1>3. \/ t \in [type : {"Take", "Recycle"}, position : Positions, amount : Nat]
      \/ t \in [type : {"Dock"}, position : Positions]
      \/ t \in [type : {"Withdraw"}, maker : Makers]
      \/ t \in [type : {"Empty"}]
  BY QuotePipelineAssumption
<1>4. CASE t \in [type : {"Take", "Recycle"}, position : Positions, amount : Nat]
  <2> DEFINE p == t.position
  <2>1. p \in Positions /\ t.amount \in Nat /\ MakerOf[p] \in Makers
        /\ t.type \in {"Take", "Recycle"}
    BY <1>4, QuotePipelineAssumption
  <2>2. s.sold[p] \in 0 .. Capacity[p] /\ Capacity[p] \in Nat /\ s.active[p] \in BOOLEAN
        /\ Depth(s, p) = Capacity[p] - s.sold[p] /\ s.funds[MakerOf[p]] \in Nat
    BY <1>1, <2>1, DepthType DEF Depth
  <2>3. CASE t.type = "Take" /\ s.active[p] /\ t.amount <= Depth(s, p)
    <3> DEFINE sold == s.sold[p] + t.amount
               paid == Outgoing(p, s.sold[p]) - Outgoing(p, sold)
               u == [s EXCEPT !.version[p] = @ + 1, !.sold[p] = sold,
                              !.funds[MakerOf[p]] = @ - paid]
    <3>1. After(s, t) = IF paid > s.funds[MakerOf[p]] THEN s ELSE u
      BY <2>3 DEF After
    <3>2. sold \in Nat /\ sold <= Capacity[p]
      BY <2>1, <2>2, <2>3
    <3>3. Outgoing(p, s.sold[p]) \in Nat /\ Outgoing(p, sold) \in Nat
      <4>1. p \in Positions /\ s.sold[p] \in 0 .. Capacity[p] /\ sold \in 0 .. Capacity[p]
        BY <2>1, <2>2, <3>2
      <4> HIDE DEF p, sold
      <4> QED
        BY <4>1, QuotePipelineAssumption
    <3>4. CASE ~(paid > s.funds[MakerOf[p]])
      <4>1. s.funds[MakerOf[p]] - paid \in Nat
        BY <2>2, <3>3, <3>4
      <4>2. u = [s EXCEPT !.version[p] = @ + 1, !.sold[p] = sold,
                          !.funds[MakerOf[p]] = s.funds[MakerOf[p]] - paid]
        BY <1>1
      <4>3. u \in Sound /\ Follows(s, u)
        <5> HIDE DEF u, sold, paid, p
        <5> QED
          BY <2>1, <3>2, <4>1, <4>2, SideStep
      <4> QED
        BY <3>1, <3>4, <4>3
    <3> QED
      BY <1>2, <3>1, <3>4
  <2>4. CASE t.type = "Recycle" /\ s.active[p] /\ t.amount <= s.sold[p]
    <3> DEFINE u == [s EXCEPT !.version[p] = @ + 1, !.sold[p] = s.sold[p] - t.amount]
    <3>1. After(s, t) = u
      BY <1>1, <2>4 DEF After
    <3>2. s.sold[p] - t.amount \in Nat /\ s.sold[p] - t.amount <= Capacity[p]
      BY <2>1, <2>2, <2>4
    <3>3. u \in Sound /\ Follows(s, u)
      BY <2>1, <2>2, <3>2, SideStep
    <3> QED
      BY <3>1, <3>3
  <2>5. CASE /\ ~(t.type = "Take" /\ s.active[p] /\ t.amount <= Depth(s, p))
             /\ ~(t.type = "Recycle" /\ s.active[p] /\ t.amount <= s.sold[p])
    <3>1. After(s, t) = s
      BY <2>1, <2>5 DEF After
    <3> QED
      BY <1>2, <3>1
  <2> QED
    BY <2>3, <2>4, <2>5
<1>5. CASE t \in [type : {"Dock"}, position : Positions]
  <2> DEFINE u == [s EXCEPT !.active[t.position] = FALSE]
  <2>1. After(s, t) = u
    BY <1>5 DEF After
  <2>2. u \in States /\ u.version = s.version /\ u.sold = s.sold
    BY <1>1, <1>5 DEF States
  <2>3. u \in Sound /\ Follows(s, u)
    BY <1>1, <1>2, <2>2 DEF Sound, Bounded, Follows
  <2> QED
    BY <2>1, <2>3
<1>6. CASE t \in [type : {"Withdraw"}, maker : Makers]
  <2> DEFINE u == [s EXCEPT !.funds[t.maker] = 0]
  <2>1. After(s, t) = u
    BY <1>6 DEF After
  <2>2. u \in States /\ u.version = s.version /\ u.sold = s.sold
    BY <1>1, <1>6 DEF States
  <2>3. u \in Sound /\ Follows(s, u)
    BY <1>1, <1>2, <2>2 DEF Sound, Bounded, Follows
  <2> QED
    BY <2>1, <2>3
<1>7. CASE t \in [type : {"Empty"}]
  <2>1. After(s, t) = s
    BY <1>7 DEF After
  <2> QED
    BY <1>2, <2>1
<1> QED
  BY <1>3, <1>4, <1>5, <1>6, <1>7

LEMMA ChainStarts == Init => ChainInv
<1> SUFFICES ASSUME Init PROVE ChainInv
  OBVIOUS
<1>1. Genesis \in Sound
  BY QuotePipelineAssumption DEF Genesis, Sound, States, Bounded
<1>2. blocks = <<Genesis>> /\ blocks \in Seq(Sound) /\ Len(blocks) = 1 /\ DOMAIN blocks = {1}
      /\ blocks[1] = Genesis
  BY <1>1 DEF Init
<1>3. Follows(Genesis, Genesis)
  BY <1>1, FollowsIsPreorder
<1>4. MaxBlocks \in Nat \ {0}
  BY QuotePipelineAssumption
<1>5. reorged = FALSE /\ index.height = 1 /\ index.state = Genesis /\ request \in Requests
  BY DEF Init
<1>6. \A i, j \in DOMAIN blocks : i <= j => Follows(blocks[i], blocks[j])
  BY <1>2, <1>3
<1>7. Len(blocks) \in 1 .. MaxBlocks
  BY <1>2, <1>4
<1> QED
  BY <1>1, <1>2, <1>5, <1>6, <1>7 DEF ChainInv

\* A block behind the others: a mined one, or one that takes the place of the
\* last.
LEMMA ChainExtends ==
    ASSUME NEW bs \in Seq(Sound), Len(bs) > 0, NEW t \in Transactions,
           \A i, j \in DOMAIN bs : i <= j => Follows(bs[i], bs[j]),
           NEW cs, cs = Append(bs, After(bs[Len(bs)], t))
    PROVE  /\ cs \in Seq(Sound) /\ Len(cs) = Len(bs) + 1
           /\ \A i \in DOMAIN bs : cs[i] = bs[i]
           /\ \A i, j \in DOMAIN cs : i <= j => Follows(cs[i], cs[j])
<1> DEFINE n == Len(bs)
           u == After(bs[n], t)
<1>1. n \in Nat /\ n \in DOMAIN bs /\ DOMAIN bs = 1 .. n /\ bs[n] \in Sound
  OBVIOUS
<1>2. u \in Sound /\ Follows(bs[n], u)
  BY <1>1, AfterFollows
<1> HIDE DEF u
<1>3. cs \in Seq(Sound) /\ Len(cs) = n + 1 /\ DOMAIN cs = 1 .. n + 1
      /\ cs[n + 1] = u /\ \A i \in 1 .. n : cs[i] = bs[i]
  BY <1>1, <1>2 DEF u
<1>4. ASSUME NEW i \in DOMAIN cs, NEW j \in DOMAIN cs, i <= j PROVE Follows(cs[i], cs[j])
  <2>1. CASE j <= n
    BY <1>1, <1>3, <1>4, <2>1
  <2>2. CASE j = n + 1 /\ i <= n
    <3>1. i \in DOMAIN bs /\ cs[i] = bs[i] /\ bs[i] \in Sound
      BY <1>1, <1>3, <2>2
    <3>2. Follows(bs[i], bs[n])
      BY <1>1, <3>1
    <3> QED
      BY <1>1, <1>2, <1>3, <2>2, <3>1, <3>2, FollowsIsPreorder
  <2>3. CASE j = n + 1 /\ i = n + 1
    BY <1>2, <1>3, <2>3, FollowsIsPreorder
  <2> QED
    BY <1>1, <1>3, <1>4, <2>1, <2>2, <2>3
<1> QED
  BY <1>1, <1>3, <1>4

LEMMA OthersStep ==
    ASSUME ChainInv, Mine \/ Reorganise \/ Index
    PROVE  ChainInv' /\ Grows
<1>1. CASE Mine
  <2>1. PICK t \in Transactions : blocks' = Append(blocks, After(blocks[Len(blocks)], t))
    BY <1>1 DEF Mine, Latest, Last
  <2>2. UNCHANGED <<reorged, index, request>> /\ Len(blocks) < MaxBlocks
    BY <1>1 DEF Mine
  <2>3. /\ blocks' \in Seq(Sound) /\ Len(blocks') = Len(blocks) + 1
        /\ \A i \in DOMAIN blocks : blocks'[i] = blocks[i]
        /\ \A i, j \in DOMAIN blocks' : i <= j => Follows(blocks'[i], blocks'[j])
    BY <2>1, ChainExtends DEF ChainInv
  <2>4. DOMAIN blocks = 1 .. Len(blocks) /\ DOMAIN blocks' = 1 .. Len(blocks')
        /\ Len(blocks) \in Nat /\ MaxBlocks \in Nat
    BY <2>3, QuotePipelineAssumption DEF ChainInv
  <2>5. Len(blocks') \in 1 .. MaxBlocks /\ DOMAIN blocks \subseteq DOMAIN blocks'
    BY <2>2, <2>3, <2>4
  <2>6. ChainInv'
    BY <2>2, <2>3, <2>5 DEF ChainInv
  <2> QED
    BY <2>2, <2>3, <2>4, <2>6 DEF Grows
<1>2. CASE Reorganise
  <2> DEFINE n == Len(blocks)
             bs == Front(blocks)
  <2>1. PICK t \in Transactions : blocks' = Append(bs, After(blocks[n - 1], t))
    BY <1>2 DEF Reorganise
  <2>2. reorged' = TRUE /\ UNCHANGED <<index, request>> /\ n > 1
    BY <1>2 DEF Reorganise
  <2>3. n \in Nat /\ n \in 1 .. MaxBlocks /\ DOMAIN blocks = 1 .. n
    BY QuotePipelineAssumption DEF ChainInv
  <2>4. /\ bs \in Seq(Sound) /\ Len(bs) = n - 1 /\ DOMAIN bs = 1 .. n - 1
        /\ \A i \in 1 .. n - 1 : bs[i] = blocks[i]
    BY <2>2, <2>3 DEF ChainInv, Front
  <2> HIDE DEF bs
  <2>5. blocks' = Append(bs, After(bs[Len(bs)], t)) /\ Len(bs) > 0
    BY <2>1, <2>2, <2>3, <2>4
  <2>6. \A i, j \in DOMAIN bs : i <= j => Follows(bs[i], bs[j])
    BY <2>3, <2>4 DEF ChainInv
  <2>7. /\ blocks' \in Seq(Sound) /\ Len(blocks') = n
        /\ \A i, j \in DOMAIN blocks' : i <= j => Follows(blocks'[i], blocks'[j])
    <3>1. /\ blocks' \in Seq(Sound) /\ Len(blocks') = Len(bs) + 1
          /\ \A i, j \in DOMAIN blocks' : i <= j => Follows(blocks'[i], blocks'[j])
      BY <2>4, <2>5, <2>6, ChainExtends
    <3> QED
      BY <2>3, <2>4, <3>1
  <2>8. DOMAIN blocks' = DOMAIN blocks
    BY <2>3, <2>7
  <2>9. ChainInv'
    BY <2>2, <2>3, <2>7, <2>8 DEF ChainInv
  <2> QED
    BY <2>2, <2>3, <2>7, <2>9 DEF Grows
<1>3. CASE Index
  <2>1. PICK height \in DOMAIN blocks : index' = [height |-> height, state |-> blocks[height]]
    BY <1>3 DEF Index
  <2>2. UNCHANGED <<blocks, reorged, request>>
    BY <1>3 DEF Index
  <2>3. index'.height = height /\ index'.state = blocks[height] /\ blocks[height] \in Sound
    BY <2>1 DEF ChainInv
  <2>4. ChainInv'
    BY <2>1, <2>2, <2>3 DEF ChainInv
  <2>5. Len(blocks) \in Nat
    BY DEF ChainInv
  <2> QED
    BY <2>2, <2>4, <2>5 DEF Grows
<1> QED
  BY <1>1, <1>2, <1>3
-----------------------------------------------------------------------------
(* The candidates of one block, page by page.                               *)

SideRows == [position : Positions, depth : Nat]

\* The rows of the first sides of the answer.
RowsUpTo(s, n) ==
    [i \in 1 .. n |-> [position |-> Listed(s)[i], depth |-> Depth(s, Listed(s)[i])]]

SidePrices(s) == [p \in Positions |-> Price(p, s.sold[p])]

\* The answer lists every offered side once, those of a better price before it.
LEMMA ListedIsRanking ==
    ASSUME NEW s \in Sound
    PROVE  /\ Cardinality(Offered(s)) \in Nat
           /\ Listed(s) \in Seq(Positions) /\ Len(Listed(s)) = Cardinality(Offered(s))
           /\ ToSet(Listed(s)) = Offered(s)
           /\ \A i \in DOMAIN Listed(s) : Cardinality(ListedBefore(s, Listed(s)[i])) = i - 1
<1>0. PICK O, key : O = Offered(s) /\ key = SidePrices(s)
  OBVIOUS
<1> DEFINE n == Cardinality(O)
<1>1. O \subseteq Positions /\ O \subseteq Nat /\ IsFiniteSet(O)
  <2>1. O \in SUBSET Positions
    BY <1>0 DEF Offered
  <2> QED
    BY <2>1, QuotePipelineAssumption, FS_Subset
<1>2. \A p \in O : key[p] \in Nat /\ key[p] = Price(p, s.sold[p])
  BY <1>0, <1>1, DepthType DEF SidePrices
<1>3. PICK R : R = ByKey(key, O)
  OBVIOUS
<1>4. Orders(R, O) /\ \A p \in O : \A q : q \in Below(R, O, p) <=> q \in O /\ Prior(key, q, p)
  <2>1. O \subseteq Nat
    BY <1>1
  <2>2. \A p \in O : key[p] \in Nat
    BY <1>2
  <2> QED
    BY <1>3, <2>1, <2>2, KeysOrder
<1>5. ASSUME NEW p \in O PROVE Below(R, O, p) = ListedBefore(s, p)
  BY <1>0, <1>2, <1>4 DEF ListedBefore, Prior
<1>6. PICK rank : rank = [p \in O |-> Cardinality(Below(R, O, p))]
  OBVIOUS
<1>7. /\ n \in Nat
      /\ \A p \in O : rank[p] \in 0 .. n - 1
      /\ \A p, q \in O : p # q => rank[p] # rank[q]
      /\ \A i \in 0 .. n - 1 : \E p \in O : rank[p] = i
  <2>1. IsFiniteSet(O) /\ Orders(R, O)
    BY <1>1, <1>4
  <2> QED
    BY <1>6, <2>1, RanksAreDistinct
<1>8. \A p \in O : rank[p] = Cardinality(ListedBefore(s, p))
  BY <1>5, <1>6
<1>9. Listed(s) = [i \in 1 .. n |-> CHOOSE p \in O : Cardinality(ListedBefore(s, p)) = i - 1]
  BY <1>0 DEF Listed
<1>10. ASSUME NEW i \in 1 .. n
       PROVE  Listed(s)[i] \in O /\ Cardinality(ListedBefore(s, Listed(s)[i])) = i - 1
  <2>1. i - 1 \in 0 .. n - 1
    BY <1>7
  <2>2. \E p \in O : Cardinality(ListedBefore(s, p)) = i - 1
    BY <1>7, <1>8, <2>1
  <2>3. Listed(s)[i] = CHOOSE p \in O : Cardinality(ListedBefore(s, p)) = i - 1
    BY <1>9
  <2> QED
    BY <2>2, <2>3
<1>11. ASSUME NEW p \in O PROVE \E i \in 1 .. n : Listed(s)[i] = p
  <2> DEFINE i == rank[p] + 1
  <2>1. i \in 1 .. n /\ i - 1 = rank[p]
    BY <1>7
  <2>2. Listed(s)[i] \in O /\ rank[Listed(s)[i]] = rank[p]
    BY <1>8, <1>10, <2>1
  <2>3. Listed(s)[i] = p
    BY <1>7, <2>2
  <2> QED
    BY <2>1, <2>3
<1>12. DOMAIN Listed(s) = 1 .. n
  BY <1>9
<1>13. Listed(s) \in Seq(Positions) /\ Len(Listed(s)) = n
  <2>1. Listed(s) \in [1 .. n -> Positions]
    BY <1>1, <1>9, <1>10
  <2> QED
    BY <1>7, <2>1
<1>14. ToSet(Listed(s)) = O
  BY <1>10, <1>11, <1>12 DEF ToSet
<1> QED
  BY <1>0, <1>7, <1>10, <1>12, <1>13, <1>14

LEMMA MinMaxOfTwo ==
    ASSUME NEW a \in Int, NEW b \in Int
    PROVE  /\ Max({a, b}) = IF a >= b THEN a ELSE b
           /\ Min({a, b}) = IF a <= b THEN a ELSE b
<1>1. Max({a, b}) = IF a >= b THEN a ELSE b
  <2>1. \E x \in {a, b} : \A y \in {a, b} : x >= y
    OBVIOUS
  <2>2. PICK m : m = Max({a, b})
    OBVIOUS
  <2>3. m \in {a, b} /\ \A y \in {a, b} : m >= y
    BY <2>1, <2>2 DEF Max
  <2> QED
    BY <2>2, <2>3
<1>2. Min({a, b}) = IF a <= b THEN a ELSE b
  <2>1. \E x \in {a, b} : \A y \in {a, b} : x <= y
    OBVIOUS
  <2>2. PICK m : m = Min({a, b})
    OBVIOUS
  <2>3. m \in {a, b} /\ \A y \in {a, b} : m <= y
    BY <2>1, <2>2 DEF Min
  <2> QED
    BY <2>2, <2>3
<1> QED
  BY <1>1, <1>2

LEMMA Concatenation ==
    ASSUME NEW T, NEW a \in Seq(T), NEW b \in Seq(T)
    PROVE  /\ a \o b \in Seq(T) /\ Len(a \o b) = Len(a) + Len(b)
           /\ \A i \in 1 .. Len(a) : (a \o b)[i] = a[i]
           /\ \A j \in 1 .. Len(b) : (a \o b)[Len(a) + j] = b[j]
OBVIOUS

LEMMA RowsType ==
    ASSUME NEW s \in Sound, NEW n \in Nat, n <= Len(Listed(s))
    PROVE  RowsUpTo(s, n) \in Seq(SideRows) /\ Len(RowsUpTo(s, n)) = n
<1>1. Listed(s) \in Seq(Positions) /\ Len(Listed(s)) \in Nat
  BY ListedIsRanking
<1>2. \A i \in 1 .. n : Listed(s)[i] \in Positions /\ Depth(s, Listed(s)[i]) \in Nat
  BY <1>1, DepthType
<1>3. RowsUpTo(s, n) \in [1 .. n -> SideRows]
  BY <1>2 DEF RowsUpTo, SideRows
<1> QED
  BY <1>3

\* A page is what follows the pages before it; a short page is the last.
LEMMA PageExtends ==
    ASSUME NEW s \in Sound, NEW k \in Nat
    PROVE  /\ Page(s, k) \in Seq(SideRows) /\ Len(Page(s, k)) \in 0 .. PageSize
           /\ k * PageSize <= Len(Listed(s)) =>
                LET all == RowsUpTo(s, k * PageSize) \o Page(s, k)
                IN  IF Len(Page(s, k)) < PageSize
                    THEN all = RowsUpTo(s, Len(Listed(s)))
                    ELSE /\ (k + 1) * PageSize <= Len(Listed(s))
                         /\ all = RowsUpTo(s, (k + 1) * PageSize)
<1> DEFINE n == Len(Listed(s))
           start == k * PageSize
           m == Min({PageSize, Max({0, n - start})})
           row == [i \in 1 .. m |-> [position |-> Listed(s)[start + i],
                                     depth |-> Depth(s, Listed(s)[start + i])]]
<1>1. n \in Nat /\ PageSize \in Nat \ {0} /\ Listed(s) \in Seq(Positions)
  BY ListedIsRanking, QuotePipelineAssumption
<1>2. start \in Nat /\ (k + 1) * PageSize = start + PageSize
  BY <1>1
<1>3. Page(s, k) = row
  BY DEF Page
<1> HIDE DEF n, start
<1>4. /\ m \in 0 .. PageSize
      /\ m > 0 => start + m <= n
      /\ start <= n => IF m < PageSize THEN start + m = n ELSE m = PageSize
  <2>1. Max({0, n - start}) = IF 0 >= n - start THEN 0 ELSE n - start
    BY <1>1, <1>2, MinMaxOfTwo
  <2>2. PICK x \in Int : x = Max({0, n - start})
    BY <1>1, <1>2, <2>1
  <2>3. Min({PageSize, x}) = IF PageSize <= x THEN PageSize ELSE x
    <3>1. PageSize \in Int
      BY <1>1
    <3> QED
      BY <3>1, MinMaxOfTwo
  <2>4. m = IF PageSize <= x THEN PageSize ELSE x
    BY <2>2, <2>3
  <2> HIDE DEF m
  <2> QED
    BY <1>1, <1>2, <2>1, <2>2, <2>4
<1> HIDE DEF m
<1>5. \A i \in 1 .. m : start + i \in 1 .. n /\ Listed(s)[start + i] \in Positions
                        /\ Depth(s, Listed(s)[start + i]) \in Nat
  <2>1. \A i \in 1 .. m : start + i \in 1 .. n
    BY <1>1, <1>2, <1>4
  <2> QED
    BY <1>1, <2>1, DepthType DEF n
<1>6. row \in Seq(SideRows) /\ Len(row) = m /\ DOMAIN row = 1 .. m
  <2>1. row \in [1 .. m -> SideRows]
    BY <1>5 DEF SideRows
  <2> QED
    BY <1>4, <2>1
<1>7. \A j \in 1 .. m : row[j] = [position |-> Listed(s)[start + j],
                                  depth |-> Depth(s, Listed(s)[start + j])]
  OBVIOUS
<1>8. row = Page(s, k)
  BY <1>3
<1> HIDE DEF row
<1>9. ASSUME start <= n PROVE RowsUpTo(s, start) \o row = RowsUpTo(s, start + m)
  <2>1. PICK first : first = RowsUpTo(s, start)
    OBVIOUS
  <2>2. PICK all : all = first \o row
    OBVIOUS
  <2>3. PICK whole : whole = RowsUpTo(s, start + m)
    OBVIOUS
  <2>4. start + m <= n /\ start + m \in Nat /\ m \in Nat
    BY <1>1, <1>2, <1>4, <1>9
  <2>5. first \in Seq(SideRows) /\ Len(first) = start /\ DOMAIN first = 1 .. start
    BY <1>2, <1>9, <2>1, RowsType DEF n
  <2>6. whole \in Seq(SideRows) /\ Len(whole) = start + m
    BY <2>3, <2>4, RowsType DEF n
  <2>7. /\ all \in Seq(SideRows) /\ Len(all) = start + m
        /\ \A i \in 1 .. start : all[i] = first[i]
        /\ \A j \in 1 .. m : all[start + j] = row[j]
    <3>1. all \in Seq(SideRows) /\ Len(all) = Len(first) + Len(row)
      BY <1>6, <2>2, <2>5, Concatenation
    <3>2. \A i \in 1 .. start : all[i] = first[i]
      BY <1>6, <2>2, <2>5, Concatenation
    <3>3. ASSUME NEW j \in 1 .. m PROVE all[start + j] = row[j]
      <4>1. j \in 1 .. Len(row) /\ Len(first) = start
        BY <1>6, <2>5
      <4>2. all[Len(first) + j] = row[j]
        BY <1>6, <2>2, <2>5, <4>1, Concatenation
      <4> QED
        BY <4>1, <4>2
    <3> QED
      BY <1>6, <2>5, <3>1, <3>2, <3>3
  <2>8. ASSUME NEW i \in 1 .. start + m PROVE all[i] = whole[i]
    <3>1. whole[i] = [position |-> Listed(s)[i], depth |-> Depth(s, Listed(s)[i])]
      BY <2>3 DEF RowsUpTo
    <3>2. CASE i \in 1 .. start
      <4>1. first[i] = [position |-> Listed(s)[i], depth |-> Depth(s, Listed(s)[i])]
        BY <2>1, <3>2 DEF RowsUpTo
      <4> QED
        BY <2>7, <3>1, <3>2, <4>1
    <3>3. CASE i \notin 1 .. start
      <4>1. PICK j \in 1 .. m : i = start + j
        <5>1. i - start \in 1 .. m /\ i = start + (i - start)
          BY <1>2, <2>4, <3>3
        <5> QED
          BY <5>1
      <4> QED
        BY <1>7, <2>7, <3>1, <4>1
    <3> QED
      BY <3>2, <3>3
  <2>9. all = whole
    <3>1. DOMAIN all = 1 .. start + m /\ DOMAIN whole = 1 .. start + m
      BY <2>4, <2>6, <2>7
    <3>2. all = [i \in 1 .. start + m |-> all[i]] /\ whole = [i \in 1 .. start + m |-> whole[i]]
      BY <2>6, <2>7, <3>1
    <3> QED
      BY <2>8, <3>2
  <2> QED
    BY <2>1, <2>2, <2>3, <2>9
<1>10. Page(s, k) \in Seq(SideRows) /\ Len(Page(s, k)) = m
  BY <1>6, <1>8
<1>11. ASSUME start <= n
       PROVE  IF m < PageSize THEN start + m = n
              ELSE (k + 1) * PageSize <= n /\ start + m = (k + 1) * PageSize
  BY <1>1, <1>2, <1>4, <1>11
<1>12. ASSUME start <= n
       PROVE  LET all == RowsUpTo(s, start) \o Page(s, k)
              IN  IF Len(Page(s, k)) < PageSize THEN all = RowsUpTo(s, n)
                  ELSE (k + 1) * PageSize <= n /\ all = RowsUpTo(s, (k + 1) * PageSize)
  BY <1>8, <1>9, <1>10, <1>11, <1>12
<1> QED
  BY <1>4, <1>10, <1>12 DEF n, start
-----------------------------------------------------------------------------
(* The request.                                                             *)

\* What the pages read so far hold of the block they name.
ReadFrom(s, page, rows) ==
    LET n == IF page = AllPages THEN Len(Listed(s)) ELSE page * PageSize
    IN  n <= Len(Listed(s)) /\ rows = RowsUpTo(s, n)

IsReading(c) ==
    \E rows \in Seq(SideRows), page \in Nat \cup {AllPages}, indexed \in Nat,
       head \in 0 .. Len(blocks) :
          /\ c = [stage |-> "Reading", rows |-> rows, page |-> page,
                  indexed |-> indexed, head |-> head]
          /\ page = 0 => rows = <<>>
          /\ page # 0 => /\ indexed \in DOMAIN blocks
                         /\ ~reorged => ReadFrom(blocks[indexed], page, rows)

IsRefreshing(c) ==
    \E head \in 1 .. Len(blocks), shortlist \in SUBSET Positions :
        c = [stage |-> "Refreshing", head |-> head, shortlist |-> shortlist]

\* Shares of the whole amount, each less than a raw unit off its allocation.
SharesFit(fills) ==
    /\ DOMAIN fills \subseteq Positions
    /\ fills \in [DOMAIN fills -> [version : Nat, wad : 1 .. AmountWad, share : 1 .. request.amount]]
    /\ SumFunctionOnSet([p \in DOMAIN fills |-> fills[p].share], DOMAIN fills) = request.amount
    /\ \A p \in DOMAIN fills :
          fills[p].share * Scale - fills[p].wad \in (1 - Scale) .. (Scale - 1)

BackedAt(s, fills) ==
    \A p \in DOMAIN fills : /\ s.active[p] /\ s.version[p] = fills[p].version
                            /\ SufficientlyBacked(s, p)

Backed(head, fills) == ~reorged => \E i \in head .. Len(blocks) : BackedAt(blocks[i], fills)

\* Every quote was given at some block at the version its fill expects.
QuotedFrom(quotes, fills) ==
    /\ DOMAIN quotes \subseteq DOMAIN fills /\ quotes \in [DOMAIN quotes -> Nat]
    /\ ~reorged => \A p \in DOMAIN quotes : \E j \in DOMAIN blocks :
                      /\ blocks[j].version[p] = fills[p].version
                      /\ quotes[p] = CounterAt(blocks[j], p, fills[p])

IsQuoting(c) ==
    \E head, fills, quotes :
        /\ head \in 1 .. Len(blocks)
        /\ c = [stage |-> "Quoting", head |-> head, quotes |-> quotes, fills |-> fills]
        /\ SharesFit(fills) /\ Backed(head, fills) /\ QuotedFrom(quotes, fills)

RouteHolds(route) ==
    \E head, fills, quotes :
        /\ head \in 1 .. Len(blocks)
        /\ route = [head |-> head, fills |-> fills, limit |-> Limit(SumFunctionOnSet(quotes, DOMAIN quotes))]
        /\ SharesFit(fills) /\ Backed(head, fills) /\ QuotedFrom(quotes, fills)
        /\ DOMAIN quotes = DOMAIN fills

IsRouted(c) ==
    \E route : /\ RouteHolds(route)
               /\ \/ c = [stage |-> "Simulating", route |-> route]
                  \/ c = [stage |-> "Estimating", route |-> route]
                  \/ c = [stage |-> "Answered", status |-> "Route", route |-> route]

IsRefused(c) ==
    \E status \in Statuses \ {"Route"} : c = [stage |-> "Answered", status |-> status]

Holds(c) == IsReading(c) \/ IsRefreshing(c) \/ IsQuoting(c) \/ IsRouted(c) \/ IsRefused(c)

CallInv == Holds(call)

PipelineInv == ChainInv /\ CallInv

LEMMA CallStarts == Init => CallInv
<1> SUFFICES ASSUME Init PROVE IsReading(call)
  BY DEF CallInv, Holds
<1>1. call = [stage |-> "Reading", rows |-> <<>>, page |-> 0, indexed |-> 0, head |-> 0]
      /\ Len(blocks) = 1
  BY DEF Init
<1>2. <<>> \in Seq(SideRows) /\ 0 \in Nat \cup {AllPages} /\ 0 \in Nat /\ 0 \in 0 .. Len(blocks)
  BY <1>1
<1> QED
  BY <1>1, <1>2 DEF IsReading

\* What is known of a request survives what others do to the chain.
LEMMA OthersKeepCall ==
    ASSUME ChainInv, Grows, Holds(call), call' = call, DOMAIN blocks' = 1 .. Len(blocks'),
           Len(blocks') \in Nat
    PROVE  CallInv'
<1>1. Len(blocks) \in Nat /\ DOMAIN blocks = 1 .. Len(blocks) /\ reorged \in BOOLEAN
  BY DEF ChainInv
<1>2. DOMAIN blocks \subseteq DOMAIN blocks' /\ request' = request
      /\ \A n \in Int : n .. Len(blocks) \subseteq n .. Len(blocks')
  BY <1>1 DEF Grows
<1>3. ~reorged' => ~reorged /\ \A i \in DOMAIN blocks : blocks'[i] = blocks[i]
  BY DEF Grows
<1>4. CASE IsReading(call)
  <2>1. PICK rows \in Seq(SideRows), page \in Nat \cup {AllPages}, indexed \in Nat,
             head \in 0 .. Len(blocks) :
          /\ call = [stage |-> "Reading", rows |-> rows, page |-> page,
                     indexed |-> indexed, head |-> head]
          /\ page = 0 => rows = <<>>
          /\ page # 0 => /\ indexed \in DOMAIN blocks
                         /\ ~reorged => ReadFrom(blocks[indexed], page, rows)
    BY <1>4 DEF IsReading
  <2>2. page # 0 => /\ indexed \in DOMAIN blocks'
                    /\ ~reorged' => ReadFrom(blocks'[indexed], page, rows)
    BY <1>2, <1>3, <2>1
  <2>3. head \in 0 .. Len(blocks')
    BY <1>2
  <2>4. IsReading(call)'
    BY <2>1, <2>2, <2>3 DEF IsReading
  <2> QED
    BY <2>4 DEF CallInv, Holds
<1>5. CASE IsRefreshing(call)
  <2>1. IsRefreshing(call)'
    <3>1. PICK head \in 1 .. Len(blocks), shortlist \in SUBSET Positions :
            call = [stage |-> "Refreshing", head |-> head, shortlist |-> shortlist]
      BY <1>5 DEF IsRefreshing
    <3>2. head \in 1 .. Len(blocks')
      BY <1>2
    <3> QED
      BY <3>1, <3>2 DEF IsRefreshing
  <2> QED
    BY <2>1 DEF CallInv, Holds
<1>6. ASSUME NEW head \in 1 .. Len(blocks), NEW fills, NEW quotes,
             SharesFit(fills), Backed(head, fills), QuotedFrom(quotes, fills)
      PROVE  /\ head \in 1 .. Len(blocks')
             /\ SharesFit(fills)' /\ Backed(head, fills)' /\ QuotedFrom(quotes, fills)'
             /\ Limit(SumFunctionOnSet(quotes, DOMAIN quotes))' = Limit(SumFunctionOnSet(quotes, DOMAIN quotes))
  <2>1. SharesFit(fills)'
    BY <1>2, <1>6 DEF SharesFit, AmountWad
  <2>2. Backed(head, fills)'
    <3> SUFFICES ASSUME ~reorged'
                 PROVE  \E i \in head .. Len(blocks') : BackedAt(blocks'[i], fills)
      BY DEF Backed
    <3>1. PICK i \in head .. Len(blocks) : BackedAt(blocks[i], fills)
      BY <1>3, <1>6 DEF Backed
    <3>2. i \in DOMAIN blocks /\ i \in head .. Len(blocks')
      BY <1>1, <1>2
    <3> QED
      BY <1>3, <3>1, <3>2
  <2>3. QuotedFrom(quotes, fills)'
    <3>1. ASSUME ~reorged', NEW p \in DOMAIN quotes
          PROVE  \E j \in DOMAIN blocks' :
                   /\ blocks'[j].version[p] = fills[p].version
                   /\ quotes[p] = CounterAt(blocks'[j], p, fills[p])
      <4>1. PICK j \in DOMAIN blocks : /\ blocks[j].version[p] = fills[p].version
                                       /\ quotes[p] = CounterAt(blocks[j], p, fills[p])
        BY <1>3, <1>6, <3>1 DEF QuotedFrom
      <4> QED
        BY <1>2, <1>3, <3>1, <4>1
    <3>2. \A s, p, fill : CounterAt(s, p, fill)' = CounterAt(s, p, fill)
      BY <1>2 DEF CounterAt
    <3> QED
      BY <1>2, <1>6, <3>1, <3>2 DEF QuotedFrom, CounterAt
  <2>4. Limit(SumFunctionOnSet(quotes, DOMAIN quotes))' = Limit(SumFunctionOnSet(quotes, DOMAIN quotes))
    BY <1>2 DEF Limit
  <2>5. head \in 1 .. Len(blocks')
    BY <1>2
  <2> QED
    BY <2>1, <2>2, <2>3, <2>4, <2>5
<1>7. CASE IsQuoting(call)
  <2>1. PICK head, fills, quotes :
          /\ head \in 1 .. Len(blocks)
          /\ call = [stage |-> "Quoting", head |-> head, quotes |-> quotes, fills |-> fills]
          /\ SharesFit(fills) /\ Backed(head, fills) /\ QuotedFrom(quotes, fills)
    BY <1>7 DEF IsQuoting
  <2>2. /\ head \in 1 .. Len(blocks')
        /\ SharesFit(fills)' /\ Backed(head, fills)' /\ QuotedFrom(quotes, fills)'
    BY <1>6, <2>1
  <2>3. IsQuoting(call)'
    BY <2>1, <2>2 DEF IsQuoting
  <2> QED
    BY <2>3 DEF CallInv, Holds
<1>8. CASE IsRouted(call)
  <2>1. PICK route : /\ RouteHolds(route)
                     /\ \/ call = [stage |-> "Simulating", route |-> route]
                        \/ call = [stage |-> "Estimating", route |-> route]
                        \/ call = [stage |-> "Answered", status |-> "Route", route |-> route]
    BY <1>8 DEF IsRouted
  <2>2. PICK head, fills, quotes :
          /\ head \in 1 .. Len(blocks)
          /\ route = [head |-> head, fills |-> fills,
                      limit |-> Limit(SumFunctionOnSet(quotes, DOMAIN quotes))]
          /\ SharesFit(fills) /\ Backed(head, fills) /\ QuotedFrom(quotes, fills)
          /\ DOMAIN quotes = DOMAIN fills
    BY <2>1 DEF RouteHolds
  <2>3. /\ head \in 1 .. Len(blocks')
        /\ SharesFit(fills)' /\ Backed(head, fills)' /\ QuotedFrom(quotes, fills)'
        /\ Limit(SumFunctionOnSet(quotes, DOMAIN quotes))' = Limit(SumFunctionOnSet(quotes, DOMAIN quotes))
    BY <1>6, <2>2
  <2>4. RouteHolds(route)'
    BY <2>2, <2>3 DEF RouteHolds
  <2>5. IsRouted(call)'
    BY <2>1, <2>4 DEF IsRouted
  <2> QED
    BY <2>5 DEF CallInv, Holds
<1>9. CASE IsRefused(call)
  <2>1. IsRefused(call)'
    BY <1>9 DEF IsRefused
  <2> QED
    BY <2>1 DEF CallInv, Holds
<1> QED
  BY <1>4, <1>5, <1>7, <1>8, <1>9 DEF Holds

\* A step of the request itself leaves the chain alone.
LEMMA OwnStep ==
    ASSUME UNCHANGED <<blocks, reorged, index, request>>
    PROVE  /\ ChainInv => ChainInv'
           /\ Holds(call') => CallInv'
<1>1. ChainInv => ChainInv'
  BY DEF ChainInv
<1>2. \A fills : SharesFit(fills) <=> SharesFit(fills)'
  BY DEF SharesFit, AmountWad
<1>3. \A head, fills : Backed(head, fills) <=> Backed(head, fills)'
  BY DEF Backed
<1>4. \A quotes, fills : QuotedFrom(quotes, fills) <=> QuotedFrom(quotes, fills)'
  BY DEF QuotedFrom, CounterAt
<1>5. \A n : Limit(n) = Limit(n)'
  BY DEF Limit
<1>6. IsReading(call') => IsReading(call)'
  BY DEF IsReading
<1>7. IsRefreshing(call') => IsRefreshing(call)'
  BY DEF IsRefreshing
<1>8. IsQuoting(call') => IsQuoting(call)'
  BY <1>2, <1>3, <1>4 DEF IsQuoting
<1>9. ASSUME NEW route, RouteHolds(route) PROVE RouteHolds(route)'
  <2>1. PICK head, fills, quotes :
          /\ head \in 1 .. Len(blocks)
          /\ route = [head |-> head, fills |-> fills,
                      limit |-> Limit(SumFunctionOnSet(quotes, DOMAIN quotes))]
          /\ SharesFit(fills) /\ Backed(head, fills) /\ QuotedFrom(quotes, fills)
          /\ DOMAIN quotes = DOMAIN fills
    BY <1>9 DEF RouteHolds
  <2>2. Limit(SumFunctionOnSet(quotes, DOMAIN quotes)) = Limit(SumFunctionOnSet(quotes, DOMAIN quotes))'
    BY <1>5
  <2>3. SharesFit(fills)' /\ Backed(head, fills)' /\ QuotedFrom(quotes, fills)'
    BY <1>2, <1>3, <1>4, <2>1
  <2>4. head \in 1 .. Len(blocks')
    BY <2>1
  <2> QED
    BY <2>1, <2>2, <2>3, <2>4 DEF RouteHolds
<1>10. IsRouted(call') => IsRouted(call)'
  BY <1>9 DEF IsRouted
<1>11. IsRefused(call') => IsRefused(call)'
  BY DEF IsRefused
<1> QED
  BY <1>1, <1>6, <1>7, <1>8, <1>10, <1>11 DEF CallInv, Holds

LEMMA AnswerRefuses ==
    ASSUME NEW status \in Statuses \ {"Route"}, Answer(status)
    PROVE  /\ Holds(call') /\ UNCHANGED <<blocks, reorged, index, request>>
           /\ call' = [stage |-> "Answered", status |-> status]
BY DEF Answer, Proceed, Holds, IsRefused

\* A candidate page or the head block arrives, or a gateway fails.
LEMMA PageStep ==
    ASSUME ChainInv, IsReading(call), LoadPage
    PROVE  Holds(call') /\ UNCHANGED <<blocks, reorged, index, request>>
<1>1. PICK rows \in Seq(SideRows), page \in Nat \cup {AllPages}, indexed \in Nat,
           head \in 0 .. Len(blocks) :
        /\ call = [stage |-> "Reading", rows |-> rows, page |-> page,
                   indexed |-> indexed, head |-> head]
        /\ page = 0 => rows = <<>>
        /\ page # 0 => /\ indexed \in DOMAIN blocks
                       /\ ~reorged => ReadFrom(blocks[indexed], page, rows)
  BY DEF IsReading
<1>2. page \in Nat
  BY <1>1 DEF LoadPage, Reading
<1> DEFINE s == index.state
           new == Page(s, page)
           all == rows \o new
           n == Len(Listed(s))
<1>3. s \in Sound /\ index.height \in DOMAIN blocks /\ index.height \in Nat
      /\ (~reorged => s = blocks[index.height])
  BY DEF ChainInv
<1>4. n \in Nat /\ PageSize \in Nat \ {0} /\ AllPages \notin Nat /\ page + 1 \in Nat
      /\ page + 1 # 0 /\ AllPages # 0
  BY <1>2, <1>3, ListedIsRanking, QuotePipelineAssumption DEF AllPages
<1>5. new \in Seq(SideRows)
  BY <1>2, <1>3, PageExtends
<1>6. all \in Seq(SideRows)
  BY <1>1, <1>5, Concatenation
<1>7. ASSUME page = 0 \/ indexed = index.height, ~reorged
      PROVE  page * PageSize <= n /\ rows = RowsUpTo(s, page * PageSize)
  <2>1. CASE page = 0
    <3>1. page * PageSize = 0 /\ 0 <= n
      BY <1>4, <2>1
    <3>2. RowsUpTo(s, 0) \in Seq(SideRows) /\ Len(RowsUpTo(s, 0)) = 0
      BY <1>3, <1>4, RowsType
    <3>3. RowsUpTo(s, 0) = <<>>
      BY <3>2
    <3> QED
      BY <1>1, <2>1, <3>1, <3>3
  <2>2. CASE page # 0
    <3>1. ReadFrom(s, page, rows)
      BY <1>1, <1>3, <1>7, <2>2
    <3> QED
      BY <1>2, <1>4, <3>1 DEF ReadFrom
  <2> QED
    BY <2>1, <2>2
<1>8. ASSUME page = 0 \/ indexed = index.height, ~reorged
      PROVE  IF Len(new) < PageSize THEN all = RowsUpTo(s, n)
             ELSE (page + 1) * PageSize <= n /\ all = RowsUpTo(s, (page + 1) * PageSize)
  <2>1. LET rest == RowsUpTo(s, page * PageSize) \o Page(s, page)
        IN  IF Len(Page(s, page)) < PageSize THEN rest = RowsUpTo(s, n)
            ELSE (page + 1) * PageSize <= n /\ rest = RowsUpTo(s, (page + 1) * PageSize)
    BY <1>2, <1>3, <1>7, <1>8, PageExtends
  <2> QED
    BY <1>7, <1>8, <2>1
<1> DEFINE last == [stage |-> "Reading", rows |-> all, page |-> AllPages,
                    indexed |-> index.height, head |-> head]
           more == [stage |-> "Reading", rows |-> all, page |-> page + 1,
                    indexed |-> index.height, head |-> head]
<1>9. CASE Answer("SUBGRAPH_UNAVAILABLE") \/ Answer("INSUFFICIENT_LIQUIDITY")
  BY <1>9, AnswerRefuses DEF Statuses
<1>10. CASE Proceed(last) /\ Len(new) < PageSize /\ (page = 0 \/ indexed = index.height)
  <2> HIDE DEF all, new, n
  <2>3. ASSUME ~reorged
        PROVE  ReadFrom(s, AllPages, all)
    <3>1. all = RowsUpTo(s, n)
      BY <1>8, <1>10, <2>3
    <3>2. n <= n
      BY <1>4
    <3> QED
      BY <3>1, <3>2 DEF ReadFrom, n
  <2>1. ~reorged => ReadFrom(blocks[index.height], AllPages, all)
    BY <1>3, <2>3
  <2>2. IsReading(last)
    BY <1>1, <1>3, <1>4, <1>6, <2>1 DEF IsReading
  <2> QED
    BY <1>10, <2>2 DEF Proceed, Holds
<1>11. CASE Proceed(more) /\ ~(Len(new) < PageSize) /\ (page = 0 \/ indexed = index.height)
  <2> HIDE DEF all, new, n
  <2>3. ASSUME ~reorged
        PROVE  ReadFrom(s, page + 1, all)
    <3>1. (page + 1) * PageSize <= n /\ all = RowsUpTo(s, (page + 1) * PageSize)
      BY <1>8, <1>11, <2>3
    <3>2. page + 1 # AllPages
      BY <1>4
    <3> QED
      BY <3>1, <3>2 DEF ReadFrom, n
  <2>1. ~reorged => ReadFrom(blocks[index.height], page + 1, all)
    BY <1>3, <2>3
  <2>2. IsReading(more)
    BY <1>1, <1>3, <1>4, <1>6, <2>1 DEF IsReading
  <2> QED
    BY <1>11, <2>2 DEF Proceed, Holds
<1>12. \/ Answer("SUBGRAPH_UNAVAILABLE") \/ Answer("INSUFFICIENT_LIQUIDITY")
       \/ Proceed(last) /\ Len(new) < PageSize /\ (page = 0 \/ indexed = index.height)
       \/ Proceed(more) /\ ~(Len(new) < PageSize) /\ (page = 0 \/ indexed = index.height)
  <2>1. call.rows = rows /\ call.page = page /\ call.indexed = indexed
    BY <1>1
  <2>2. WithPages(all, AllPages) = last /\ WithPages(all, page + 1) = more
    BY <1>1 DEF WithPages
  <2>3. page > 0 <=> page # 0
    BY <1>2
  <2> HIDE DEF last, more
  <2> QED
    BY <2>1, <2>2, <2>3 DEF LoadPage
<1> QED
  BY <1>9, <1>10, <1>11, <1>12

LEMMA ReadHeadStep ==
    ASSUME ChainInv, IsReading(call), ReadHead
    PROVE  Holds(call') /\ UNCHANGED <<blocks, reorged, index, request>>
<1>1. PICK rows \in Seq(SideRows), page \in Nat \cup {AllPages}, indexed \in Nat,
           head \in 0 .. Len(blocks) :
        /\ call = [stage |-> "Reading", rows |-> rows, page |-> page,
                   indexed |-> indexed, head |-> head]
        /\ page = 0 => rows = <<>>
        /\ page # 0 => /\ indexed \in DOMAIN blocks
                       /\ ~reorged => ReadFrom(blocks[indexed], page, rows)
  BY DEF IsReading
<1>2. Len(blocks) \in 0 .. Len(blocks)
  BY DEF ChainInv
<1>3. call' = [stage |-> "Reading", rows |-> rows, page |-> page,
               indexed |-> indexed, head |-> Len(blocks)]
  BY <1>1 DEF ReadHead, Proceed
<1>4. IsReading(call')
  BY <1>1, <1>2, <1>3 DEF IsReading
<1> QED
  BY <1>4 DEF ReadHead, Proceed, Holds

LEMMA SplitShape ==
    ASSUME NEW depth, NEW amount, NEW split \in Splits(depth, amount)
    PROVE  /\ DOMAIN split \subseteq DOMAIN depth
           /\ split \in [DOMAIN split -> 1 .. amount]
           /\ SumFunctionOnSet(split, DOMAIN split) = amount
<1>1. PICK S \in SUBSET DOMAIN depth : split \in [S -> 1 .. amount] /\ SumFunctionOnSet(split, S) = amount
  BY DEF Splits
<1>2. DOMAIN split = S
  BY <1>1
<1> QED
  BY <1>1, <1>2

LEMMA ElementsOf ==
    ASSUME NEW S, NEW s \in Seq(S)
    PROVE  \A i \in DOMAIN s : s[i] \in S
OBVIOUS

\* The freshness gates and the first solve.
LEMMA ShortlistStep ==
    ASSUME ChainInv, IsReading(call), Shortlist
    PROVE  Holds(call') /\ UNCHANGED <<blocks, reorged, index, request>>
<1>1. PICK rows \in Seq(SideRows), page \in Nat \cup {AllPages}, indexed \in Nat,
           head \in 0 .. Len(blocks) :
        call = [stage |-> "Reading", rows |-> rows, page |-> page,
                indexed |-> indexed, head |-> head]
  BY DEF IsReading
<1>2. CASE \E status \in Statuses \ {"Route"} : Answer(status)
  BY <1>2, AnswerRefuses
<1>3. ASSUME NEW shortlist \in Shortlists(rows),
             Proceed([stage |-> "Refreshing", head |-> head, shortlist |-> shortlist])
      PROVE  Holds(call') /\ UNCHANGED <<blocks, reorged, index, request>>
  <2>1. Rows(rows) \subseteq Positions
    <3>1. \A i \in DOMAIN rows : rows[i] \in SideRows
      BY ElementsOf
    <3>2. \A row \in SideRows : row.position \in Positions
      BY DEF SideRows
    <3> QED
      BY <3>1, <3>2 DEF Rows
  <2>2. PICK depth : depth = [p \in Rows(rows) |->
                                (CHOOSE row \in ToSet(rows) : row.position = p).depth]
    OBVIOUS
  <2>3. PICK split \in Splits(depth, AmountWad), reserves \in SUBSET Rows(rows) :
          shortlist = DOMAIN split \cup reserves
    <3>1. PICK split \in Splits(depth, AmountWad) :
            \E k : shortlist \in {DOMAIN split \cup reserves :
                                  reserves \in kSubset(k, Rows(rows) \ DOMAIN split)}
      BY <1>3, <2>2 DEF Shortlists
    <3>2. \A k : kSubset(k, Rows(rows) \ DOMAIN split) \subseteq SUBSET Rows(rows)
      BY DEF kSubset
    <3> QED
      BY <3>1, <3>2
  <2>4. DOMAIN split \subseteq Rows(rows)
    BY <2>2, SplitShape
  <2>5. shortlist \in SUBSET Positions
    BY <2>1, <2>3, <2>4
  <2>6. head \in 1 .. Len(blocks)
    BY <1>1 DEF Shortlist, ChainInv
  <2>7. IsRefreshing(call')
    BY <1>3, <2>5, <2>6 DEF Proceed, IsRefreshing
  <2> QED
    BY <1>3, <2>7 DEF Proceed, Holds
<1>4. \/ \E status \in Statuses \ {"Route"} : Answer(status)
      \/ \E shortlist \in Shortlists(rows) :
            Proceed([stage |-> "Refreshing", head |-> head, shortlist |-> shortlist])
  <2>1. call.rows = rows /\ call.head = head
    BY <1>1
  <2> QED
    BY <2>1 DEF Shortlist, SolverFails, Statuses
<1> QED
  BY <1>2, <1>3, <1>4

\* The raw shares of a split of the amount.
LEMMA FillsOfSplit ==
    ASSUME request \in Requests, NEW depth, DOMAIN depth \subseteq Positions,
           NEW split \in Splits(depth, AmountWad),
           \A p \in DOMAIN split : Share(split, p) # 0,
           NEW s \in Sound, NEW fills,
           fills = [p \in DOMAIN split |->
                      [version |-> s.version[p], wad |-> split[p], share |-> Share(split, p)]]
    PROVE  SharesFit(fills)
<1> DEFINE S == DOMAIN split
<1>1. /\ S \subseteq Positions /\ split \in [S -> 1 .. AmountWad]
      /\ SumFunctionOnSet(split, S) = AmountWad
  BY SplitShape
<1>2. S \subseteq Nat /\ IsFiniteSet(S)
  <2>1. Positions \subseteq Nat /\ IsFiniteSet(Positions)
    BY QuotePipelineAssumption
  <2> QED
    BY <1>1, <2>1, FS_Subset
<1>3. request.amount \in Nat /\ Scale \in Nat \ {0} /\ AmountWad \in Nat
  <2>1. request.amount \in Nat /\ Scale \in Nat \ {0}
    BY QuotePipelineAssumption
  <2> QED
    BY <2>1 DEF AmountWad
<1>4. \A p \in S : split[p] \in Nat /\ split[p] \in 1 .. AmountWad
  BY <1>1, <1>3
<1>5. PICK shares : shares = [p \in S |-> Share(split, p)]
  OBVIOUS
<1>6. /\ SumFunctionOnSet(shares, S) = request.amount
      /\ \A p \in S : /\ shares[p] \in Nat /\ shares[p] <= request.amount
                      /\ shares[p] * Scale - split[p] \in (1 - Scale) .. (Scale - 1)
  BY <1>1, <1>2, <1>3, <1>4, <1>5, SharesAddUp
<1>7. \A p \in S : /\ fills[p] = [version |-> s.version[p], wad |-> split[p], share |-> shares[p]]
                   /\ fills[p].share = shares[p] /\ fills[p].wad = split[p]
                   /\ shares[p] \in 1 .. request.amount /\ s.version[p] \in Nat
  <2> SUFFICES ASSUME NEW p \in S
               PROVE  /\ fills[p] = [version |-> s.version[p], wad |-> split[p],
                                     share |-> shares[p]]
                      /\ shares[p] \in 1 .. request.amount /\ s.version[p] \in Nat
    OBVIOUS
  <2>1. shares[p] # 0 /\ shares[p] = Share(split, p)
    BY <1>5
  <2>2. p \in Positions
    BY <1>1
  <2>3. s.version[p] \in Nat
    BY <2>2, DepthType
  <2> QED
    BY <1>3, <1>6, <2>1, <2>3
<1>8. DOMAIN fills = S
  OBVIOUS
<1>9. fills \in [S -> [version : Nat, wad : 1 .. AmountWad, share : 1 .. request.amount]]
  <2>1. \A p \in S : fills[p] \in [version : Nat, wad : 1 .. AmountWad, share : 1 .. request.amount]
    BY <1>4, <1>7
  <2> QED
    BY <1>8, <2>1
<1>10. [p \in S |-> fills[p].share] = shares
  BY <1>5, <1>7
<1>11. \A p \in S : fills[p].share * Scale - fills[p].wad \in (1 - Scale) .. (Scale - 1)
  BY <1>6, <1>7
<1> QED
  BY <1>1, <1>6, <1>8, <1>9, <1>10, <1>11 DEF SharesFit

\* The Lens, the final solve and the shares.
LEMMA RefreshStep ==
    ASSUME ChainInv, IsRefreshing(call), Refresh
    PROVE  Holds(call') /\ UNCHANGED <<blocks, reorged, index, request>>
<1>1. PICK head \in 1 .. Len(blocks), shortlist \in SUBSET Positions :
        call = [stage |-> "Refreshing", head |-> head, shortlist |-> shortlist]
  BY DEF IsRefreshing
<1>2. CASE \E status \in Statuses \ {"Route"} : Answer(status)
  BY <1>2, AnswerRefuses
<1>3. ASSUME NEW split \in Splits(Refreshed(Latest, shortlist), AmountWad),
             \A p \in DOMAIN split : Share(split, p) # 0,
             Proceed(Quoting(split))
      PROVE  Holds(call') /\ UNCHANGED <<blocks, reorged, index, request>>
  <2> DEFINE depth == Refreshed(Latest, shortlist)
             fills == [p \in DOMAIN split |->
                         [version |-> Latest.version[p], wad |-> split[p],
                          share |-> Share(split, p)]]
  <2>1. Latest \in Sound /\ Latest = blocks[Len(blocks)] /\ Len(blocks) \in head .. Len(blocks)
    BY DEF ChainInv, Latest, Last
  <2>2. DOMAIN depth = {q \in shortlist : /\ Latest.active[q] /\ Depth(Latest, q) > 0
                                          /\ SufficientlyBacked(Latest, q)}
    BY DEF Refreshed
  <2>3. DOMAIN depth \subseteq Positions /\ request \in Requests
    BY <2>2 DEF ChainInv
  <2>4. DOMAIN split \subseteq DOMAIN depth
    BY SplitShape
  <2> HIDE DEF depth
  <2>5. SharesFit(fills)
    <3>1. split \in Splits(depth, AmountWad)
      BY <1>3 DEF depth
    <3> QED
      BY <1>3, <2>1, <2>3, <3>1, FillsOfSplit
  <2>6. BackedAt(Latest, fills)
    BY <2>2, <2>4 DEF BackedAt
  <2>7. call' = [stage |-> "Quoting", head |-> head, quotes |-> <<>>, fills |-> fills]
    BY <1>1, <1>3 DEF Proceed, Quoting
  <2> HIDE DEF fills
  <2>8. Backed(head, fills)
    BY <2>1, <2>6 DEF Backed
  <2>9. QuotedFrom(<<>>, fills)
    BY DEF QuotedFrom
  <2>10. IsQuoting(call')
    BY <2>5, <2>7, <2>8, <2>9 DEF IsQuoting
  <2> QED
    BY <1>3, <2>10 DEF Proceed, Holds
<1>4. \/ \E status \in Statuses \ {"Route"} : Answer(status)
      \/ \E split \in Splits(Refreshed(Latest, shortlist), AmountWad) :
            (\A p \in DOMAIN split : Share(split, p) # 0) /\ Proceed(Quoting(split))
  <2>1. call.shortlist = shortlist
    BY <1>1
  <2> QED
    BY <2>1 DEF Refresh, SolverFails, Statuses
<1> QED
  BY <1>2, <1>3, <1>4

LEMMA CounterType ==
    ASSUME request \in Requests, NEW s \in Sound, NEW fills, SharesFit(fills),
           NEW p \in DOMAIN fills
    PROVE  CounterAt(s, p, fills[p]) \in Nat
<1>1. p \in Positions /\ fills[p].share \in 1 .. request.amount
  BY DEF SharesFit
<1>2. s.sold[p] \in 0 .. Capacity[p]
  BY <1>1, DepthType
<1> QED
  BY <1>1, <1>2, QuotePipelineAssumption DEF CounterAt

\* The quote of one fill, bound to the version of the refresh.
LEMMA QuoteFillStep ==
    ASSUME ChainInv, IsQuoting(call), NEW p \in Positions, QuoteFill(p)
    PROVE  Holds(call') /\ UNCHANGED <<blocks, reorged, index, request>>
<1>1. PICK head, fills, quotes :
        /\ head \in 1 .. Len(blocks)
        /\ call = [stage |-> "Quoting", head |-> head, quotes |-> quotes, fills |-> fills]
        /\ SharesFit(fills) /\ Backed(head, fills) /\ QuotedFrom(quotes, fills)
  BY DEF IsQuoting
<1>2. call.fills = fills /\ call.quotes = quotes
  BY <1>1
<1>3. CASE Answer("RPC_UNAVAILABLE")
  BY <1>3, AnswerRefuses DEF Statuses
<1> DEFINE added == [q \in DOMAIN quotes \cup {p} |->
                       IF q = p THEN CounterAt(Latest, p, fills[p]) ELSE quotes[q]]
<1>4. CASE Fillable(Latest, p, fills[p]) /\ Proceed([call EXCEPT !.quotes = added])
  <2>1. p \in DOMAIN fills
    BY <1>2 DEF QuoteFill
  <2>2. Latest \in Sound /\ Latest = blocks[Len(blocks)] /\ Len(blocks) \in DOMAIN blocks
        /\ request \in Requests
    BY DEF ChainInv, Latest, Last
  <2>3. CounterAt(Latest, p, fills[p]) \in Nat
    BY <1>1, <2>1, <2>2, CounterType
  <2>4. Latest.version[p] = fills[p].version
    BY <1>4 DEF Fillable
  <2>5. DOMAIN added \subseteq DOMAIN fills /\ added \in [DOMAIN added -> Nat]
    BY <1>1, <2>1, <2>3 DEF QuotedFrom
  <2>6. ASSUME ~reorged, NEW q \in DOMAIN added
        PROVE  \E j \in DOMAIN blocks : /\ blocks[j].version[q] = fills[q].version
                                        /\ added[q] = CounterAt(blocks[j], q, fills[q])
    <3>1. CASE q = p
      <4>1. added[q] = CounterAt(blocks[Len(blocks)], q, fills[q])
        BY <2>2, <3>1
      <4>2. blocks[Len(blocks)].version[q] = fills[q].version
        BY <2>2, <2>4, <3>1
      <4> QED
        BY <2>2, <4>1, <4>2
    <3>2. CASE q # p
      <4>1. q \in DOMAIN quotes /\ added[q] = quotes[q]
        BY <2>6, <3>2
      <4> QED
        BY <1>1, <2>6, <4>1 DEF QuotedFrom
    <3> QED
      BY <3>1, <3>2
  <2> HIDE DEF added
  <2>7. QuotedFrom(added, fills)
    BY <2>5, <2>6 DEF QuotedFrom
  <2>8. call' = [stage |-> "Quoting", head |-> head, quotes |-> added, fills |-> fills]
    BY <1>1, <1>4 DEF Proceed
  <2>9. IsQuoting(call')
    BY <1>1, <2>7, <2>8 DEF IsQuoting
  <2> QED
    BY <1>4, <2>9 DEF Proceed, Holds
<1>5. \/ Answer("RPC_UNAVAILABLE")
      \/ Fillable(Latest, p, fills[p]) /\ Proceed([call EXCEPT !.quotes = added])
  <2>1. [call EXCEPT !.quotes = [q \in DOMAIN @ \cup {p} |->
                       IF q = p THEN CounterAt(Latest, p, call.fills[p]) ELSE @[q]]]
          = [call EXCEPT !.quotes = added]
    BY <1>2
  <2> HIDE DEF added
  <2> QED
    BY <1>2, <2>1 DEF QuoteFill
<1> QED
  BY <1>3, <1>4, <1>5

\* The limit, and the calldata.
LEMMA PrepareStep ==
    ASSUME ChainInv, IsQuoting(call), Prepare
    PROVE  Holds(call') /\ UNCHANGED <<blocks, reorged, index, request>>
<1>1. PICK head, fills, quotes :
        /\ head \in 1 .. Len(blocks)
        /\ call = [stage |-> "Quoting", head |-> head, quotes |-> quotes, fills |-> fills]
        /\ SharesFit(fills) /\ Backed(head, fills) /\ QuotedFrom(quotes, fills)
  BY DEF IsQuoting
<1>2. call.fills = fills /\ call.quotes = quotes /\ call.head = head
  BY <1>1
<1>3. DOMAIN quotes = DOMAIN fills
  BY <1>2 DEF Prepare
<1> DEFINE route == [head |-> head, fills |-> fills,
                     limit |-> Limit(SumFunctionOnSet(quotes, DOMAIN quotes))]
<1>4. RouteHolds(route)
  BY <1>1, <1>3 DEF RouteHolds
<1>5. \/ Proceed([stage |-> "Simulating", route |-> route])
      \/ Proceed([stage |-> "Answered", status |-> "Route", route |-> route])
  BY <1>2 DEF Prepare
<1> HIDE DEF route
<1>6. IsRouted(call')
  BY <1>4, <1>5 DEF Proceed, IsRouted
<1> QED
  BY <1>5, <1>6 DEF Proceed, Holds

\* The simulation and the gas estimate.
LEMMA SimulationStep ==
    ASSUME ChainInv, IsRouted(call), Simulate \/ EstimateGas
    PROVE  Holds(call') /\ UNCHANGED <<blocks, reorged, index, request>>
<1>1. PICK route : /\ RouteHolds(route)
                   /\ \/ call = [stage |-> "Simulating", route |-> route]
                      \/ call = [stage |-> "Estimating", route |-> route]
                      \/ call = [stage |-> "Answered", status |-> "Route", route |-> route]
  BY DEF IsRouted
<1>2. call.route = route
  BY <1>1
<1>3. \/ Answer("SIMULATION_REVERTED")
      \/ Proceed([stage |-> "Estimating", route |-> route])
      \/ Proceed([stage |-> "Answered", status |-> "Route", route |-> route])
  BY <1>2 DEF Simulate, EstimateGas
<1>4. CASE Answer("SIMULATION_REVERTED")
  BY <1>4, AnswerRefuses DEF Statuses
<1>5. CASE \/ Proceed([stage |-> "Estimating", route |-> route])
           \/ Proceed([stage |-> "Answered", status |-> "Route", route |-> route])
  <2>1. IsRouted(call')
    BY <1>1, <1>5 DEF Proceed, IsRouted
  <2> QED
    BY <1>5, <2>1 DEF Proceed, Holds
<1> QED
  BY <1>3, <1>4, <1>5

LEMMA Stages ==
    ASSUME Holds(call)
    PROVE  /\ call.stage = "Reading" => IsReading(call)
           /\ call.stage = "Refreshing" => IsRefreshing(call)
           /\ call.stage = "Quoting" => IsQuoting(call)
           /\ call.stage \in {"Simulating", "Estimating"} => IsRouted(call)
           /\ call.stage = "Answered" => IsRouted(call) \/ IsRefused(call)
<1>1. IsReading(call) => call.stage = "Reading"
  BY DEF IsReading
<1>2. IsRefreshing(call) => call.stage = "Refreshing"
  BY DEF IsRefreshing
<1>3. IsQuoting(call) => call.stage = "Quoting"
  BY DEF IsQuoting
<1>4. IsRouted(call) => call.stage \in {"Simulating", "Estimating", "Answered"}
  BY DEF IsRouted
<1>5. IsRefused(call) => call.stage = "Answered"
  BY DEF IsRefused
<1> QED
  BY <1>1, <1>2, <1>3, <1>4, <1>5 DEF Holds

LEMMA ServeStep ==
    ASSUME ChainInv, CallInv, Serve
    PROVE  Holds(call') /\ UNCHANGED <<blocks, reorged, index, request>>
<1>1. CASE LoadPage
  BY <1>1, PageStep, Stages DEF LoadPage, Reading, CallInv
<1>2. CASE ReadHead
  BY <1>2, ReadHeadStep, Stages DEF ReadHead, CallInv
<1>3. CASE Shortlist
  BY <1>3, ShortlistStep, Stages DEF Shortlist, Reading, CallInv
<1>4. CASE Refresh
  BY <1>4, RefreshStep, Stages DEF Refresh, CallInv
<1>5. ASSUME NEW p \in Positions, QuoteFill(p)
      PROVE  Holds(call') /\ UNCHANGED <<blocks, reorged, index, request>>
  BY <1>5, QuoteFillStep, Stages DEF QuoteFill, CallInv
<1>6. CASE Prepare
  BY <1>6, PrepareStep, Stages DEF Prepare, CallInv
<1>7. CASE Simulate \/ EstimateGas
  BY <1>7, SimulationStep, Stages DEF Simulate, EstimateGas, CallInv
<1>8. CASE \/ GraphFails \/ HeadFails \/ GatewayRefuses \/ LensFails \/ QuoterFails
           \/ SimulationFails
  <2>1. \E status \in Statuses \ {"Route"} : Answer(status)
    BY <1>8 DEF GraphFails, HeadFails, GatewayRefuses, LensFails, QuoterFails,
                SimulationFails, Statuses
  <2> QED
    BY <2>1, AnswerRefuses
<1> QED
  BY <1>1, <1>2, <1>3, <1>4, <1>5, <1>6, <1>7, <1>8 DEF Serve

LEMMA PipelineStep == PipelineInv /\ [Next]_vars => PipelineInv'
<1> SUFFICES ASSUME PipelineInv, [Next]_vars PROVE PipelineInv'
  OBVIOUS
<1>1. ChainInv /\ CallInv
  BY DEF PipelineInv
<1>2. CASE Mine \/ Reorganise \/ Index
  <2>1. ChainInv' /\ Grows
    BY <1>1, <1>2, OthersStep
  <2>2. call' = call
    BY <1>2 DEF Mine, Reorganise, Index
  <2>3. DOMAIN blocks' = 1 .. Len(blocks') /\ Len(blocks') \in Nat
    BY <2>1 DEF ChainInv
  <2>4. CallInv'
    BY <1>1, <2>1, <2>2, <2>3, OthersKeepCall DEF CallInv
  <2> QED
    BY <2>1, <2>4 DEF PipelineInv
<1>3. CASE Serve
  <2>1. Holds(call') /\ UNCHANGED <<blocks, reorged, index, request>>
    BY <1>1, <1>3, ServeStep
  <2> QED
    BY <1>1, <2>1, OwnStep DEF PipelineInv
<1>4. CASE UNCHANGED vars
  <2>1. UNCHANGED <<blocks, reorged, index, request>> /\ call' = call
    BY <1>4 DEF vars
  <2> QED
    BY <1>1, <2>1, OwnStep DEF PipelineInv, CallInv
<1> QED
  BY <1>2, <1>3, <1>4 DEF Next

\* The inductive invariant of the pipeline.
THEOREM PipelineInvariant == Spec => []PipelineInv
<1>1. Init => PipelineInv
  BY ChainStarts, CallStarts DEF PipelineInv
<1> QED
  BY <1>1, PipelineStep, PTL DEF Spec
-----------------------------------------------------------------------------
(* What is answered.                                                        *)

LEMMA SnapshotHolds == PipelineInv => SnapshotIsWhole
<1> SUFFICES ASSUME PipelineInv, Reading(FALSE), ~reorged,
                    NEW s, s = blocks[call.indexed]
             PROVE  /\ Len(call.rows) = Len(Listed(s))
                    /\ Rows(call.rows) = ToSet(Listed(s))
                    /\ \A i \in DOMAIN call.rows :
                         call.rows[i].depth = Depth(s, call.rows[i].position)
  BY DEF SnapshotIsWhole
<1>1. IsReading(call)
  BY Stages DEF PipelineInv, CallInv, Reading
<1>2. PICK rows \in Seq(SideRows), page \in Nat \cup {AllPages}, indexed \in Nat,
           head \in 0 .. Len(blocks) :
        /\ call = [stage |-> "Reading", rows |-> rows, page |-> page,
                   indexed |-> indexed, head |-> head]
        /\ page = 0 => rows = <<>>
        /\ page # 0 => /\ indexed \in DOMAIN blocks
                       /\ ~reorged => ReadFrom(blocks[indexed], page, rows)
  BY <1>1 DEF IsReading
<1>3. call.rows = rows /\ call.indexed = indexed /\ page = AllPages /\ page # 0
  BY <1>2 DEF Reading, AllPages
<1>4. s \in Sound /\ ReadFrom(s, AllPages, rows)
  BY <1>2, <1>3 DEF PipelineInv, ChainInv
<1> DEFINE n == Len(Listed(s))
<1>5. rows = RowsUpTo(s, n)
  BY <1>4 DEF ReadFrom
<1>6. Listed(s) \in Seq(Positions) /\ n \in Nat /\ DOMAIN Listed(s) = 1 .. n
  BY <1>4, ListedIsRanking
<1>7. Len(rows) = n
  BY <1>4, <1>5, <1>6, RowsType
<1>8. DOMAIN rows = 1 .. n
  BY <1>5 DEF RowsUpTo
<1>9. \A i \in 1 .. n : rows[i].position = Listed(s)[i] /\ rows[i].depth = Depth(s, Listed(s)[i])
  BY <1>5 DEF RowsUpTo
<1> HIDE DEF n
<1>10. Rows(rows) = ToSet(Listed(s))
  BY <1>6, <1>8, <1>9 DEF Rows, ToSet
<1> QED
  BY <1>3, <1>7, <1>8, <1>9, <1>10 DEF n

\* graph-client.test.ts, "paginates one immutable snapshot": however the
\* subgraph moves between the pages of candidates, they add up to the answer of
\* one block, which lists every offered side once (ListedIsRanking).
THEOREM PipelineSnapshotIsWhole == Spec => []SnapshotIsWhole
BY PipelineInvariant, SnapshotHolds, PTL

LEMMA SharesHold == PipelineInv => SharesAreExact
<1> SUFFICES ASSUME PipelineInv PROVE SharesAreExact
  OBVIOUS
<1>1. ChainInv /\ Holds(call)
  BY DEF PipelineInv, CallInv
<1>2. ASSUME call.stage = "Quoting"
      PROVE  /\ \A p \in DOMAIN call.fills :
                  call.fills[p] \in [version : Nat, wad : 1 .. AmountWad,
                                     share : 1 .. request.amount]
             /\ LET shares == [p \in DOMAIN call.fills |-> call.fills[p].share]
                IN  SumFunctionOnSet(shares, DOMAIN shares) = request.amount
             /\ \A p \in DOMAIN call.fills :
                  call.fills[p].share * Scale - call.fills[p].wad \in (1 - Scale) .. (Scale - 1)
  <2>1. PICK head, fills, quotes :
          /\ head \in 1 .. Len(blocks)
          /\ call = [stage |-> "Quoting", head |-> head, quotes |-> quotes, fills |-> fills]
          /\ SharesFit(fills)
    BY <1>1, <1>2, Stages DEF IsQuoting
  <2>2. call.fills = fills
    BY <2>1
  <2> QED
    BY <2>1, <2>2 DEF SharesFit
<1>3. call.stage = "Answered" => call.status \in Statuses
  BY <1>1, Stages DEF IsRouted, IsRefused, Statuses
<1>4. call.stage \in {"Reading", "Refreshing", "Quoting", "Simulating", "Estimating", "Answered"}
  BY <1>1 DEF Holds, IsReading, IsRefreshing, IsQuoting, IsRouted, IsRefused
<1>5. /\ blocks \in Seq(States) /\ Len(blocks) \in 1 .. MaxBlocks
      /\ reorged \in BOOLEAN /\ index.state \in States /\ index.height \in DOMAIN blocks
      /\ request \in Requests
  <2>1. Sound \subseteq States
    BY DEF Sound
  <2> QED
    BY <1>1, <2>1 DEF ChainInv
<1>6. \A i \in DOMAIN blocks, p \in Positions : blocks[i].sold[p] <= Capacity[p]
  <2>1. \A i \in DOMAIN blocks : blocks[i] \in Sound
    BY <1>1 DEF ChainInv
  <2> QED
    BY <2>1 DEF Sound, Bounded
<1>7. TypeOK
  BY <1>2, <1>3, <1>4, <1>5, <1>6 DEF TypeOK
<1> QED
  BY <1>2, <1>7 DEF SharesAreExact

\* distributeRawAmounts: the raw shares of a route are all positive, each is
\* less than a raw unit off its allocation, and they add up to the request.
THEOREM PipelineSharesAreExact == Spec => []SharesAreExact
BY PipelineInvariant, SharesHold, PTL

LEMMA RoutedHolds ==
    ASSUME PipelineInv, Routed
    PROVE  RouteHolds(call.route)
<1>1. IsRouted(call) \/ IsRefused(call)
  BY Stages DEF PipelineInv, CallInv, Routed
<1>2. ~IsRefused(call)
  BY DEF IsRefused, Routed
<1>3. PICK route : /\ RouteHolds(route)
                   /\ \/ call = [stage |-> "Simulating", route |-> route]
                      \/ call = [stage |-> "Estimating", route |-> route]
                      \/ call = [stage |-> "Answered", status |-> "Route", route |-> route]
  BY <1>1, <1>2 DEF IsRouted
<1> QED
  BY <1>3

LEMMA BackingHolds == PipelineInv => FillsWereBacked
<1> SUFFICES ASSUME PipelineInv, Routed, ~reorged
             PROVE  \E i \in SinceHead : BackedAt(blocks[i], call.route.fills)
  BY DEF FillsWereBacked, BackedAt
<1>1. PICK head, fills, quotes :
        /\ head \in 1 .. Len(blocks)
        /\ call.route = [head |-> head, fills |-> fills,
                         limit |-> Limit(SumFunctionOnSet(quotes, DOMAIN quotes))]
        /\ Backed(head, fills)
  BY RoutedHolds DEF RouteHolds
<1>2. call.route.head = head /\ call.route.fills = fills
  BY <1>1
<1> QED
  BY <1>1, <1>2 DEF Backed, SinceHead

\* Every fill of an answered route was active, at the version it expects and
\* backed by the wallet of its maker, all of them at one block, no older than
\* the chainHeadBlock of the answer, unless the chain reorganised meanwhile.
THEOREM PipelineFillsWereBacked == Spec => []FillsWereBacked
BY PipelineInvariant, BackingHolds, PTL

LEMMA LimitHolds == PipelineInv => LimitIsReachable
<1> SUFFICES ASSUME PipelineInv, Routed, ~reorged, NEW i \in SinceHead,
                    \A p \in DOMAIN call.route.fills :
                        blocks[i].version[p] = call.route.fills[p].version
             PROVE  WithinLimit(blocks[i], call.route)
  BY DEF LimitIsReachable
<1>1. PICK head, fills, quotes :
        /\ head \in 1 .. Len(blocks)
        /\ call.route = [head |-> head, fills |-> fills,
                         limit |-> Limit(SumFunctionOnSet(quotes, DOMAIN quotes))]
        /\ SharesFit(fills) /\ QuotedFrom(quotes, fills) /\ DOMAIN quotes = DOMAIN fills
  BY RoutedHolds DEF RouteHolds
<1>2. call.route.head = head /\ call.route.fills = fills
      /\ call.route.limit = Limit(SumFunctionOnSet(quotes, DOMAIN quotes))
  BY <1>1
<1>3. ChainInv /\ Len(blocks) \in Nat /\ DOMAIN blocks = 1 .. Len(blocks)
  BY DEF PipelineInv, ChainInv
<1>4. i \in DOMAIN blocks /\ blocks[i] \in Sound
  BY <1>1, <1>2, <1>3 DEF SinceHead, ChainInv
<1>5. request \in Requests /\ request.slippageBps \in 0 .. Basis
  BY <1>3, QuotePipelineAssumption DEF ChainInv
<1>6. ASSUME NEW p \in DOMAIN fills PROVE CounterAt(blocks[i], p, fills[p]) = quotes[p]
  <2>1. PICK j \in DOMAIN blocks : /\ blocks[j].version[p] = fills[p].version
                                   /\ quotes[p] = CounterAt(blocks[j], p, fills[p])
    BY <1>1 DEF QuotedFrom
  <2>2. blocks[i].version[p] = blocks[j].version[p] /\ p \in Positions
    BY <1>1, <1>2, <2>1 DEF SharesFit
  <2>3. i <= j \/ j <= i
    BY <1>3, <1>4, <2>1
  <2>4. Follows(blocks[i], blocks[j]) \/ Follows(blocks[j], blocks[i])
    BY <1>3, <1>4, <2>1, <2>3 DEF ChainInv
  <2>5. blocks[i].sold[p] = blocks[j].sold[p]
    BY <2>2, <2>4 DEF Follows
  <2> QED
    BY <2>1, <2>5 DEF CounterAt
<1> DEFINE counters == [p \in DOMAIN fills |-> CounterAt(blocks[i], p, fills[p])]
           total == SumFunctionOnSet(quotes, DOMAIN quotes)
<1>7. counters = quotes
  BY <1>1, <1>6 DEF QuotedFrom
<1>8. total \in Nat
  <2>1. IsFiniteSet(DOMAIN quotes)
    BY <1>1, FS_Subset, QuotePipelineAssumption DEF SharesFit
  <2>2. \A p \in DOMAIN quotes : quotes[p] \in Nat
    BY <1>1 DEF QuotedFrom
  <2> QED
    BY <2>1, <2>2, SumNat
<1>9. IF request.kind = "ExactInput" THEN total >= Limit(total) ELSE total <= Limit(total)
  BY <1>5, <1>8, LimitAllowsQuote
<1>10. SumFunctionOnSet(counters, DOMAIN counters) = total
  BY <1>7
<1> HIDE DEF total
<1>11. WithinLimit(blocks[i], call.route)
         <=> IF request.kind = "ExactInput"
             THEN SumFunctionOnSet(counters, DOMAIN counters) >= call.route.limit
             ELSE SumFunctionOnSet(counters, DOMAIN counters) <= call.route.limit
  BY <1>2 DEF WithinLimit
<1> QED
  BY <1>2, <1>9, <1>10, <1>11 DEF total

\* Wherever, from the head block on, the positions of an answered route are at
\* its versions, what it trades meets the limit the wallet signs, although its
\* quotes may have been served at different blocks.
THEOREM PipelineLimitIsReachable == Spec => []LimitIsReachable
BY PipelineInvariant, LimitHolds, PTL
=============================================================================
