------------------------ MODULE LiquidityComparison ------------------------
(***************************************************************************)
(* The comparison tool of the liquidity MCP server: estimates of           *)
(* constant-product pools from another subgraph, and the venue preferred   *)
(* between them and a simulated ArcBook route                              *)
(* (services/liquidity-mcp/src/standard-dex.ts, service.ts).               *)
(*                                                                         *)
(* A pool is [in, out], its reserves in the direction of the request; an   *)
(* estimate and a route are [amountIn, amountOut], in raw units.           *)
(***************************************************************************)
EXTENDS Integers, Sequences

CONSTANTS
    BPS,                  \* 10_000
    Fee,                  \* feeBps of the configured pools
    PoolLists,            \* the two-token pools a response may list
    Nothing               \* no route, no estimate

ASSUME ComparisonAssumption ==
    /\ BPS \in Nat \ {0} /\ Fee \in 0 .. BPS
    /\ PoolLists \subseteq Seq([in : Nat, out : Nat])

DivCeil(numerator, denominator) == (numerator + denominator - 1) \div denominator

\* Mutant of RequiredInput: both divisions round down.
RequiredInputFloored(pool, amount) ==
    (((pool.in * amount) \div (pool.out - amount)) * BPS) \div (BPS - Fee)

RequiredInput(pool, amount) ==
    DivCeil(DivCeil(pool.in * amount, pool.out - amount) * BPS, BPS - Fee)

Output(pool, amount) ==
    LET afterFee == amount * (BPS - Fee)
    IN  (pool.out * afterFee) \div (pool.in * BPS + afterFee)

\* quoteConstantProduct returns an estimate.
Quotes(pool, kind, amount) ==
    /\ pool.in > 0 /\ pool.out > 0 /\ amount > 0 /\ Fee < BPS
    /\ IF kind = "ExactInput" THEN Output(pool, amount) # 0 ELSE amount < pool.out

Estimate(pool, kind, amount) ==
    IF ~Quotes(pool, kind, amount) THEN Nothing
    ELSE IF kind = "ExactInput"
    THEN [amountIn |-> amount, amountOut |-> Output(pool, amount)]
    ELSE [amountIn |-> RequiredInput(pool, amount), amountOut |-> amount]

Beats(kind, a, b) ==
    IF kind = "ExactInput" THEN a.amountOut > b.amountOut ELSE a.amountIn < b.amountIn

\* The first of the best: the sort of the estimates is stable.
BestEstimate(pools, kind, amount) ==
    LET of(i) == Estimate(pools[i], kind, amount)
        quotable == {i \in DOMAIN pools : of(i) # Nothing}
    IN  IF quotable = {} THEN Nothing
        ELSE of(CHOOSE i \in quotable : \A j \in quotable :
                    ~Beats(kind, of(j), of(i)) /\ (j < i => Beats(kind, of(i), of(j))))

\* The venue with the better amount; ArcBook on a tie, and none unless the
\* route was simulated and the other subgraph has an estimate and no errors.
PreferredVenue(route, pools, indexingErrors, kind, amount) ==
    LET best == BestEstimate(pools, kind, amount)
    IN  IF route = Nothing \/ best = Nothing \/ indexingErrors THEN "not-comparable"
        ELSE IF Beats(kind, best, route) THEN "dex" ELSE "ArcBook"
-----------------------------------------------------------------------------
(* Properties *)

\* An estimate is one the pool would honour: the input it names for an exact
\* output buys that output at the pool's own exact-input formula, fee and both
\* roundings included, and does not lower the product of the reserves.
EstimateIsCovered(pool, amount) ==
    Quotes(pool, "ExactOutput", amount) =>
        LET input == RequiredInput(pool, amount)
        IN  /\ Output(pool, input) >= amount
            /\ (pool.in + input) * (pool.out - amount) >= pool.in * pool.out
=============================================================================
