----------------------------- MODULE MCSubgraph -----------------------------
(***************************************************************************)
(* Values of Subgraph for TLC: two positions of two makers, one strategy   *)
(* of another Aqua app, and a curved position whose price moves.           *)
(***************************************************************************)
EXTENDS Subgraph

CONSTANTS p1, p2, alien, curved, route1

MCTokens == {"base", "quote"}
MCFactor == [base |-> 1, quote |-> 2]

SquareRoot(n) == CHOOSE r \in 0 .. n : r * r <= n /\ (r + 1) * (r + 1) > n

MCLn(v) == 0
MCExp(v) == WAD
MCPow(base, exponent) ==
    CASE exponent = 0 \/ base = WAD -> WAD
      [] exponent = WAD     -> base
      [] exponent = 2 * WAD -> (base * base) \div WAD
      [] exponent = -WAD    -> (WAD * WAD) \div base
      [] 2 * exponent = WAD -> SquareRoot(base * WAD)

CurveFrom(start, end, alpha, reserve, side) ==
    Derive([startPrice |-> start, endPrice |-> end, alpha |-> alpha,
            initialReserve |-> reserve, mu |-> 0, kappa |-> 1], side)

\* Sells 6 base at 14/8, buys with 4 WAD (2 raw) of quote at 10/8.
TwoSided(maker) ==
    [maker |-> maker, base |-> "base", quote |-> "quote",
     Sell |-> CurveFrom(14, 14, 0, 6, "Sell"), Buy |-> CurveFrom(10, 10, 0, 4, "Buy")]

\* Sells 12 base from price 1 to price 4, buys at 1/2.
Curved ==
    [maker |-> "curved", base |-> "base", quote |-> "quote",
     Sell |-> CurveFrom(WAD, 4 * WAD, -(WAD \div 2), 12, "Sell"),
     Buy |-> CurveFrom(WAD \div 2, WAD \div 2, 0, 8, "Buy")]

MCConfig ==
    [p \in {p1, p2, alien, curved} |->
        CASE p = p1 -> TwoSided("m1") [] p = p2 -> TwoSided("m2")
          [] p = alien -> TwoSided("m2") [] p = curved -> Curved]

MCPositions == {p1, p2, alien}
MCOurs == {p1, p2}
MCSingle == {p1}
MCCurved == {curved}
MCRoutes == {route1}
MCPairs == {2}
MCLone == {1}
MCShip == {6}
MCFill == {2}
MCGift == {1}
MCNone == {}
MCFillOut == {2, 12}
MCShipCurved == {12}
=============================================================================
