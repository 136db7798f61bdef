--------------------------- MODULE MCProductViews ---------------------------
(***************************************************************************)
(* Values of ProductViews for TLC: the positions of MCSubgraph, pages of   *)
(* one position, and queries that return two fills at the most.            *)
(***************************************************************************)
EXTENDS ProductViews

CONSTANTS p1, p2, alien

MCTokens == {"base", "quote"}
MCFactor == [base |-> 1, quote |-> 2]

MCLn(v) == 0
MCExp(v) == WAD
MCPow(base, exponent) == IF exponent = 0 THEN WAD ELSE base

\* A flat curve.  Its kappa is the native price: 8 * 8 \div price for a sell
\* side, the price for a buy side; Compiles checks it on every fill.
Flat(price, kappa, reserve) ==
    [startPrice |-> price, endPrice |-> price, alpha |-> 0,
     initialReserve |-> reserve, mu |-> 0, kappa |-> kappa]

\* p1 and p2 ask 14/8 and 15/8 for 6 base, and bid 10/8 and 9/8 with 4 WAD
\* (2 raw) of quote.
TwoSided(maker, ask, bid) ==
    [maker |-> maker, base |-> "base", quote |-> "quote",
     Sell |-> Flat(ask, 4, 6), Buy |-> Flat(bid, bid, 4)]

MCConfig ==
    (p1 :> TwoSided("m1", 14, 10)) @@ (p2 :> TwoSided("m2", 15, 9))
      @@ (alien :> TwoSided("m2", 14, 10))

MCPositions == {p1, p2, alien}
MCOurs == {p1, p2}
MCRoutes == {"route1"}
MCPairs == {2}
MCShip == {3}
MCFill == {2}
MCGift == {3}

\* A wallet that was emptied, or one that pays any reserve reached here.
MCHoldings == {1, 20}

Pool(in, out) == [in |-> in, out |-> out]
MCPoolLists ==
    {<<Pool(7, 5), Pool(5, 7), Pool(6, 6)>>, <<Pool(0, 4), Pool(9, 3), Pool(11, 9)>>, <<>>}
=============================================================================
