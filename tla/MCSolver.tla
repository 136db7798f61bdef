------------------------------ MODULE MCSolver ------------------------------
(***************************************************************************)
(* Requests for TLC: markets made of a few of eleven positions, two of which *)
(* are not eligible, every amount up to their depth, and every bound.       *)
(***************************************************************************)
EXTENDS Solver, TLC

Flat(kappa) == [branch |-> "Flat", mu |-> 0, kappa |-> kappa]

\* Native alpha 1/2 with mu = 1/2: the rate falls from high to a quarter of it.
Curved(high) == [branch |-> "General", mu |-> WAD \div 2, kappa |-> high \div 2]

Position(key, curve, y, yInt) ==
    [key |-> key, market |-> "ETH", side |-> "Buy", active |-> TRUE, backed |-> TRUE,
     curve |-> curve, state |-> [y |-> y, yInt |-> yInt]]

MCPosition ==
    <<Position(1, Curved(2 * WAD), 4, 6),
      Position(2, Flat(2 * WAD), 3, 3),
      Position(3, Curved(4 * WAD), 4, 4),
      Position(4, Flat(WAD), 5, 5),
      [Position(5, Flat(4 * WAD), 4, 4) EXCEPT !.backed = FALSE],
      Position(6, Flat(3 * WAD), 2, 4),
      [Position(7, Flat(3 * WAD), 4, 4) EXCEPT !.side = "Sell"],
      Position(8, Curved(3 * WAD), 6, 6),
      Position(9, Flat(2 * WAD), 9, 9),
      Position(10, Curved(2 * WAD), 12, 12),
      Position(11, Curved(2 * WAD), 8, 12)>>

Market(keys) == [i \in DOMAIN keys |-> MCPosition[keys[i]]]

MCMarkets ==
    {Market(<<1, 2, 3, 5>>), Market(<<6, 4, 2>>), Market(<<4, 3, 1, 6>>), Market(<<5>>),
     Market(<<1, 2, 2>>), Market(<<3, 1, 2, 4, 6>>), Market(<<1, 7, 4>>), Market(<<3, 6, 8>>),
     Market(<<9, 6, 4>>), Market(<<10, 11, 4>>)}

MCRequests ==
    [market : {"ETH"}, side : {"Buy"}, kind : Kinds, amount : 0 .. 14, maxFills : 1 .. 3,
     reserveCount : 0 .. 1, candidates : MCMarkets]

\* A flat and a curved position that start at the same rate.
MCSameStart ==
    [market : {"ETH"}, side : {"Buy"}, kind : {"ExactOutput"}, amount : 1 .. 8, maxFills : {2},
     reserveCount : {0},
     candidates : {<<Position(1, Flat(4 * WAD), 4, 4), Position(2, Curved(4 * WAD), 4, 4)>>}]
=============================================================================
