-------------------------- MODULE MCMakerPosition --------------------------
(***************************************************************************)
(* Values of MakerPosition for TLC: a base token of full precision, a      *)
(* quote token whose raw unit is worth three WAD units (so that quotes     *)
(* really round), and flat quotes that do not cross.                       *)
(***************************************************************************)
EXTENDS MakerPosition

MCTokens == {"base", "quote"}
MCFactor == [base |-> 1, quote |-> 3]

\* Only flat policies here: the transcendental primitives are not reached.
MCLn(v) == 0
MCExp(v) == WAD
MCPow(base, exponent) == WAD

FlatCurve(price, reserve, side) ==
    Derive([startPrice |-> price, endPrice |-> price, alpha |-> 0,
            initialReserve |-> reserve, mu |-> 0, kappa |-> 1], side)

\* Sell at 7/4, buy at 5/4.
MCPosition ==
    [maker |-> "maker", base |-> "base", quote |-> "quote",
     Sell |-> FlatCurve(14, 10, "Sell"), Buy |-> FlatCurve(10, 12, "Buy")]

MCRequests == 1 .. 7
MCGifts == {2}
=============================================================================
