---------------------------- MODULE MCSettlement ----------------------------
(***************************************************************************)
(* Values of Settlement for TLC: two makers with three flat positions, a   *)
(* taker, a recipient, and calls that compete for runtime versions.        *)
(***************************************************************************)
EXTENDS Settlement, TLC

CONSTANTS m1, m2, alice, carol, p1, p2, p3

MCTokens == {"base", "quote"}
MCFactor == [base |-> 1, quote |-> 2]

\* Only flat policies: the transcendental primitives are not reached.
MCLn(v) == 0
MCExp(v) == WAD
MCPow(base, exponent) == WAD

\* Its kappa is the native price: 8 * 8 \div price for a sell side, the price
\* for a buy side; Compiles checks it on every fill.
FlatCurve(price, kappa, reserve) ==
    [startPrice |-> price, endPrice |-> price, alpha |-> 0,
     initialReserve |-> reserve, mu |-> 0, kappa |-> kappa]

\* Sells 6 base at 14/8, buys with 4 WAD (2 raw) of quote at 10/8.
TwoSided(maker) ==
    [maker |-> maker, base |-> "base", quote |-> "quote",
     Sell |-> FlatCurve(14, 4, 6), Buy |-> FlatCurve(10, 10, 4)]

MCAccounts == {m1, m2, alice, carol, Executor}
MCPositions == {p1, p2, p3}
MCConfig == p1 :> TwoSided(m1) @@ p2 :> TwoSided(m1) @@ p3 :> TwoSided(m2)

MCBalance ==
    m1 :> [base |-> 7, quote |-> 2] @@ m2 :> [base |-> 6, quote |-> 0]
      @@ alice :> [base |-> 2, quote |-> 8] @@ carol :> [base |-> 0, quote |-> 0]
      @@ Executor :> [base |-> 1, quote |-> 1]

At(position, amount, version) ==
    [position |-> position, amount |-> amount, version |-> version]

Call(payer, recipient, refund, side, kind, amount, limit, deadline, fills) ==
    [payer |-> payer, recipient |-> recipient, refund |-> refund,
     base |-> "base", quote |-> "quote", side |-> side, kind |-> kind,
     amount |-> amount, limit |-> limit, deadline |-> deadline, fills |-> fills]

MCRoute ==
    [\* Two makers; competes with shared for p1 and with twice for p3.
     split  |-> Call(alice, carol, alice, "Sell", "ExactInput", 4, 4, 1,
                     <<At(p1, 2, 0), At(p3, 2, 0)>>),
     \* Both positions share the wallet of m1.  Funded with more than it
     \* needs; the rest goes to carol.
     shared |-> Call(alice, carol, carol, "Sell", "ExactOutput", 8, 8, 1,
                     <<At(p1, 4, 0), At(p2, 4, 0)>>),
     \* A later version, in the other direction.
     later  |-> Call(alice, alice, alice, "Buy", "ExactInput", 2, 1, 1, <<At(p1, 2, 1)>>),
     \* No fill can satisfy its minimum.
     greedy |-> Call(alice, carol, alice, "Sell", "ExactInput", 2, 3, 0, <<At(p3, 2, 0)>>),
     \* One position twice, at consecutive versions.
     twice  |-> Call(alice, carol, alice, "Sell", "ExactInput", 4, 1, 1,
                     <<At(p3, 2, 0), At(p3, 2, 1)>>)]

MCCalls == DOMAIN MCRoute

MCDirectTakers == {alice}
MCSenders == {m1}
MCShipAmounts == {6}
MCOne == {1}
=============================================================================
