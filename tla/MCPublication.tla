--------------------------- MODULE MCPublication ---------------------------
(***************************************************************************)
(* Values of Publication for TLC: one maker, drafts on every branch that   *)
(* has rational values, and strategies of other programs, some of them     *)
(* malformed.                                                              *)
(***************************************************************************)
EXTENDS Publication, TLC

CONSTANTS alice, bob, s0, s1, s2, LOB1

MCTokens == {"base", "quote"}
MCFactor == [base |-> 1, quote |-> 4]

\* 2 (x - 1) / (x + 1) for the logarithm of x, in both compilers.
MCRealLog(x) == [n |-> 2 * (x.n - x.d), d |-> x.n + x.d]
MCLn(v) == (2 * (v - WAD) * WAD) \div (v + WAD)
MCExp(v) == WAD

\* (1 + x + a (x - 1)) / (1 + x - a (x - 1)) for x to the power of a, in both
\* compilers: exact at exponents of -1, 0 and 1, close to the power between
\* them, and with the logarithm above as its derivative at 0.
Power1(xn, xd, an, ad) ==
    [n |-> (xn + xd) * ad + an * (xn - xd), d |-> (xn + xd) * ad - an * (xn - xd)]
MCRealPow(x, a) == Power1(x.n, x.d, a.n, a.d)
MCPow(base, exponent) ==
    LET power == Power1(base, WAD, exponent, WAD) IN (WAD * power.n) \div power.d

DraftCurve(start, end, alpha, reserve) ==
    [startPrice |-> start, endPrice |-> end, alpha |-> alpha, initialReserve |-> reserve]

Draft(salt, sell, buy) ==
    [base |-> "base", quote |-> "quote", salt |-> salt, Sell |-> sell, Buy |-> buy]

MCDrafts == {
    \* Native alpha 1 ask, native alpha -1/2 bid.
    Draft(NoSalt, DraftCurve(528, 880, -512, 5), DraftCurve(536, 320, -256, 8)),
    \* Native alpha 3/4 ask, native alpha 0 bid without inventory.
    Draft(NoSalt, DraftCurve(400, 720, -384, 3), DraftCurve(480, 264, 0, 0)),
    \* A flat ask, whose exponent is dropped, and a bid with an exponent so small
    \* that the contract refuses it.
    Draft(s0, DraftCurve(560, 560, 512, 0), DraftCurve(900, 400, 3, 4))}

Config(draft) == CompilePosition(draft, s0)
Honest == Config(CHOOSE d \in MCDrafts : d.Sell.endPrice = 880)
Order(config) == BuildPositionStrategy(config, bob)

MCForeign ==
    {[sender |-> bob, order |-> order] : order \in {
        \* Something precedes the policy.
        [Order(Honest) EXCEPT !.offset = @ + 1, !.data = <<0>> \o @],
        \* Another magic, and an endpoint that is no price.
        [Order(Honest) EXCEPT !.data[1] = 0],
        Order([Honest EXCEPT !.Sell.startPrice = 0])}}

\* Prices up to two, and down to a half, with every sort of exponent.
MCCurves ==
    {DraftCurve(start, end, alpha, 4) :
        start \in {256, 333, 512, 700, 1024}, end \in {256, 333, 512, 700, 1024},
        alpha \in {-512, -384, -256, -96, 0, 96, 200, 400, 512}}

MCFresh == <<s1, s2>>
MCOther == {1}

\* A side is refused although the browser compiles it.
Refused(curve, side) ==
    CanCompileCurve(curve, side) /\ ~Compiles(CompileCurve(curve, side), side)

\* The exponents that are left out are not left out in vain: next to 0 one of
\* the rounded factors is large, and next to 1 the browser sees a 1.
ASSUME ExponentsNextToSpecialOnes ==
    /\ \A alpha \in {1, 3, 8} : Refused(DraftCurve(900, 400, alpha, 4), "Buy")
    /\ \A alpha \in {WAD - 2, WAD - 1, WAD + 1} : Refused(DraftCurve(900, 400, alpha, 4), "Buy")
    /\ ~Refused(DraftCurve(900, 400, WAD, 4), "Buy")
=============================================================================
