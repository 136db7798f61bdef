----------------------------- MODULE CurveMath -----------------------------
(***************************************************************************)
(* The reduced-coordinate quote kernel of one compiled native curve        *)
(* (contracts/src/libraries/CurveMath.sol).  A curve state [y, yInt] holds *)
(* the live outgoing reserve and its domain scale; the incoming coordinate *)
(* x is derived from it.  Quotes are records [in, out, yAfter] of WAD      *)
(* amounts; CanQuote... hold exactly when the Solidity function does not   *)
(* revert.                                                                 *)
(***************************************************************************)
EXTENDS CurveCompiler

ValidState(s) == s.yInt # 0 /\ s.y <= s.yInt

Ratio(y, yInt) == DivWad(y, yInt, "Down")
Shifted(curve, r) == WAD - MulWad(curve.mu, WAD - r, "Down")

\* The dimensionless coordinate x * kappa / yInt at ratio r.  It is negative
\* where the code reverts with LiquidOBCurveOutOfDomain.
Term(curve, r) ==
    LET alpha == curve.alpha
        mu    == curve.mu
    IN  CASE curve.branch = "NativeAlphaZero" -> Exp(-MulWad(mu, r, "Down")) - Exp(-mu)
          [] curve.branch = "NativeAlphaOne"  -> -Ln(Shifted(curve, r))
          [] alpha < 0   -> Pow(WAD - MulWad(mu, r, "Down"), Gamma(alpha))
                              - Pow(WAD - mu, Gamma(alpha))
          [] alpha > WAD -> WAD - Pow(Shifted(curve, r), Gamma(alpha))
          [] OTHER       -> Pow(Shifted(curve, r), -Gamma(alpha)) - WAD

\* Mutant of XAtY: the flat coordinate ignores the requested rounding.
XAtYFloored(curve, s, y, rounding) ==
    IF curve.branch = "Flat"
    THEN DivWad(s.yInt - y, curve.kappa, "Down")
    ELSE MulDiv(s.yInt, Term(curve, Ratio(y, s.yInt)), curve.kappa, rounding)

XAtY(curve, s, y, rounding) ==
    IF curve.branch = "Flat"
    THEN DivWad(s.yInt - y, curve.kappa, rounding)
    ELSE MulDiv(s.yInt, Term(curve, Ratio(y, s.yInt)), curve.kappa, rounding)

HasX(curve, s, y) ==
    /\ y <= s.yInt
    /\ curve.branch # "Flat" => Term(curve, Ratio(y, s.yInt)) >= 0

ScaledX(curve, s, x) == MulDiv(curve.kappa, x, s.yInt, "Down")

\* mu * y / yInt at a scaled coordinate; negative where the code reverts.
Normalized(curve, scaled) ==
    LET alpha == curve.alpha
        mu    == curve.mu
        root  == MulDiv(WAD, WAD, Gamma(alpha), "Up")
    IN  CASE curve.branch = "NativeAlphaZero" -> -Ln(Exp(-mu) + scaled)
          [] curve.branch = "NativeAlphaOne"  -> Exp(-scaled) + mu - WAD
          [] alpha < 0   -> WAD - Pow(Pow(WAD - mu, Gamma(alpha)) + scaled, root)
          [] alpha > WAD -> Pow(WAD - scaled, root) + mu - WAD
          [] OTHER       -> Pow(WAD + scaled, -root) + mu - WAD

\* Mutant of YAtX: the remaining reserve rounds against the maker.
YAtXRoundedDown(curve, s, x) ==
    IF curve.branch = "Flat"
    THEN s.yInt - MulWad(x, curve.kappa, "Up")
    ELSE MulDiv(s.yInt, Normalized(curve, ScaledX(curve, s, x)), curve.mu, "Down")

\* The inverse coordinate; a reserve rounds up, in the maker's favour.
YAtX(curve, s, x) ==
    IF curve.branch = "Flat"
    THEN s.yInt - MulWad(x, curve.kappa, "Down")
    ELSE MulDiv(s.yInt, Normalized(curve, ScaledX(curve, s, x)), curve.mu, "Up")

HasY(curve, s, x) ==
    /\ HasX(curve, s, 0)
    /\ x <= XAtY(curve, s, 0, "Up")
    /\ curve.branch # "Flat" =>
         /\ curve.branch = "General" /\ curve.alpha > WAD => ScaledX(curve, s, x) < WAD
         /\ Normalized(curve, ScaledX(curve, s, x)) >= 0

MarginalRateAt(curve, s, y) ==
    LET r     == Ratio(y, s.yInt)
        alpha == curve.alpha
        gamma == Gamma(alpha)
        scale == IF curve.branch = "General"
                 THEN DivWad(curve.kappa, MulWad(curve.mu, gamma, "Down"), "Down")
                 ELSE DivWad(curve.kappa, curve.mu, "Down")
    IN  CASE curve.branch = "Flat" -> curve.kappa
          [] curve.branch = "NativeAlphaZero" ->
               MulWad(scale, Exp(MulWad(curve.mu, r, "Down")), "Down")
          [] curve.branch = "NativeAlphaOne" -> MulWad(scale, Shifted(curve, r), "Down")
          [] alpha < 0 ->
               MulWad(scale, Pow(WAD - MulWad(curve.mu, r, "Down"), WAD - gamma), "Down")
          [] alpha > WAD -> MulWad(scale, Pow(Shifted(curve, r), WAD - gamma), "Down")
          [] OTHER -> MulWad(scale, Pow(Shifted(curve, r), WAD + gamma), "Down")

DisplayedPrice(side, rate) == IF side = "Buy" THEN rate ELSE ReciprocalWad(rate, "Up")
EffectivePrice(side, in, out) ==
    IF side = "Buy" THEN DivWad(out, in, "Down") ELSE DivWad(in, out, "Up")

\* _buildQuote: both amounts positive, the marginal rate never improves for
\* the taker, and every reported rate and price fits the wire domain.
Buildable(curve, s, side, q) ==
    LET before == MarginalRateAt(curve, s, s.y)
        after  == MarginalRateAt(curve, s, q.yAfter)
    IN  /\ IsAmount(q.in) /\ q.in > 0
        /\ IsAmount(q.out) /\ q.out > 0
        /\ IsAmount(q.yAfter)
        /\ after <= before
        /\ \A rate \in {before, after} : IsRate(rate) /\ IsRate(DisplayedPrice(side, rate))
        /\ IsRate(DivWad(q.out, q.in, "Down"))
        /\ IsRate(EffectivePrice(side, q.in, q.out))

QuoteExactInput(curve, s, in) ==
    LET yAfter == YAtX(curve, s, XAtY(curve, s, s.y, "Down") + in)
    IN  [in |-> in, out |-> s.y - yAfter, yAfter |-> yAfter]

CanQuoteExactInput(curve, s, side, in) ==
    /\ in > 0
    /\ ValidState(s)
    /\ HasX(curve, s, s.y)
    /\ HasY(curve, s, XAtY(curve, s, s.y, "Down") + in)
    /\ QuoteExactInput(curve, s, in).yAfter < s.y
    /\ Buildable(curve, s, side, QuoteExactInput(curve, s, in))

\* Mutants of QuoteExactOutput: the starting coordinate rounds up as well, or
\* the coordinate is taken at the output instead of the remaining reserve.
QuoteExactOutputFromAbove(curve, s, out) ==
    [in     |-> XAtY(curve, s, s.y - out, "Up") - XAtY(curve, s, s.y, "Up"),
     out    |-> out,
     yAfter |-> s.y - out]

QuoteExactOutputAtOutput(curve, s, out) ==
    [in     |-> XAtY(curve, s, out, "Up") - XAtY(curve, s, s.y, "Down"),
     out    |-> out,
     yAfter |-> s.y - out]

QuoteExactOutput(curve, s, out) ==
    [in     |-> XAtY(curve, s, s.y - out, "Up") - XAtY(curve, s, s.y, "Down"),
     out    |-> out,
     yAfter |-> s.y - out]

CanQuoteExactOutput(curve, s, side, out) ==
    /\ out > 0
    /\ ValidState(s)
    /\ out <= s.y
    /\ HasX(curve, s, s.y) /\ HasX(curve, s, s.y - out)
    /\ QuoteExactOutput(curve, s, out).in > 0
    /\ Buildable(curve, s, side, QuoteExactOutput(curve, s, out))
=============================================================================
