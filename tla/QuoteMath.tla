------------------------------ MODULE QuoteMath ------------------------------
(***************************************************************************)
(* The off-chain mirror of the curve (packages/curve-math/src/math.ts) that *)
(* the solver searches over.  It computes with real numbers and rounds only *)
(* what it returns, each amount to the NEAREST unit of 1/WAD: unlike the    *)
(* contracts it favours nobody, and an amount may round to zero.            *)
(*                                                                         *)
(* Doubles are modelled as exact rationals.  The branches covered are the   *)
(* flat one and native alpha 1/2, where gamma = 1 and the powers in the     *)
(* code are a square and a reciprocal; the other branches differ in the     *)
(* transcendental function only.                                           *)
(*                                                                         *)
(* A curve is [branch, mu, kappa], a state [y, yInt]; all are in WAD units. *)
(***************************************************************************)
EXTENDS Integers

CONSTANT WAD

ASSUME QuoteMathAssumption == WAD \in Nat \ {0}

Kinds == {"ExactInput", "ExactOutput"}

\* toWad: Math.round of the real n / d, for n >= 0 and d > 0.
ToWad(n, d) == (2 * n + d) \div (2 * d)

\* 1 - mu * (1 - y / yInt), as a numerator over WAD * yInt.
Shifted(curve, y, yInt) == WAD * yInt - curve.mu * (yInt - y)

MarginalRate(curve, s) ==
    IF curve.branch = "Flat" THEN curve.kappa
    ELSE LET n == Shifted(curve, s.y, s.yInt)
             d == WAD * s.yInt
         IN  ToWad(curve.kappa * WAD * n * n, curve.mu * d * d)

\* The input that moves the reserve from s.y down to yAfter: the difference
\* of two values of xOfY, rounded once.
AmountIn(curve, s, yAfter) ==
    IF curve.branch = "Flat" THEN ToWad((s.y - yAfter) * WAD, curve.kappa)
    ELSE LET before == Shifted(curve, s.y, s.yInt)
             after  == Shifted(curve, yAfter, s.yInt)
         IN  ToWad(WAD * s.yInt * s.yInt * WAD * (before - after), curve.kappa * before * after)

\* yOfX after an input: the remaining reserve as the real number n / d.
ReserveAfter(curve, s, amountIn) ==
    IF curve.branch = "Flat"
    THEN [n |-> s.y * WAD - amountIn * curve.kappa, d |-> WAD]
    ELSE LET before == Shifted(curve, s.y, s.yInt)
             d      == WAD * s.yInt
             q      == d * d + curve.kappa * amountIn * before
         IN  [n |-> s.yInt * (WAD * before * d - (WAD - curve.mu) * q), d |-> curve.mu * q]

\* What the solver reads of buildQuote.
Quote(curve, s, in, out, yAfter) ==
    [in |-> in, out |-> out,
     rateBefore |-> MarginalRate(curve, s),
     rateAfter |-> MarginalRate(curve, [s EXCEPT !.y = yAfter])]

QuoteExactInput(curve, s, amount) ==
    LET after == ReserveAfter(curve, s, amount)
    IN  Quote(curve, s, amount, ToWad(s.y * after.d - after.n, after.d), ToWad(after.n, after.d))

QuoteExactOutput(curve, s, amount) ==
    Quote(curve, s, AmountIn(curve, s, s.y - amount), amount, s.y - amount)

\* validateState does not throw.
InDomain(s) == s.yInt > 0 /\ s.y \in 0 .. s.yInt

\* A quote throws on a state outside the domain, on an input above the capacity
\* of the curve, and when an effective rate or the price made of it is
\* infinite: the input rounded to zero, or the output did on the sell side,
\* whose price is its reciprocal.
CanQuoteExactInput(curve, s, side, amount) ==
    /\ InDomain(s) /\ amount > 0
    /\ ReserveAfter(curve, s, amount).n >= 0
    /\ side = "Sell" => QuoteExactInput(curve, s, amount).out > 0

CanQuoteExactOutput(curve, s, side, amount) ==
    /\ InDomain(s) /\ amount \in 1 .. s.y
    /\ AmountIn(curve, s, s.y - amount) > 0

QuoteOf(kind, curve, s, amount) ==
    IF kind = "ExactInput" THEN QuoteExactInput(curve, s, amount)
                           ELSE QuoteExactOutput(curve, s, amount)

CanQuote(kind, curve, s, side, amount) ==
    IF kind = "ExactInput" THEN CanQuoteExactInput(curve, s, side, amount)
                           ELSE CanQuoteExactOutput(curve, s, side, amount)
=============================================================================
