------------------------- MODULE MCDirectionalCurve -------------------------
(***************************************************************************)
(* Values of DirectionalCurve for TLC: the power function on the exponents *)
(* that the chosen policies use, evaluated as an integer root or power     *)
(* rounded down, and one policy per run.  Beside it, the arithmetic below  *)
(* the curves, and the other two statements of the same curves: the        *)
(* repository's exact reference and the doubles of the browser.            *)
(***************************************************************************)
EXTENDS DirectionalCurve, Primitives, Sequences

\* The largest r with r * r <= n.
SquareRoot(n) == CHOOSE r \in 0 .. n : r * r <= n /\ (r + 1) * (r + 1) > n

MCPow(base, exponent) ==
    CASE exponent = 0 \/ base = WAD -> WAD
      [] exponent = WAD      -> base
      [] exponent = 2 * WAD  -> (base * base) \div WAD
      [] exponent = -WAD     -> (WAD * WAD) \div base
      [] 2 * exponent = WAD  -> SquareRoot(base * WAD)

\* Logarithm and exponential are not used by the policies below.
MCLn(v) == 0
MCExp(v) == WAD

MCSide == "Sell"

\* A flat sell at displayed price 3/2: native rate 2/3, rounded down.
MCFlat ==
    Derive([startPrice |-> (3 * WAD) \div 2, endPrice |-> (3 * WAD) \div 2, alpha |-> 0,
            initialReserve |-> 24, mu |-> 0, kappa |-> 1], "Sell")

\* A curved sell from price 1 to price 4 with native alpha 1/2 (gamma = 1).
MCCurved ==
    Derive([startPrice |-> WAD, endPrice |-> 4 * WAD, alpha |-> -(WAD \div 2),
            initialReserve |-> 24, mu |-> 0, kappa |-> 1], "Sell")

MCRequests == 1 .. 24

Curved == INSTANCE DirectionalCurve WITH Policy <- MCCurved

\* On the curved side, at every reserve that takes of the flat one leave:
\* asking for more never costs less, and paying more never buys less
\* (quoteExactOutput and quoteExactInput over floored powers).
CurvedQuotesMonotone == Curved!QuotesMonotone

-----------------------------------------------------------------------------
(* The transcendental backend: floor(16 * e^(x / 16)) for -48 <= x <= 67,   *)
(* which is the real exponential in units of 1 / WAD, and its inverse, both *)
(* then disturbed within the error that the library allows for.             *)

MCMinExpInput == -40
ExpTable ==
    <<0, 0, 0, 0, 1, 1, 1, 1, 1, 1, 1, 1, 1, 1, 1, 2, 2, 2, 2, 2, 2, 2, 3, 3,
      3, 3, 4, 4, 4, 4, 5, 5, 5, 6, 6, 7, 7, 8, 8, 9, 9, 10, 10, 11, 12, 13,
      14, 15, 16, 17, 18, 19, 20, 21, 23, 24, 26, 28, 29, 31, 33, 36, 38, 40,
      43, 46, 49, 52, 55, 59, 63, 67, 71, 76, 81, 86, 92, 98, 104, 111, 118,
      125, 133, 142, 151, 161, 172, 183, 194, 207, 220, 235, 250, 266, 283,
      301, 321, 342, 364, 387, 412, 439, 467, 497, 529, 564, 600, 639, 680,
      724, 770, 820, 873, 929, 989, 1053>>
FlooredExp(x) == ExpTable[x + 49]
Reached(x, v) == IF x = 0 THEN v >= WAD ELSE FlooredExp(x) < v
FlooredLn(v) == CHOOSE x \in -48 .. 66 : Reached(x, v) /\ ~Reached(x + 1, v)
Disturbed(v, by) == v + (by % 3) - 1

MCSoladyLn(v) == Disturbed(FlooredLn(v), v)
MCSoladyExp(x) == LET e == Disturbed(FlooredExp(x), x) IN IF e < 1 THEN 1 ELSE e

Encloses == [base \in 1 .. 125 |-> PowersAreEnclosed({base}, -4 .. 4)]

\* The arithmetic below the curves keeps the bounds it publishes
\* (FullPrecisionMath, TranscendentalMath): signed products are rounded as
\* asked, the shortcuts near zero agree with the backend, and the intervals of
\* powers enclose them; every reserve checks five bases, together 1 to 125.
ArithmeticIsSound ==
    /\ SignedProductsAreExact
    /\ ShortcutsAgree
    /\ \A base \in (5 * state.y + 1) .. (5 * state.y + 5) : Encloses[base]
-----------------------------------------------------------------------------
(* The exact reference.  Exponents are integers, halves (of squares), or    *)
(* any rational when the base is a power of two; logarithm and exponential  *)
(* are in base two.                                                         *)

ExactRoot(n) == CHOOSE r \in 0 .. 3000 : r * r = n
WholePower(x, k) ==
    IF k >= 0 THEN [n |-> x.n ^ k, d |-> x.d ^ k] ELSE [n |-> x.d ^ (-k), d |-> x.n ^ (-k)]
LogOfTwo[n \in Nat \ {0}] == IF n = 1 THEN 0 ELSE 1 + LogOfTwo[n \div 2]
MCLogOf(x) == [n |-> LogOfTwo[x.n] - LogOfTwo[x.d], d |-> 1]
MCExpOf(x) == WholePower([n |-> 2, d |-> 1], x.n)
MCRoot(x, e) ==
    CASE e.d = 1 -> WholePower(x, e.n)
      [] e.d = 2 -> WholePower([n |-> ExactRoot(x.n), d |-> ExactRoot(x.d)], e.n)
      [] OTHER   -> MCExpOf([n |-> (e.n * MCLogOf(x).n) \div e.d, d |-> 1])

R == INSTANCE Reference WITH Root <- MCRoot, LogOf <- MCLogOf, ExpOf <- MCExpOf

\* Grids of reserves on which every power is rational: native exponent, scale
\* of the domain, reserves.
Grids == { <<R!Q(1, 2), 12, {0, 3, 4, 6, 8, 12}>>, <<R!Q(-1, 1), 12, {0, 3, 4, 6, 8, 12}>>,
           <<R!Q(2, 1), 15, {0, 3, 8, 15}>>, <<R!Q(0, 1), 4, {0, 2, 4}>>,
           <<R!Q(1, 1), 3, {0, 1, 3}>> }
Whole(n) == R!Q(n, 1)
OracleCases ==
    UNION { LET grid == [yInt |-> Whole(g[2]), reserves |-> {Whole(y) : y \in g[3]}]
            IN  { [curve |-> R!CompileCurve("buy", Whole(4), Whole(1), g[1]), on |-> grid],
                  [curve |-> R!CompileCurve("sell", Whole(1), Whole(4), R!Negated(g[1])), on |-> grid] }
          : g \in Grids }
    \cup { [curve |-> R!CompileCurve("sell", Whole(3), Whole(3), Whole(1)),
            on |-> [yInt |-> Whole(12), reserves |-> {Whole(0), Whole(3), Whole(12)}]] }

\* The reference agrees with itself on every branch, bought and sold.  This
\* says nothing about a state, so it is an assumption: TLC evaluates it once.
ASSUME ReferenceAgrees ==
    \A c \in OracleCases : R!OracleAgrees(c.curve, c.on.yInt, c.on.reserves)

QM == INSTANCE QuoteMath

ReferenceBranch(curve) ==
    CASE curve.branch = "Flat"         -> "flat"
      [] curve.branch = "General" /\ curve.alpha < 0 -> "negative"
      [] OTHER                         -> "between_zero_and_one"

\* A curved sell with native alpha -1 (gamma = 2).
MCNegative ==
    Derive([startPrice |-> WAD, endPrice |-> 2 * WAD, alpha |-> WAD,
            initialReserve |-> 24, mu |-> 0, kappa |-> 1], "Sell")

\* The exact coordinate of every reserve, at the commitments that the
\* contracts and the browser share.
ExactCoordinates(curve) ==
    LET exact == [alpha |-> R!Q(curve.alpha, WAD), mu |-> R!Q(curve.mu, WAD),
                  kappa |-> R!Q(curve.kappa, WAD), branch |-> ReferenceBranch(curve)]
    IN  [y \in 0 .. 24 |-> R!XOfY(exact, R!Q(y, WAD), R!Q(24, WAD))]

Compared ==
    { [curve |-> Native(policy, Side), x |-> ExactCoordinates(Native(policy, Side))] :
        policy \in {MCFlat, MCCurved, MCNegative} }

\* Three units in the last place of the dimensionless coordinates, two of
\* which a quote subtracts, in units of the input; one unit on a flat side.
Slack(curve, s) == IF curve.branch = "Flat" THEN 1 ELSE (3 * s.yInt) \div curve.kappa

\* Every quote that the contract gives for an output is within a few units in
\* the last place of the exact integral of the schedule, on either side of it
\* and never below it on a flat side; the browser's, which nothing else ties
\* to the contract, is the integral rounded to the nearest unit
\* (CurveMath.quoteExactOutput and math.ts quoteExactOutput, against
\* reference_math.x_of_y).
QuotesTrackReference ==
    \A c \in Compared, out \in 1 .. state.y :
        CanQuoteExactOutput(c.curve, state, Side, out) =>
          \A in \in { R!Minus(c.x[state.y - out], c.x[state.y]) } :
            /\ QuoteExactOutput(c.curve, state, out).in - R!CeilingWad(in, WAD)
                 \in (IF c.curve.branch = "Flat" THEN 0 ELSE -Slack(c.curve, state))
                       .. Slack(c.curve, state)
            /\ c.curve.alpha >= 0 =>
                 QM!AmountIn(c.curve, state, state.y - out) = QM!ToWad(WAD * in.n, in.d)

\* The quotes of one reserve do not contradict each other: those of the flat
\* side invert each other and can drain it, those of the curved side are
\* monotone.  Nor do they contradict the curve as the repository states it
\* exactly.
QuotesAreCoherent == InversionConsistent /\ CurvedQuotesMonotone /\ QuotesTrackReference
=============================================================================
