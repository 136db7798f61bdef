------------------------------ MODULE Reference ------------------------------
(***************************************************************************)
(* The repository's own oracle of a curve                                  *)
(* (tools/reference/reference_math.py), from which its test vectors are    *)
(* made.  It computes with 120 decimal digits, here with exact rationals   *)
(* [n, d], d > 0, and rounds nothing.                                      *)
(*                                                                         *)
(* Rational powers, logarithms and exponentials are constants, to be given *)
(* values on the arguments a configuration needs.  Logarithm and           *)
(* exponential only ever occur in forms in which their base cancels, so an *)
(* instance may take base 2 and stay rational.                             *)
(***************************************************************************)
EXTENDS Integers

CONSTANTS
    Root(_, _),      \* positive rational to a rational power
    LogOf(_), ExpOf(_)

Gcd[a, b \in Nat] == IF b = 0 THEN a ELSE Gcd[b, a % b]

Abs(v) == IF v >= 0 THEN v ELSE -v

\* n / d in lowest terms, for d # 0.
Q(n, d) ==
    LET g == Gcd[Abs(n), Abs(d)]
        s == IF d > 0 THEN 1 ELSE -1
    IN  [n |-> s * (n \div g), d |-> s * (d \div g)]

Rational == [n : Int, d : Nat \ {0}]
Zero == Q(0, 1)
One == Q(1, 1)

\* Sums are formed over the least common denominator, products cancel
\* crosswise first.
Sum[a, b \in Rational] ==
    LET g == Gcd[a.d, b.d]
    IN  Q(a.n * (b.d \div g) + b.n * (a.d \div g), a.d * (b.d \div g))
Product[a, b \in Rational] ==
    LET l == Q(a.n, b.d)
        r == Q(b.n, a.d)
    IN  [n |-> l.n * r.n, d |-> l.d * r.d]
Inverse[a \in Rational] == Q(a.d, a.n)

Plus(a, b) == Sum[a, b]
Negated(a) == [a EXCEPT !.n = -@]
Minus(a, b) == Sum[a, Negated(b)]
Mul(a, b) == Product[a, b]
Inverted(a) == Inverse[a]
Over(a, b) == Product[a, Inverse[b]]
Less(a, b) == Minus(a, b).n < 0
AtMost(a, b) == Minus(a, b).n <= 0

Power[x, e \in Rational] == IF e = Zero THEN One ELSE IF e = One THEN x ELSE Root(x, e)
PowPositive(x, e) == Power[x, e]
-----------------------------------------------------------------------------
(* Compilation.                                                             *)

Branch(alpha, high, low) ==
    CASE high = low                  -> "flat"
      [] high # low /\ Less(One, alpha) -> "greater_than_one"
      [] high # low /\ alpha = One      -> "one"
      [] high # low /\ Less(alpha, One) /\ Less(Zero, alpha) -> "between_zero_and_one"
      [] high # low /\ alpha = Zero     -> "zero"
      [] OTHER                       -> "negative"

Gamma(alpha) ==
    LET g == Over(Minus(alpha, One), alpha) IN IF g.n >= 0 THEN g ELSE Negated(g)

MuOf(branch, alpha, high, low) ==
    CASE branch = "flat"     -> Zero
      [] branch = "zero"     -> LogOf(Over(high, low))
      [] branch = "negative" -> Minus(One, PowPositive(Over(high, low), alpha))
      [] OTHER               -> Minus(One, PowPositive(Over(low, high), alpha))

KappaOf(branch, alpha, mu, high, low) ==
    CASE branch = "flat"     -> high
      [] branch = "one"      -> Mul(mu, high)
      [] branch = "zero"     -> Mul(mu, low)
      [] branch = "negative" -> Mul(Mul(mu, Gamma(alpha)), low)
      [] OTHER               -> Mul(Mul(mu, Gamma(alpha)), high)

CanCompile(side, start, end) ==
    /\ Less(Zero, start) /\ Less(Zero, end)
    /\ IF side = "buy" THEN AtMost(end, start) ELSE AtMost(start, end)

\* compile_curve; its last check, positive commitments, is MuOf, KappaOf > 0.
CompileCurve(side, start, end, displayed) ==
    LET high   == IF side = "buy" THEN start ELSE Inverted(start)
        low    == IF side = "buy" THEN end ELSE Inverted(end)
        native == IF side = "buy" THEN displayed ELSE Negated(displayed)
        branch == Branch(native, high, low)
        mu     == MuOf(branch, native, high, low)
    IN  [side |-> side, start |-> start, end |-> end,
         displayed |-> IF branch = "flat" THEN Zero ELSE displayed,
         alpha |-> IF branch = "flat" THEN Zero ELSE native,
         high |-> high, low |-> low, branch |-> branch, mu |-> mu,
         kappa |-> KappaOf(branch, native, mu, high, low)]

\* (PLow, PHigh) again, from the reduced encoding alone.
ReconstructBounds(c) ==
    LET rest  == PowPositive(Minus(One, c.mu), Inverted(c.alpha))
        scale == Over(c.kappa, Mul(c.mu, Gamma(c.alpha)))
    IN  CASE c.branch = "flat"     -> <<c.kappa, c.kappa>>
          [] c.branch = "one"      -> <<Mul(Over(c.kappa, c.mu), Minus(One, c.mu)), Over(c.kappa, c.mu)>>
          [] c.branch = "zero"     -> <<Over(c.kappa, c.mu), Mul(Over(c.kappa, c.mu), ExpOf(c.mu))>>
          [] c.branch = "negative" -> <<scale, Mul(scale, rest)>>
          [] OTHER                 -> <<Mul(scale, rest), scale>>
-----------------------------------------------------------------------------
(* Coordinates.                                                             *)

Shifted(c, ratio) == Minus(One, Mul(c.mu, Minus(One, ratio)))

NativeMarginalRate(c, y, yInt) ==
    LET r     == Over(y, yInt)
        z     == Shifted(c, r)
        g     == Gamma(c.alpha)
        scale == Over(c.kappa, Mul(c.mu, g))
    IN  CASE c.branch = "flat" -> c.kappa
          [] c.branch = "greater_than_one" -> Mul(scale, PowPositive(z, Minus(One, g)))
          [] c.branch = "one" -> Mul(Over(c.kappa, c.mu), z)
          [] c.branch = "between_zero_and_one" -> Mul(scale, PowPositive(z, Plus(One, g)))
          [] c.branch = "zero" -> Mul(Over(c.kappa, c.mu), ExpOf(Mul(c.mu, r)))
          [] OTHER -> Mul(scale, PowPositive(Minus(One, Mul(c.mu, r)), Minus(One, g)))

XOfY(c, y, yInt) ==
    LET r == Over(y, yInt)
        z == Shifted(c, r)
        g == Gamma(c.alpha)
        term ==
          CASE c.branch = "greater_than_one" -> Minus(One, PowPositive(z, g))
            [] c.branch = "one" -> Negated(LogOf(z))
            [] c.branch = "between_zero_and_one" -> Minus(PowPositive(z, Negated(g)), One)
            [] c.branch = "zero" -> Minus(ExpOf(Negated(Mul(c.mu, r))), ExpOf(Negated(c.mu)))
            [] OTHER -> Minus(PowPositive(Minus(One, Mul(c.mu, r)), g),
                              PowPositive(Minus(One, c.mu), g))
    IN  IF c.branch = "flat" THEN Over(Minus(yInt, y), c.kappa)
        ELSE Mul(Over(yInt, c.kappa), term)

YOfX(c, x, yInt) ==
    LET scaled == Over(Mul(c.kappa, x), yInt)
        g      == Gamma(c.alpha)
        term ==
          CASE c.branch = "greater_than_one" ->
                 Minus(Plus(PowPositive(Minus(One, scaled), Inverted(g)), c.mu), One)
            [] c.branch = "one" -> Minus(Plus(ExpOf(Negated(scaled)), c.mu), One)
            [] c.branch = "between_zero_and_one" ->
                 Minus(Plus(PowPositive(Plus(One, scaled), Negated(Inverted(g))), c.mu), One)
            [] c.branch = "zero" -> Negated(LogOf(Plus(ExpOf(Negated(c.mu)), scaled)))
            [] OTHER ->
                 Minus(One, PowPositive(Plus(PowPositive(Minus(One, c.mu), g), scaled), Inverted(g)))
    IN  IF c.branch = "flat" THEN Minus(yInt, Mul(x, c.kappa))
        ELSE Mul(Over(yInt, c.mu), term)
-----------------------------------------------------------------------------
(* The same curve written as a Holder mean of its end prices.               *)

HolderPrice(start, end, alpha, progress) ==
    LET mix(a, b) == Plus(Mul(Minus(One, progress), a), Mul(progress, b))
    IN  CASE start = end -> start
          [] start # end /\ alpha = Zero -> ExpOf(mix(LogOf(start), LogOf(end)))
          [] OTHER -> PowPositive(mix(PowPositive(start, alpha), PowPositive(end, alpha)),
                                  Inverted(alpha))

NativeHolderRate(c, progress) == HolderPrice(c.high, c.low, c.alpha, progress)

\* The conjugate schedule runs over the incoming coordinate, with alpha - 1.
ConjugateMarginalRate(c, x, yInt) ==
    IF c.branch = "flat" THEN c.kappa
    ELSE HolderPrice(c.high, c.low, Minus(c.alpha, One), Over(x, XOfY(c, Zero, yInt)))

DirectIntegratedX(c, yInt, progress) ==
    LET a     == c.alpha
        power == Plus(Mul(Minus(One, progress), PowPositive(c.high, a)),
                      Mul(progress, PowPositive(c.low, a)))
    IN  CASE c.branch = "flat" -> Over(Mul(yInt, progress), c.kappa)
          [] c.branch = "one" ->
               Mul(Over(yInt, Minus(c.high, c.low)),
                   LogOf(Over(c.high, NativeHolderRate(c, progress))))
          [] c.branch = "zero" ->
               Mul(Over(yInt, Mul(c.high, LogOf(Over(c.high, c.low)))),
                   Minus(PowPositive(Over(c.high, c.low), progress), One))
          [] OTHER ->
               Over(Mul(Over(Mul(yInt, a), Minus(a, One)),
                        Minus(PowPositive(power, Over(Minus(a, One), a)),
                              PowPositive(c.high, Minus(a, One)))),
                    Minus(PowPositive(c.low, a), PowPositive(c.high, a)))

\* Effective rate of a finite traversal, from the marginal rates at its ends.
DUp(a, before, after) ==
    LET geometric == Over(Mul(Mul(before, after), LogOf(Over(before, after))), Minus(before, after))
    IN  CASE before = after -> before
          [] before # after /\ a = One ->
               Over(Minus(before, after), Minus(LogOf(before), LogOf(after)))
          [] before # after /\ a = Zero -> geometric
          [] OTHER ->
               Mul(Over(Minus(a, One), a),
                   Over(Minus(PowPositive(before, a), PowPositive(after, a)),
                        Minus(PowPositive(before, Minus(a, One)), PowPositive(after, Minus(a, One)))))

\* The same law for the displayed price of a sell side.
DDown(a, before, after) ==
    CASE before = after -> before
      [] before # after /\ a = Zero ->
           Over(Minus(before, after), Minus(LogOf(before), LogOf(after)))
      [] before # after /\ a = Negated(One) ->
           Over(Mul(Mul(before, after), LogOf(Over(before, after))), Minus(before, after))
      [] OTHER ->
           Mul(Over(a, Plus(a, One)),
               Over(Minus(PowPositive(before, Plus(a, One)), PowPositive(after, Plus(a, One))),
                    Minus(PowPositive(before, a), PowPositive(after, a))))

DisplayedPrice(c, rate) == IF c.side = "buy" THEN rate ELSE Inverted(rate)

\* The scale of a position whose marginal rate is known but not its yInt.
RecoverYInt(c, y, rate) ==
    IF c.branch = "zero"
    THEN Over(Mul(y, LogOf(Over(c.high, c.low))), LogOf(Over(rate, c.low)))
    ELSE Over(Mul(y, Minus(PowPositive(c.high, c.alpha), PowPositive(c.low, c.alpha))),
              Minus(PowPositive(rate, c.alpha), PowPositive(c.low, c.alpha)))
-----------------------------------------------------------------------------
(* Quotes and recycling.                                                    *)

QuoteFromState(c, y, yInt, yAfter) ==
    LET in  == Minus(XOfY(c, yAfter, yInt), XOfY(c, y, yInt))
        out == Minus(y, yAfter)
    IN  [in |-> in, out |-> out, yAfter |-> yAfter,
         before |-> NativeMarginalRate(c, y, yInt),
         after |-> NativeMarginalRate(c, yAfter, yInt),
         effective |-> Over(out, in)]

QuoteExactOutput(c, y, yInt, out) == QuoteFromState(c, y, yInt, Minus(y, out))
QuoteExactInput(c, y, yInt, in) ==
    QuoteFromState(c, y, yInt, YOfX(c, Plus(XOfY(c, y, yInt), in), yInt))

RecycleInventory(y, yInt, received) ==
    IF y = Zero THEN [y |-> received, yInt |-> received]
    ELSE [y |-> Plus(y, received), yInt |-> Mul(yInt, Over(Plus(y, received), y))]

SplitPathCost(c, y, yInt, first, second) ==
    <<QuoteExactOutput(c, y, yInt, Plus(first, second)).in,
      Plus(QuoteExactOutput(c, y, yInt, first).in,
           QuoteExactOutput(c, Minus(y, first), yInt, second).in)>>

\* wad_rounding_interval: the WAD integer above a value.
CeilingWad(v, wad) == -((-(v.n * wad)) \div v.d)
-----------------------------------------------------------------------------
(* Properties *)

\* Everything the oracle computes twice agrees, on every branch and from
\* every reserve: coordinates and their inverse and integral, the schedule in
\* alpha, in the conjugate exponent and as displayed, finite means and
\* secants, the bounds and the scale recovered from the encoding, a traversal
\* in one piece and in two, and the rates before and after recycling (the
\* cross-checks behind the vectors that the contracts and packages are tested
\* with, build_curve_vector).
OracleAgrees(c, yInt, reserves) ==
    /\ CanCompile(c.side, c.start, c.end)
    /\ c.branch # "flat" => Less(Zero, c.mu) /\ Less(Zero, c.kappa)
    /\ ReconstructBounds(c) = <<c.low, c.high>>
    /\ Over(yInt, XOfY(c, Zero, yInt)) = DUp(c.alpha, c.high, c.low)
    /\ \A y \in reserves :
         LET x        == XOfY(c, y, yInt)
             rate     == NativeMarginalRate(c, y, yInt)
             progress == Minus(One, Over(y, yInt))
         IN  /\ YOfX(c, x, yInt) = y
             /\ DirectIntegratedX(c, yInt, progress) = x
             /\ NativeHolderRate(c, progress) = rate
             /\ ConjugateMarginalRate(c, x, yInt) = rate
             /\ HolderPrice(c.start, c.end, c.displayed, progress) = DisplayedPrice(c, rate)
             /\ y # Zero =>
                  /\ c.branch # "flat" => RecoverYInt(c, y, rate) = yInt
                  /\ LET s == RecycleInventory(y, yInt, One)
                     IN  /\ NativeMarginalRate(c, s.y, s.yInt) = rate
                         /\ XOfY(c, s.y, s.yInt) = Mul(x, Over(s.yInt, yInt))
    /\ \A y, yAfter \in reserves : Less(yAfter, y) =>
         \A q \in { QuoteExactOutput(c, y, yInt, Minus(y, yAfter)) } :
           /\ QuoteExactInput(c, y, yInt, q.in) = q
           /\ DUp(c.alpha, q.before, q.after) = q.effective
           /\ \A before \in {DisplayedPrice(c, q.before)}, after \in {DisplayedPrice(c, q.after)} :
                DisplayedPrice(c, q.effective) =
                  (IF c.side = "buy" THEN DUp(c.displayed, before, after)
                                     ELSE DDown(c.displayed, before, after))
           /\ \A middle \in reserves :
                Less(yAfter, middle) /\ Less(middle, y) =>
                  \A costs \in { SplitPathCost(c, y, yInt, Minus(y, middle), Minus(middle, yAfter)) } :
                    costs[1] = costs[2]
=============================================================================
