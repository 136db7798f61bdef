----------------------------- MODULE Primitives -----------------------------
(***************************************************************************)
(* What CurveMath and CurveCompiler compute with: the parts of             *)
(* contracts/src/libraries/FullPrecisionMath.sol that depend on the width  *)
(* and sign of a word, and the logarithm, exponential and power of         *)
(* contracts/src/libraries/TranscendentalMath.sol with the intervals that  *)
(* are said to enclose the real values.                                    *)
(*                                                                         *)
(* Can... holds when the call does not revert.  The Solady backend is a    *)
(* pair of constants, of which only the published error is assumed.        *)
(***************************************************************************)
EXTENDS FixedPoint

CONSTANTS
    Word,                  \* 2^256
    SoladyLn(_),           \* FixedPointMathLib.lnWad
    SoladyExp(_),          \* FixedPointMathLib.expWad
    MinExpInput,           \* the domain of exponents, in WAD
    MaxExpInput,
    NearZero,              \* NEAR_ZERO_WAD: inputs that are their own expm1 and log1p
    LnError, ExpError      \* the engineering envelopes of the backend

ASSUME PrimitivesAssumption ==
    /\ Word \in Nat \ {0} /\ Word % 2 = 0
    /\ MinExpInput <= 0 /\ MaxExpInput >= 0
    /\ {NearZero, LnError, ExpError} \subseteq Nat

SignedWords == -(Word \div 2) .. Word \div 2 - 1

\* abs, which is defined for the most negative word too.
Abs(v) == IF v >= 0 THEN v ELSE -(v + 1) + 1
-----------------------------------------------------------------------------
(* Full-precision products.                                                 *)

\* The high word of the product decides whether the quotient fits.
CanMulDiv(x, y, d, rounding) ==
    /\ d # 0
    /\ (x * y) \div Word < d
    /\ rounding = "Up" /\ (x * y) % d # 0 => (x * y) \div d # Word - 1

Negative(x, y, d) == ((x < 0) # (y < 0)) # (d < 0)

SignedMagnitude(x, y, d, rounding) ==
    LET grows == Abs(x) * Abs(y) % Abs(d) # 0 /\ (Negative(x, y, d) <=> rounding = "Down")
    IN  MulDiv(Abs(x), Abs(y), Abs(d), "Down") + (IF grows THEN 1 ELSE 0)

\* Mutant of MulDivSigned: a quotient rounds toward zero.
MulDivSignedTruncated(x, y, d, rounding) ==
    LET magnitude == MulDiv(Abs(x), Abs(y), Abs(d), "Down")
    IN  IF Negative(x, y, d) THEN -magnitude ELSE magnitude

MulDivSigned(x, y, d, rounding) ==
    LET magnitude == SignedMagnitude(x, y, d, rounding)
    IN  IF Negative(x, y, d) THEN -magnitude ELSE magnitude

\* _fromMagnitude: only a negative result reaches the most negative word.
CanMulDivSigned(x, y, d, rounding) ==
    /\ d # 0
    /\ CanMulDiv(Abs(x), Abs(y), Abs(d), "Down")
    /\ LET magnitude == SignedMagnitude(x, y, d, rounding)
       IN  IF Negative(x, y, d) THEN magnitude <= Word \div 2 ELSE magnitude < Word \div 2

MulWadSigned(x, y, rounding) == MulDivSigned(x, y, WAD, rounding)
-----------------------------------------------------------------------------
(* Logarithm and exponential.                                               *)

CanLn(v) == IsRate(v)
LnWad(v) == IF v = WAD THEN 0 ELSE SoladyLn(v)
LnWadBounds(v) ==
    IF v = WAD THEN <<0, 0>> ELSE <<LnWad(v) - LnError, LnWad(v) + LnError>>

CanExp(x) == x \in MinExpInput .. MaxExpInput
ExpWad(x) == IF x = 0 THEN WAD ELSE SoladyExp(x)

ExpErrorBound(estimate) == MulDiv(estimate, 1, WAD, "Up") + ExpError

ExpWadBounds(x) ==
    LET error == ExpErrorBound(ExpWad(x))
    IN  IF x = 0 THEN <<WAD, WAD>>
        ELSE <<IF ExpWad(x) > error THEN ExpWad(x) - error ELSE 0, ExpWad(x) + error>>

IsNearZero(x) == Abs(x) <= NearZero

Expm1Wad(x) == IF IsNearZero(x) THEN x ELSE ExpWad(x) - WAD
Expm1WadBounds(x) ==
    CASE x = 0         -> <<0, 0>>
      [] x # 0 /\ IsNearZero(x) -> <<x - 1, x + 1>>
      [] OTHER         -> <<ExpWadBounds(x)[1] - WAD, ExpWadBounds(x)[2] - WAD>>

CanLog1p(x) == x > -WAD /\ x <= MaxAmount
Log1pWad(x) == IF IsNearZero(x) THEN x ELSE LnWad(WAD + x)
Log1pWadBounds(x) ==
    CASE x = 0         -> <<0, 0>>
      [] x # 0 /\ IsNearZero(x) -> <<x - 1, x + 1>>
      [] OTHER         -> LnWadBounds(WAD + x)
-----------------------------------------------------------------------------
(* Powers: exp(exponent * ln(base)).                                        *)

\* _mulPowerWad refuses a product beyond the domain before it forms it.
CanMulPower(left, right) ==
    left # 0 => Abs(right) <= (MaxExpInput * WAD) \div Abs(left)

\* Mutant of PowerArgumentBounds: the sign of the exponent is ignored.
PowerArgumentBoundsUnsigned(base, exponent) ==
    LET ln == LnWadBounds(base)
    IN  <<MulWadSigned(exponent, ln[1], "Down"), MulWadSigned(exponent, ln[2], "Up")>>

\* A negative exponent turns the interval of the logarithm round.
PowerArgumentBounds(base, exponent) ==
    LET ln == LnWadBounds(base)
        lower == IF exponent >= 0 THEN ln[1] ELSE ln[2]
        upper == IF exponent >= 0 THEN ln[2] ELSE ln[1]
    IN  <<MulWadSigned(exponent, lower, "Down"), MulWadSigned(exponent, upper, "Up")>>

ExactPower(base, exponent) == exponent = 0 \/ base = WAD \/ exponent = WAD

CanPow(base, exponent) ==
    /\ CanLn(base)
    /\ ExactPower(base, exponent) \/
         /\ \A ln \in {LnWadBounds(base)[1], LnWadBounds(base)[2]} : CanMulPower(exponent, ln)
         /\ LET bounds == PowerArgumentBounds(base, exponent)
            IN  bounds[1] >= MinExpInput /\ bounds[2] <= MaxExpInput

\* The argument of the exponential is truncated toward zero.
PowWad(base, exponent) ==
    CASE exponent = 0 \/ base = WAD -> WAD
      [] exponent = WAD /\ base # WAD -> base
      [] OTHER ->
           LET ln       == LnWad(base)
               negative == (ln < 0) # (exponent < 0)
           IN  ExpWad(MulWadSigned(ln, exponent, IF negative THEN "Up" ELSE "Down"))

PowWadBounds(base, exponent) ==
    CASE exponent = 0 \/ base = WAD -> <<WAD, WAD>>
      [] exponent = WAD /\ base # WAD -> <<base, base>>
      [] OTHER ->
           LET argument == PowerArgumentBounds(base, exponent)
           IN  <<ExpWadBounds(argument[1])[1], ExpWadBounds(argument[2])[2]>>
-----------------------------------------------------------------------------
(* Properties *)

FloorQuotient(n, d) == IF d > 0 THEN n \div d ELSE (-n) \div (-d)

\* Signed products round to the floor or ceiling of the exact quotient, and
\* are refused exactly when it does not fit a signed word (mulDivSigned, which
\* works on magnitudes and must turn the rounding round for negative results).
SignedProductsAreExact ==
    \A x, y, d \in SignedWords, rounding \in Rounding :
        LET exact == IF rounding = "Down" THEN FloorQuotient(x * y, d)
                                          ELSE -FloorQuotient(-(x * y), d)
        IN  d # 0 =>
              /\ CanMulDivSigned(x, y, d, rounding) <=> exact \in SignedWords
              /\ CanMulDivSigned(x, y, d, rounding) =>
                   MulDivSigned(x, y, d, rounding) = exact

\* floor and ceiling of the square of WAD * (base / WAD)^(k / 2)
SquareOfPower(base, k, rounding) ==
    CASE k >= 2         -> MulDiv(base ^ k, 1, WAD ^ (k - 2), rounding)
      [] k \in {0, 1}   -> WAD ^ (2 - k) * base ^ k
      [] OTHER          -> MulDiv(WAD ^ (2 - k), 1, base ^ (-k), rounding)

\* Whatever the backend returns within its published error, the interval of a
\* power encloses the real power, known exactly for half-integral exponents,
\* and the power that the curves use lies in it (powWad and powWadBounds).
PowersAreEnclosed(bases, halves) ==
    \A base \in bases, k \in halves :
        LET exponent == (k * WAD) \div 2
            bounds   == PowWadBounds(base, exponent)
        IN  CanPow(base, exponent) =>
              /\ PowWad(base, exponent) \in bounds[1] .. bounds[2]
              /\ bounds[1] * bounds[1] <= SquareOfPower(base, k, "Down")
              /\ bounds[2] * bounds[2] >= SquareOfPower(base, k, "Up")

\* Near zero, where the code takes the argument for the result, the shortcut
\* and the backend enclose a common value, and the shortcut lies in its interval.
ShortcutsAgree ==
    \A x \in -NearZero .. NearZero :
        LET meet(left, right) == left[1] <= right[2] /\ right[1] <= left[2]
        IN  CanExp(x) /\ CanLog1p(x) =>
              /\ meet(Expm1WadBounds(x), <<ExpWadBounds(x)[1] - WAD, ExpWadBounds(x)[2] - WAD>>)
              /\ meet(Log1pWadBounds(x), LnWadBounds(WAD + x))
              /\ Expm1Wad(x) \in Expm1WadBounds(x)[1] .. Expm1WadBounds(x)[2]
              /\ Log1pWad(x) \in Log1pWadBounds(x)[1] .. Log1pWadBounds(x)[2]
=============================================================================
