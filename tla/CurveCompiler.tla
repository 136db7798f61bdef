--------------------------- MODULE CurveCompiler ---------------------------
(***************************************************************************)
(* Compilation of a maker's displayed quote/base policy into one native    *)
(* output/input curve (contracts/src/libraries/CurveCompiler.sol and the   *)
(* direction helpers of contracts/src/types/CurveTypes.sol), and the       *)
(* structural checks of PositionCodec.                                     *)
(*                                                                         *)
(* The transcendental primitives are constants: Ln, Exp and Pow stand for  *)
(* TranscendentalMath.lnWad, expWad and powWad, whose values come from the *)
(* Solady backend.  A configuration of the model gives them values.        *)
(***************************************************************************)
EXTENDS FixedPoint

CONSTANTS
    Ln(_),       \* WAD logarithm of a positive WAD value (may be negative)
    Exp(_),      \* WAD exponential of a signed WAD value
    Pow(_, _),   \* WAD power of a positive WAD base to a signed WAD exponent
    Tolerance    \* COMMITMENT_TOLERANCE_WAD

Sides == {"Sell", "Buy"}
Opposite(side) == IF side = "Sell" THEN "Buy" ELSE "Sell"

\* What the taker pays in and receives on a maker side of a base/quote pair.
TokenIn(side, base, quote) == IF side = "Sell" THEN quote ELSE base
TokenOut(side, base, quote) == IF side = "Sell" THEN base ELSE quote

NativeAlpha(config, side) == IF side = "Sell" THEN -config.alpha ELSE config.alpha

Branch(config, side) ==
    IF config.startPrice = config.endPrice THEN "Flat"
    ELSE CASE NativeAlpha(config, side) = 0   -> "NativeAlphaZero"
           [] NativeAlpha(config, side) = WAD -> "NativeAlphaOne"
           [] OTHER                           -> "General"

Magnitude(n) == IF n >= 0 THEN n ELSE -n

\* gamma = |alpha - 1| / |alpha|; only the General branch uses it.
Gamma(alpha) == MulDiv(Magnitude(alpha - WAD), WAD, Magnitude(alpha), "Down")

NativePrice(price, side) ==
    IF side = "Buy" THEN price ELSE ReciprocalWad(price, "Down")

DeriveMu(pLow, pHigh, alpha) ==
    CASE alpha = 0 -> Ln(DivWad(pHigh, pLow, "Down"))
      [] alpha > 0 -> WAD - Pow(DivWad(pLow, pHigh, "Down"), alpha)
      [] OTHER     -> WAD - Pow(DivWad(pHigh, pLow, "Down"), alpha)

DeriveKappa(mu, pLow, pHigh, alpha) ==
    CASE alpha = WAD -> MulWad(mu, pHigh, "Down")
      [] alpha = 0   -> MulWad(mu, pLow, "Down")
      [] OTHER       -> MulWad(MulWad(mu, Gamma(alpha), "Down"),
                               IF alpha > 0 THEN pHigh ELSE pLow, "Down")

\* The native curve of a policy; a flat curve has mu = 0 and kappa = its rate.
Native(config, side) ==
    LET pHigh == NativePrice(config.startPrice, side)
        pLow  == NativePrice(config.endPrice, side)
        alpha == NativeAlpha(config, side)
        flat  == Branch(config, side) = "Flat"
        mu    == IF flat THEN 0 ELSE DeriveMu(pLow, pHigh, alpha)
    IN  [branch |-> Branch(config, side),
         alpha  |-> alpha,
         mu     |-> mu,
         kappa  |-> IF flat THEN pHigh ELSE DeriveKappa(mu, pLow, pHigh, alpha)]

\* None of the reverts of _deriveNative: ordered positive endpoints and
\* commitments inside their domains.
Derivable(config, side) ==
    LET pHigh == NativePrice(config.startPrice, side)
        pLow  == NativePrice(config.endPrice, side)
        curve == Native(config, side)
    IN  /\ IsRate(pHigh) /\ IsRate(pLow)
        /\ curve.branch # "Flat" => /\ pLow < pHigh
                                    /\ curve.mu > 0
                                    /\ curve.branch = "General" => Gamma(curve.alpha) > 0
        /\ IsAmount(curve.mu) /\ IsRate(curve.kappa)

\* derive: the policy with its canonical commitments filled in.
Derive(config, side) ==
    LET curve == Native(config, side)
    IN  [config EXCEPT !.alpha = IF curve.branch = "Flat" THEN 0 ELSE @,
                       !.mu = curve.mu, !.kappa = curve.kappa]

\* compile: the supplied commitments must match the derived ones.
Compiles(config, side) ==
    /\ Derivable(config, side)
    /\ Magnitude(config.mu - Native(config, side).mu) <= Tolerance
    /\ Magnitude(config.kappa - Native(config, side).kappa) <= Tolerance

\* PositionCodec.validateStructure, run on every decoded payload.
ValidCurve(config, side) ==
    /\ config.startPrice > 0 /\ config.endPrice > 0
    /\ IF config.startPrice = config.endPrice
       THEN config.alpha = 0 /\ config.mu = 0 /\ config.kappa > 0
       ELSE /\ IF side = "Sell" THEN config.startPrice < config.endPrice
                                ELSE config.startPrice > config.endPrice
            /\ config.mu > 0 /\ config.kappa > 0

ValidStructure(position) ==
    /\ position.base # position.quote
    /\ \A side \in Sides : ValidCurve(position[side], side)
    /\ position["Sell"].initialReserve > 0 \/ position["Buy"].initialReserve > 0
=============================================================================
