----------------------------- MODULE TokenUnits -----------------------------
(***************************************************************************)
(* Tokens and their decimals: the conversions between raw ERC-20 units and *)
(* WAD amounts (contracts/src/libraries/FullPrecisionMath.sol).            *)
(***************************************************************************)
EXTENDS FixedPoint

CONSTANTS
    Tokens,
    Factor       \* token -> 10^(18 - decimals), the raw-to-WAD factor

ASSUME TokenAssumption == Factor \in [Tokens -> Nat \ {0}]

RawToWad(raw, factor) == raw * factor
WadToRaw(amount, factor, rounding) == MulDiv(amount, 1, factor, rounding)
=============================================================================
