----------------------------- MODULE FixedPoint -----------------------------
(***************************************************************************)
(* Checked fixed-point arithmetic of the Liquid OB kernel                  *)
(* (contracts/src/libraries/FullPrecisionMath.sol).                        *)
(*                                                                         *)
(* A WAD value v stands for the rational v / WAD.  The contracts use       *)
(* WAD = 10^18 and the uint128 wire domain MaxAmount = 2^128 - 1; both are *)
(* parameters here, so that TLC can put the rounding boundaries and the    *)
(* end of the domain within a few steps of each other while the proofs     *)
(* cover every value.  A revert is a predicate (IsAmount, ...) that the    *)
(* caller conjoins to its guard; the operators give the value computed     *)
(* when nothing reverts.                                                   *)
(***************************************************************************)
EXTENDS Integers

CONSTANTS
    WAD,        \* the fixed-point unit
    MaxAmount   \* largest value of the canonical uint128 domain

ASSUME FixedPointAssumption ==
    /\ WAD \in Nat \ {0}
    /\ MaxAmount \in Nat \ {0}

Rounding == {"Down", "Up"}

Amounts == 0 .. MaxAmount

\* The uint128 wire domain of toAmountWad; _toRate and _toPrice also reject 0.
IsAmount(v) == v \in Amounts
IsRate(v) == v \in Amounts \ {0}

\* x * y / d with an explicit floor or ceiling.
MulDiv(x, y, d, rounding) ==
    IF rounding = "Up" THEN (x * y + d - 1) \div d ELSE (x * y) \div d

MulWad(x, y, rounding) == MulDiv(x, y, WAD, rounding)
DivWad(x, y, rounding) == MulDiv(x, WAD, y, rounding)
ReciprocalWad(x, rounding) == MulDiv(WAD, WAD, x, rounding)
=============================================================================
