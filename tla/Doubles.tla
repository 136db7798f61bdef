------------------------------- MODULE Doubles -------------------------------
(***************************************************************************)
(* The number type of the JavaScript runtime, in which                     *)
(* packages/curve-math/src/compiler.ts computes commitments.  A finite     *)
(* non-negative double is the rational n / d, with a significand of Bits   *)
(* bits and a power of two; every operation rounds its exact result to the *)
(* nearest double.  A real double has 53 bits, fewer than the 60 of WAD,   *)
(* so that not every price or exponent is a double.  Exponents of two are  *)
(* as large as they need be.                                               *)
(***************************************************************************)
EXTENDS Integers

CONSTANT Bits

ASSUME DoublesAssumption == Bits \in Nat \ {0}

\* The powers of two within reach of the operands.
Scales == 0 .. 24

\* Half away from zero, as Math.round for positive numbers.
RoundHalfUp(n, d) == (2 * n + d) \div (2 * d)

\* n / 2^k in lowest terms.
Dyadic(n, k) ==
    LET j == CHOOSE j \in 0 .. k : n % 2 ^ j = 0 /\ (j = k \/ (n \div 2 ^ j) % 2 = 1)
    IN  [n |-> n \div 2 ^ j, d |-> 2 ^ (k - j)]

\* The double nearest to the rational n / d: its significand is the largest
\* that fits, with a fraction or, for a large value, with trailing zeros.
Nearest(n, d) ==
    IF n = 0 THEN [n |-> 0, d |-> 1]
    ELSE IF n >= d * 2 ^ Bits
    THEN LET k == CHOOSE k \in Scales : /\ n < d * 2 ^ (Bits + k)
                                        /\ n >= d * 2 ^ (Bits + k - 1)
         IN  [n |-> RoundHalfUp(n, d * 2 ^ k) * 2 ^ k, d |-> 1]
    ELSE LET k == CHOOSE k \in Scales : /\ n * 2 ^ k < d * 2 ^ Bits
                                        /\ k + 1 \in Scales => n * 2 ^ (k + 1) >= d * 2 ^ Bits
         IN  Dyadic(RoundHalfUp(n * 2 ^ k, d), k)

FromInt(v) == Nearest(v, 1)
Times(a, b) == Nearest(a.n * b.n, a.d * b.d)
DividedBy(a, b) == Nearest(a.n * b.d, a.d * b.n)

\* 1 - a, for a <= 1.
OneMinus(a) == Nearest(a.d - a.n, a.d)
=============================================================================
