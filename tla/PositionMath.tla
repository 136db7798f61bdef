---------------------------- MODULE PositionMath ----------------------------
(***************************************************************************)
(* The runtime of one two-sided maker position and its transition under a  *)
(* fill (contracts/src/libraries/PositionMath.sol), and the curve kernel   *)
(* that quotes a fill in raw token amounts                                 *)
(* (contracts/src/core/LiquidOBCurveKernel.sol).                           *)
(*                                                                         *)
(* A position is a record [maker, base, quote, Sell, Buy] whose last two   *)
(* fields are CurveConfigs; a runtime is a record [Sell, Buy, version,     *)
(* initialized] whose first two fields are curve states.                   *)
(***************************************************************************)
EXTENDS CurveMath, TokenUnits

CONSTANT
    MaxVersion   \* largest uint64 runtime version

ASSUME PositionAssumption == MaxVersion \in Nat

Kinds == {"ExactInput", "ExactOutput"}

CurveStates == [y : Amounts, yInt : Amounts]
Runtimes == [Sell : CurveStates, Buy : CurveStates,
             version : 0 .. MaxVersion, initialized : BOOLEAN]

FreshState(reserve) == [y |-> reserve, yInt |-> reserve]

\* The all-zero storage record of a position that has never filled.
Unset == [Sell |-> FreshState(0), Buy |-> FreshState(0),
          version |-> 0, initialized |-> FALSE]

Initial(position) ==
    [Unset EXCEPT !.Sell = FreshState(position.Sell.initialReserve),
                  !.Buy  = FreshState(position.Buy.initialReserve)]

Resolve(position, stored) == IF stored.initialized THEN stored ELSE Initial(position)

\* Mutants of Credit: the scale is left alone, or rounds down.
CreditReserveOnly(s, amount) ==
    IF amount = 0 THEN s
    ELSE IF s.y = 0 THEN FreshState(amount)
    ELSE [s EXCEPT !.y = @ + amount]

CreditRoundedDown(s, amount) ==
    IF amount = 0 THEN s
    ELSE IF s.y = 0 THEN FreshState(amount)
    ELSE [y    |-> s.y + amount,
          yInt |-> MulDiv(s.yInt, s.y + amount, s.y, "Down")]

\* Recycling: the received amount enlarges the opposite curve homothetically,
\* or rearms it from zero.
Credit(s, amount) ==
    IF amount = 0 THEN s
    ELSE IF s.y = 0 THEN FreshState(amount)
    ELSE [y    |-> s.y + amount,
          yInt |-> MulDiv(s.yInt, s.y + amount, s.y, "Up")]

\* Mutant of CanCredit: the enlarged scale is narrowed without a check.
CanCreditUnchecked(s, amount) == IsAmount(Credit(s, amount).y)

CanCredit(s, amount) ==
    IsAmount(Credit(s, amount).y) /\ IsAmount(Credit(s, amount).yInt)

\* Mutants of Transition: raw units are credited, or the version stays.
TransitionCreditsRaw(runtime, side, q) ==
    [runtime EXCEPT ![side].y = q.yAfter,
                    ![Opposite(side)] = Credit(@, q.amountIn),
                    !.version = @ + 1,
                    !.initialized = TRUE]

TransitionKeepsVersion(runtime, side, q) ==
    [runtime EXCEPT ![side].y = q.yAfter,
                    ![Opposite(side)] = Credit(@, q.inWad),
                    !.initialized = TRUE]

Transition(runtime, side, q) ==
    [runtime EXCEPT ![side].y = q.yAfter,
                    ![Opposite(side)] = Credit(@, q.inWad),
                    !.version = @ + 1,
                    !.initialized = TRUE]

CanTransition(runtime, side, q) ==
    /\ CanCredit(runtime[Opposite(side)], q.inWad)
    /\ runtime.version < MaxVersion
-----------------------------------------------------------------------------
(* quotePosition.  A fill is [amountIn, amountOut, inWad, outWad, yAfter].  *)

SideIn(position, side) == TokenIn(side, position.base, position.quote)
SideOut(position, side) == TokenOut(side, position.base, position.quote)
FactorIn(position, side) == Factor[SideIn(position, side)]
FactorOut(position, side) == Factor[SideOut(position, side)]

\* The output an exact-input quote delivers, floored to raw units.
RawOutput(position, runtime, side, raw) ==
    LET q == QuoteExactInput(Native(position[side], side), runtime[side],
                             RawToWad(raw, FactorIn(position, side)))
    IN  WadToRaw(q.out, FactorOut(position, side), "Down")

\* Mutant of RawInput: the required input is floored.
RawInputFloored(position, runtime, side, raw) ==
    LET q == QuoteExactOutput(Native(position[side], side), runtime[side],
                              RawToWad(raw, FactorOut(position, side)))
    IN  WadToRaw(q.in, FactorIn(position, side), "Down")

\* The input an exact-output quote requires, raised to raw units.
RawInput(position, runtime, side, raw) ==
    LET q == QuoteExactOutput(Native(position[side], side), runtime[side],
                              RawToWad(raw, FactorOut(position, side)))
    IN  WadToRaw(q.in, FactorIn(position, side), "Up")

\* The fill in transferable amounts.  The reserve moves by exactly the output
\* that is transferred: an exact-input quote that lost output to rounding is
\* rebound to the exact-output quote of what remains.
PositionFill(position, runtime, side, kind, raw) ==
    LET amountIn  == IF kind = "ExactInput" THEN raw
                     ELSE RawInput(position, runtime, side, raw)
        amountOut == IF kind = "ExactInput" THEN RawOutput(position, runtime, side, raw)
                     ELSE raw
        outWad    == RawToWad(amountOut, FactorOut(position, side))
    IN  [amountIn  |-> amountIn,
         amountOut |-> amountOut,
         inWad     |-> RawToWad(amountIn, FactorIn(position, side)),
         outWad    |-> outWad,
         yAfter    |-> runtime[side].y - outWad]

CanFillExactInput(position, runtime, side, raw) ==
    LET curve == Native(position[side], side)
        s     == runtime[side]
        in    == RawToWad(raw, FactorIn(position, side))
        out   == RawToWad(RawOutput(position, runtime, side, raw), FactorOut(position, side))
    IN  /\ IsAmount(in)
        /\ CanQuoteExactInput(curve, s, side, in)
        /\ out # QuoteExactInput(curve, s, in).out => CanQuoteExactOutput(curve, s, side, out)

CanFillExactOutput(position, runtime, side, raw) ==
    LET curve == Native(position[side], side)
        out   == RawToWad(raw, FactorOut(position, side))
    IN  /\ IsAmount(out)
        /\ CanQuoteExactOutput(curve, runtime[side], side, out)
        /\ IsAmount(RawToWad(RawInput(position, runtime, side, raw), FactorIn(position, side)))

\* withTransferAmounts: both transferable amounts positive, rate in domain.
Transferable(side, fill) ==
    /\ fill.amountIn > 0 /\ fill.amountOut > 0
    /\ IsRate(DivWad(fill.outWad, fill.inWad, "Down"))
    /\ IsRate(EffectivePrice(side, fill.inWad, fill.outWad))

\* The quote checks of the kernel, before the Aqua balance and the transition.
Quotable(position, runtime, side, kind, raw) ==
    /\ runtime[side].y # 0
    /\ Compiles(position[side], side)
    /\ IF kind = "ExactInput" THEN CanFillExactInput(position, runtime, side, raw)
                              ELSE CanFillExactOutput(position, runtime, side, raw)
    /\ Transferable(side, PositionFill(position, runtime, side, kind, raw))

\* quotePosition does not revert on this runtime version and Aqua balance.
CanFill(position, runtime, side, kind, raw, expectedVersion, outputBalance) ==
    LET fill == PositionFill(position, runtime, side, kind, raw)
    IN  /\ expectedVersion = runtime.version
        /\ Quotable(position, runtime, side, kind, raw)
        /\ fill.amountOut <= outputBalance
        /\ CanTransition(runtime, side, fill)
=============================================================================
