----------------------------- MODULE MakerProofs -----------------------------
(***************************************************************************)
(* What rounding does to a maker.  One flat side, on its own: for every     *)
(* unit, price, reserve and set of requests, no sequence of exact-input and *)
(* exact-output quotes beats the fresh rate.  And a position of two sides:  *)
(* its reserve stays within its scale, its allocation follows the reserve,  *)
(* and recycling never makes the other side cheaper.  The signed products   *)
(* that curves are computed with are exact.  And what becomes of a maker's  *)
(* draft: the plan ships what was previewed and leaves every side backed,   *)
(* and the index shows every strategy that can be traded.                   *)
(***************************************************************************)
EXTENDS DirectionalCurve, MakerPosition, Primitives, Publication, PositionMathProofs,
        FiniteSetTheorems
-----------------------------------------------------------------------------
(* One flat side.                                                           *)

\* Payment in full at the fresh rate: the inductive form of
\* NeverBeatsFreshRate, which also bounds the reserve by its scale.
PaidInFull ==
    /\ state \in [y : Amounts, yInt : Amounts]
    /\ state.y <= state.yInt
    /\ paid \in Nat
    /\ Taken * WAD <= paid * Curve.kappa

\* A compiled flat curve trades at its native price.
LEMMA FlatCurve ==
    ASSUME Branch(Policy, Side) = "Flat"
    PROVE  /\ Curve.branch = "Flat"
           /\ Curve.kappa = NativePrice(Policy.startPrice, Side)
           /\ Curve.kappa \in Nat \ {0}
           /\ WAD \in Nat \ {0} /\ MaxAmount \in Nat
  <1>1. /\ Curve.branch = "Flat"
        /\ Curve.kappa = NativePrice(Policy.startPrice, Side)
    BY DEF Curve, Native
  <1>2. IsRate(Curve.kappa)
    BY CurveAssumption DEF Compiles, Derivable, Curve
  <1> QED
    BY <1>1, <1>2, FixedPointAssumption DEF IsRate, Amounts

\* The coordinate a quote starts from is never ahead of what was paid.
LEMMA CoordinateBound ==
    ASSUME Branch(Policy, Side) = "Flat", PaidInFull
    PROVE  /\ XAtY(Curve, state, state.y, "Down") \in Nat
           /\ XAtY(Curve, state, state.y, "Down") <= paid
           /\ Curve.kappa * XAtY(Curve, state, state.y, "Down") <= Taken * WAD
  <1> DEFINE k == Curve.kappa
             x == XAtY(Curve, state, state.y, "Down")
  <1>1. k \in Nat \ {0} /\ WAD \in Nat /\ Taken \in Nat /\ paid \in Nat
    BY FlatCurve DEF PaidInFull, Taken, Amounts
  <1>2. x = MulDiv(Taken, WAD, k, "Down")
    BY FlatCurve DEF XAtY, DivWad, Taken
  <1> HIDE DEF k, x
  <1>3. x \in Nat /\ k * x <= Taken * WAD
    BY <1>1, <1>2, MulDivDown
  <1>4. k * x <= k * paid
    BY <1>1, <1>3 DEF PaidInFull, k
  <1>5. x <= paid
    BY <1>1, <1>3, <1>4, CancelFactor
  <1> QED
    BY <1>3, <1>5 DEF k, x

LEMMA InitPaid ==
    ASSUME Branch(Policy, Side) = "Flat", CurveInit
    PROVE  PaidInFull
  <1>1. /\ state \in [y : Amounts, yInt : Amounts]
        /\ state.y = state.yInt
        /\ paid = 0
    BY CurveAssumption DEF CurveInit
  <1>2. Taken = 0
    BY <1>1 DEF Taken, Amounts
  <1> QED
    BY <1>1, <1>2, FlatCurve DEF PaidInFull, Amounts

\* An exact-input quote delivers no more than the coordinate it reaches.
LEMMA ExactInputPaid ==
    ASSUME Branch(Policy, Side) = "Flat", PaidInFull,
           NEW in \in Requests, TakeExactInput(in)
    PROVE  PaidInFull'
  <1> DEFINE k == Curve.kappa
             x == XAtY(Curve, state, state.y, "Down")
             q == QuoteExactInput(Curve, state, in)
             taken == MulDiv(x + in, k, WAD, "Down")
  <1>1. k \in Nat \ {0} /\ WAD \in Nat \ {0} /\ paid \in Nat /\ in \in Nat
    BY FlatCurve, CurveAssumption DEF PaidInFull
  <1>2. x \in Nat /\ x <= paid
    BY CoordinateBound
  <1>3. /\ q.yAfter = state.yInt - taken
        /\ q.in = in
    BY FlatCurve DEF QuoteExactInput, YAtX, MulWad
  <1>4. q.yAfter \in Amounts
    BY DEF TakeExactInput, CanQuoteExactInput, Buildable, IsAmount
  <1>5. /\ state' = [state EXCEPT !.y = q.yAfter]
        /\ paid' = paid + in
    BY <1>3 DEF TakeExactInput, Apply
  <1> HIDE DEF k, x, q
  <1>6. taken \in Nat /\ WAD * taken <= (x + in) * k
    <2>1. x + in \in Nat /\ k \in Nat
      BY <1>1, <1>2
    <2> QED
      BY <1>1, <2>1, MulDivDown
  <1> HIDE DEF taken
  <1>7. k * (x + in) <= k * (paid + in)
    BY <1>1, <1>2, ScaleOrder
  <1>8. /\ state' \in [y : Amounts, yInt : Amounts]
        /\ state'.yInt = state.yInt
        /\ state'.y = q.yAfter
    BY <1>4, <1>5 DEF PaidInFull
  <1>9. Taken' = taken /\ state'.y <= state'.yInt
    BY <1>3, <1>6, <1>8 DEF Taken, PaidInFull, Amounts
  <1>10. taken * WAD <= (paid + in) * k
    BY <1>1, <1>2, <1>6, <1>7
  <1> QED
    BY <1>1, <1>5, <1>8, <1>9, <1>10 DEF PaidInFull, k, Curve

\* An exact-output quote charges at least the coordinate it moves by.
LEMMA ExactOutputPaid ==
    ASSUME Branch(Policy, Side) = "Flat", PaidInFull,
           NEW out \in Requests, TakeExactOutput(out)
    PROVE  PaidInFull'
  <1> DEFINE k == Curve.kappa
             x == XAtY(Curve, state, state.y, "Down")
             q == QuoteExactOutput(Curve, state, out)
             xAfter == MulDiv(Taken + out, WAD, k, "Up")
  <1>1. /\ k \in Nat \ {0} /\ WAD \in Nat \ {0} /\ paid \in Nat /\ out \in Nat
        /\ Taken \in Nat
    BY FlatCurve, CurveAssumption DEF PaidInFull, Taken, Amounts
  <1>2. x \in Nat /\ x <= paid
    BY CoordinateBound
  <1>3. state.yInt - (state.y - out) = Taken + out
    BY <1>1 DEF Taken, PaidInFull, Amounts
  <1>4. /\ q.yAfter = state.y - out
        /\ q.in = xAfter - x
    BY <1>3, FlatCurve DEF QuoteExactOutput, XAtY, DivWad
  <1>5. q.yAfter \in Amounts /\ q.in > 0
    BY DEF TakeExactOutput, CanQuoteExactOutput, Buildable, IsAmount
  <1>6. /\ state' = [state EXCEPT !.y = q.yAfter]
        /\ paid' = paid + q.in
    BY DEF TakeExactOutput, Apply
  <1> HIDE DEF k, x, q
  <1>7. xAfter \in Nat /\ (Taken + out) * WAD <= k * xAfter
    <2>1. Taken + out \in Nat /\ WAD \in Nat
      BY <1>1
    <2> QED
      BY <1>1, <2>1, MulDivUp
  <1> HIDE DEF xAfter
  <1>8. paid' \in Nat /\ xAfter <= paid'
    BY <1>1, <1>2, <1>4, <1>5, <1>6, <1>7
  <1>9. k * xAfter <= k * paid'
    <2>1. k \in Nat /\ xAfter \in Int /\ paid' \in Int /\ xAfter <= paid'
      BY <1>1, <1>7, <1>8
    <2> QED
      BY <2>1, ScaleOrder
  <1>10. /\ state' \in [y : Amounts, yInt : Amounts]
         /\ state'.yInt = state.yInt
         /\ state'.y = state.y - out
    BY <1>4, <1>5, <1>6 DEF PaidInFull
  <1>11. Taken' = Taken + out /\ state'.y <= state'.yInt
    BY <1>1, <1>10 DEF Taken, PaidInFull, Amounts
  <1>12. Taken' * WAD <= paid' * k
    <2>1. Taken' * WAD <= k * xAfter
      BY <1>7, <1>11
    <2>2. Taken' * WAD <= k * paid'
      <3>1. /\ Taken' * WAD \in Int /\ k * xAfter \in Int /\ k * paid' \in Int
        BY <1>1, <1>7, <1>8, <1>11
      <3> QED
        BY <2>1, <3>1, <1>9
    <2>3. k * paid' = paid' * k
      BY <1>1, <1>8
    <2> QED
      BY <2>2, <2>3
  <1> QED
    BY <1>8, <1>10, <1>11, <1>12 DEF PaidInFull, k, Curve

\* A flat curve is paid in full forever.
THEOREM FlatPaidInFull ==
    ASSUME Branch(Policy, Side) = "Flat"
    PROVE  CurveSpec => []PaidInFull
  <1>1. CurveInit => PaidInFull
    BY InitPaid
  <1>2. PaidInFull /\ [CurveNext]_curveVars => PaidInFull'
    <2> SUFFICES ASSUME PaidInFull, [CurveNext]_curveVars
                 PROVE  PaidInFull'
      OBVIOUS
    <2>1. CASE CurveNext
      <3>1. PICK amount \in Requests : TakeExactInput(amount) \/ TakeExactOutput(amount)
        BY <2>1 DEF CurveNext
      <3>2. CASE TakeExactInput(amount)
        BY <3>2, ExactInputPaid
      <3>3. CASE TakeExactOutput(amount)
        BY <3>3, ExactOutputPaid
      <3> QED
        BY <3>1, <3>2, <3>3
    <2>2. CASE UNCHANGED curveVars
      BY <2>2 DEF curveVars, PaidInFull, Taken, Curve
    <2> QED
      BY <2>1, <2>2
  <1> QED
    BY <1>1, <1>2, PTL DEF CurveSpec

\* Type correctness of a flat curve.
THEOREM FlatTypeOK ==
    ASSUME Branch(Policy, Side) = "Flat"
    PROVE  CurveSpec => []CurveTypeOK
  <1>1. PaidInFull => CurveTypeOK
    BY DEF PaidInFull, CurveTypeOK
  <1> QED
    BY <1>1, FlatPaidInFull, PTL

\* However a trade is split, takers of a flat curve never do better in total
\* than its fresh marginal rate (CurveMath.quoteExactInput and
\* quoteExactOutput round in the maker's favour, and the favours add up).
THEOREM FlatNeverBeatsFreshRate ==
    ASSUME Branch(Policy, Side) = "Flat"
    PROVE  CurveSpec => []NeverBeatsFreshRate
  <1>1. PaidInFull => NeverBeatsFreshRate
    BY FlatCurve DEF PaidInFull, NeverBeatsFreshRate
  <1> QED
    BY <1>1, FlatPaidInFull, PTL

\* The coordinate from which the next quote of a flat curve starts has been
\* paid for, although every quote rounds it again.
THEOREM FlatCoordinateCovered ==
    ASSUME Branch(Policy, Side) = "Flat"
    PROVE  CurveSpec => []CoordinateCovered
  <1>1. PaidInFull => CoordinateCovered
    BY CoordinateBound DEF CoordinateCovered
  <1> QED
    BY <1>1, FlatPaidInFull, PTL

\* All of it together: the invariant that the run checks.
THEOREM FlatTakersPayTheCurve ==
    ASSUME Branch(Policy, Side) = "Flat"
    PROVE  CurveSpec => []TakersPayTheCurve
  <1>1. CurveTypeOK /\ NeverBeatsFreshRate /\ CoordinateCovered => TakersPayTheCurve
    BY DEF TakersPayTheCurve
  <1> QED
    BY <1>1, FlatTypeOK, FlatNeverBeatsFreshRate, FlatCoordinateCovered, PTL

\* A larger factor gives no smaller quotient, in either rounding.
LEMMA MulDivOrder ==
    ASSUME NEW a \in Nat, NEW b \in Nat, a <= b, NEW w \in Nat, NEW d \in Nat \ {0},
           NEW rounding \in Rounding
    PROVE  MulDiv(a, w, d, rounding) <= MulDiv(b, w, d, rounding)
  <1> DEFINE p == MulDiv(a, w, d, rounding)
             q == MulDiv(b, w, d, rounding)
  <1>1. a * w \in Nat /\ b * w \in Nat /\ a * w <= b * w
    <2>1. w * a <= w * b
      BY ScaleOrder
    <2> QED
      BY <2>1
  <1>2. p \in Nat /\ q \in Nat /\ d * p < d * q + d
    <2>1. CASE rounding = "Down"
      <3>1. /\ p \in Nat /\ d * p <= a * w
            /\ q \in Nat /\ b * w < d * q + d
        BY <2>1, MulDivDown
      <3> HIDE DEF p, q
      <3>2. d * p \in Nat /\ d * q \in Nat
        BY <3>1
      <3> QED
        BY <1>1, <3>1, <3>2
    <2>2. CASE rounding = "Up"
      <3>1. /\ p \in Nat /\ d * p < a * w + d
            /\ q \in Nat /\ b * w <= d * q
        BY <2>2, MulDivUp
      <3> HIDE DEF p, q
      <3>2. d * p \in Nat /\ d * q \in Nat
        BY <3>1
      <3> QED
        BY <1>1, <3>1, <3>2
    <2> QED
      BY <2>1, <2>2 DEF Rounding
  <1> HIDE DEF p, q
  <1>3. p <= q
    <2> SUFFICES ASSUME q + 1 <= p PROVE FALSE
      BY <1>2
    <2>1. d * (q + 1) <= d * p
      BY <1>2, ScaleOrder
    <2>2. d * (q + 1) = d * q + d /\ d * q \in Nat /\ d * p \in Nat
      BY <1>2
    <2> QED
      BY <1>2, <2>1, <2>2
  <1> QED
    BY <1>3 DEF p, q

\* The quotes of a flat side, as quotients of what has been taken from it.
LEMMA FlatQuotes ==
    ASSUME Branch(Policy, Side) = "Flat", PaidInFull
    PROVE  LET x == XAtY(Curve, state, state.y, "Down")
           IN  /\ Taken \in Nat /\ state.y \in Nat /\ state.yInt \in Nat
               /\ state.y = state.yInt - Taken
               /\ x \in Nat
               /\ \A out \in Nat : QuoteExactOutput(Curve, state, out).in
                                    = MulDiv(Taken + out, WAD, Curve.kappa, "Up") - x
               /\ \A in : QuoteExactInput(Curve, state, in).out
                          = state.y - (state.yInt - MulDiv(x + in, Curve.kappa, WAD, "Down"))
  <1> DEFINE x == XAtY(Curve, state, state.y, "Down")
  <1>1. /\ Taken \in Nat /\ state.y \in Nat /\ state.yInt \in Nat
        /\ state.y = state.yInt - Taken
    BY FlatCurve DEF PaidInFull, Taken, Amounts
  <1>2. x \in Nat
    BY CoordinateBound
  <1>3. ASSUME NEW out \in Nat
        PROVE  QuoteExactOutput(Curve, state, out).in
                 = MulDiv(Taken + out, WAD, Curve.kappa, "Up") - x
    <2>1. state.yInt - (state.y - out) = Taken + out
      BY <1>1
    <2> QED
      BY <2>1, FlatCurve DEF QuoteExactOutput, XAtY, DivWad
  <1>4. ASSUME NEW in
        PROVE  QuoteExactInput(Curve, state, in).out
                 = state.y - (state.yInt - MulDiv(x + in, Curve.kappa, WAD, "Down"))
    BY FlatCurve DEF QuoteExactInput, YAtX, MulWad
  <1> QED
    BY <1>1, <1>2, <1>3, <1>4

LEMMA PaymentOfFlatBuysOutput ==
    ASSUME Branch(Policy, Side) = "Flat", PaidInFull
    PROVE  PaymentBuysOutput
  <1> SUFFICES ASSUME NEW out \in Requests
               PROVE  QuoteExactInput(Curve, state, QuoteExactOutput(Curve, state, out).in).out
                        >= out
    BY DEF PaymentBuysOutput
  <1> DEFINE k == Curve.kappa
             x == XAtY(Curve, state, state.y, "Down")
             in == QuoteExactOutput(Curve, state, out).in
             bought == QuoteExactInput(Curve, state, in).out
             reached == MulDiv(Taken + out, WAD, k, "Up")
             consumed == MulDiv(reached, k, WAD, "Down")
  <1>1. k \in Nat \ {0} /\ WAD \in Nat \ {0} /\ out \in Nat
    BY FlatCurve, CurveAssumption
  <1>2. /\ Taken \in Nat /\ state.y \in Nat /\ state.yInt \in Nat
        /\ state.y = state.yInt - Taken /\ x \in Nat
        /\ in = reached - x
        /\ bought = state.y - (state.yInt - MulDiv(x + in, k, WAD, "Down"))
    BY <1>1, FlatQuotes
  <1>3. reached \in Nat /\ (Taken + out) * WAD <= k * reached
    <2>1. Taken + out \in Nat /\ WAD \in Nat
      BY <1>1, <1>2
    <2> QED
      BY <1>1, <2>1, MulDivUp
  <1>4. consumed \in Nat /\ reached * k < WAD * consumed + WAD
    <2>1. k \in Nat
      BY <1>1
    <2> QED
      BY <1>1, <1>3, <2>1, MulDivDown
  <1> HIDE DEF k, x, in, bought, reached
  <1>5. x + in = reached
    BY <1>2, <1>3
  <1>6. bought = consumed - Taken
    BY <1>2, <1>4, <1>5
  <1> HIDE DEF consumed
  <1>7. Taken + out <= consumed
    <2> DEFINE need == Taken + out
    <2>1. need \in Nat /\ need * WAD <= k * reached
      BY <1>1, <1>2, <1>3
    <2> HIDE DEF need
    <2>2. need * WAD < WAD * consumed + WAD
      <3>1. k * reached = reached * k /\ k * reached \in Nat /\ need * WAD \in Nat
            /\ WAD * consumed \in Nat
        BY <1>1, <1>3, <1>4, <2>1
      <3> QED
        BY <1>1, <1>4, <2>1, <3>1
    <2>3. need <= consumed
      <3> SUFFICES ASSUME consumed + 1 <= need PROVE FALSE
        BY <1>4, <2>1
      <3>1. WAD * (consumed + 1) <= WAD * need
        BY <1>1, <1>4, <2>1, ScaleOrder
      <3>2. WAD * (consumed + 1) = WAD * consumed + WAD /\ WAD * need = need * WAD
            /\ WAD * consumed \in Nat /\ need * WAD \in Nat
        BY <1>1, <1>4, <2>1
      <3> QED
        BY <1>1, <2>2, <3>1, <3>2
    <2> QED
      BY <2>3 DEF need
  <1>8. bought >= out
    BY <1>1, <1>2, <1>4, <1>6, <1>7
  <1> QED
    BY <1>8 DEF bought, in

LEMMA QuotesOfFlatAreMonotone ==
    ASSUME Branch(Policy, Side) = "Flat", PaidInFull
    PROVE  QuotesMonotone
  <1> SUFFICES ASSUME NEW small \in Requests, NEW large \in Requests, small < large
               PROVE  /\ QuoteExactOutput(Curve, state, small).in
                           <= QuoteExactOutput(Curve, state, large).in
                      /\ QuoteExactInput(Curve, state, small).out
                           <= QuoteExactInput(Curve, state, large).out
    BY DEF QuotesMonotone
  <1> DEFINE k == Curve.kappa
             x == XAtY(Curve, state, state.y, "Down")
             toReach(out) == MulDiv(Taken + out, WAD, k, "Up")
             consumed(in) == MulDiv(x + in, k, WAD, "Down")
  <1>1. /\ k \in Nat \ {0} /\ WAD \in Nat \ {0} /\ small \in Nat /\ large \in Nat
        /\ k \in Nat /\ WAD \in Nat
    BY FlatCurve, CurveAssumption
  <1>2. /\ Taken \in Nat /\ state.y \in Nat /\ state.yInt \in Nat /\ x \in Nat
        /\ QuoteExactOutput(Curve, state, small).in = toReach(small) - x
        /\ QuoteExactOutput(Curve, state, large).in = toReach(large) - x
        /\ QuoteExactInput(Curve, state, small).out = state.y - (state.yInt - consumed(small))
        /\ QuoteExactInput(Curve, state, large).out = state.y - (state.yInt - consumed(large))
    BY <1>1, FlatQuotes
  <1> HIDE DEF k, x
  <1>3. /\ Taken + small \in Nat /\ Taken + large \in Nat /\ Taken + small <= Taken + large
        /\ x + small \in Nat /\ x + large \in Nat /\ x + small <= x + large
    BY <1>1, <1>2
  <1>4. "Up" \in Rounding /\ "Down" \in Rounding
    BY DEF Rounding
  <1>5. toReach(small) <= toReach(large) /\ toReach(small) \in Nat /\ toReach(large) \in Nat
    BY <1>1, <1>3, <1>4, MulDivOrder, MulDivUp
  <1>6. consumed(small) <= consumed(large) /\ consumed(small) \in Nat /\ consumed(large) \in Nat
    BY <1>1, <1>3, <1>4, MulDivOrder, MulDivDown
  <1> HIDE DEF toReach, consumed
  <1>7. /\ toReach(small) - x <= toReach(large) - x
        /\ state.y - (state.yInt - consumed(small)) <= state.y - (state.yInt - consumed(large))
    BY <1>2, <1>5, <1>6
  <1> QED
    BY <1>2, <1>7

\* After any sequence of takes, the input quoted for an output of a flat side
\* buys at least that output: the two quotes never disagree against the taker
\* who asked (CurveMath.quoteExactInput and quoteExactOutput).
THEOREM FlatPaymentBuysOutput ==
    ASSUME Branch(Policy, Side) = "Flat"
    PROVE  CurveSpec => []PaymentBuysOutput
  <1>1. PaidInFull => PaymentBuysOutput
    BY PaymentOfFlatBuysOutput
  <1> QED
    BY <1>1, FlatPaidInFull, PTL

\* After any sequence of takes, more of a flat side never costs less, and a
\* larger payment never buys less.
THEOREM FlatQuotesMonotone ==
    ASSUME Branch(Policy, Side) = "Flat"
    PROVE  CurveSpec => []QuotesMonotone
  <1>1. PaidInFull => QuotesMonotone
    BY QuotesOfFlatAreMonotone
  <1> QED
    BY <1>1, FlatPaidInFull, PTL
-----------------------------------------------------------------------------
(* A position of two sides.                                                 *)

LEMMA PositionRepresentable ==
    /\ Representable(Position)
    /\ Position.base # Position.quote
  BY MakerPositionAssumption DEF Representable, Sides, ValidStructure

\* The parts of an accepted fill that every proof below starts from.
LEMMA FillFacts ==
    ASSUME TypeOK, NEW side \in Sides, NEW kind \in Kinds, NEW raw \in RawRequests,
           Fill(side, kind, raw)
    PROVE  LET fill == PositionFill(Position, Runtime, side, kind, raw)
           IN  /\ Runtime \in Runtimes
               /\ FillType(fill, Runtime[side])
               /\ CanTransition(Runtime, side, fill)
               /\ fill.amountOut <= allocation[SideOut(Position, side)]
               /\ stored' = Transition(Runtime, side, fill)
               /\ Runtime' = stored'
  <1> DEFINE fill == PositionFill(Position, Runtime, side, kind, raw)
  <1>1. Runtime \in Runtimes
    BY PositionRepresentable, ResolveType DEF TypeOK, Runtime
  <1>2. raw \in Nat
    BY MakerPositionAssumption
  <1>3. /\ Quotable(Position, Runtime, side, kind, raw)
        /\ CanTransition(Runtime, side, fill)
        /\ fill.amountOut <= allocation[SideOut(Position, side)]
        /\ stored' = Transition(Runtime, side, fill)
    BY DEF Fill, CanFill
  <1>4. FillType(fill, Runtime[side])
    BY <1>1, <1>2, <1>3, PositionRepresentable, AcceptedFill
  <1>5. stored'.initialized
    BY <1>1, <1>3, TransitionMarks
  <1>6. Runtime' = stored'
    BY <1>5 DEF Runtime, Resolve
  <1> QED
    BY <1>1, <1>3, <1>4, <1>6

LEMMA InitType ==
    ASSUME Init
    PROVE  TypeOK
  <1>1. stored \in Runtimes
    BY WireDomain, PositionAssumption
    DEF Init, Unset, FreshState, Runtimes, CurveStates, Amounts
  <1>2. \A t \in {Position.base, Position.quote} :
          LET side == IF t = Position.base THEN "Sell" ELSE "Buy"
          IN  WadToRaw(Position[side].initialReserve, Factor[t], "Up") \in Nat
    BY MakerPositionAssumption, TokenAssumption, WadToRawType, WireDomain
    DEF Sides, Rounding
  <1> QED
    BY <1>1, <1>2 DEF Init, TypeOK

LEMMA FillKeepsType ==
    ASSUME TypeOK, NEW side \in Sides, NEW kind \in Kinds, NEW raw \in RawRequests,
           Fill(side, kind, raw)
    PROVE  TypeOK'
  <1> DEFINE in   == SideIn(Position, side)
             out  == SideOut(Position, side)
             fill == PositionFill(Position, Runtime, side, kind, raw)
  <1>1. stored' \in Runtimes
    BY FillFacts, TransitionType
  <1>2. allocation' = [allocation EXCEPT ![in] = @ + fill.amountIn,
                                         ![out] = @ - fill.amountOut]
    BY DEF Fill
  <1>3. /\ in \in {Position.base, Position.quote}
        /\ out \in {Position.base, Position.quote}
        /\ in # out
    BY PositionRepresentable, FactorFacts
    DEF SideIn, SideOut, TokenIn, TokenOut, Sides
  <1>4. /\ fill.amountIn \in Nat /\ fill.amountOut \in Nat
        /\ fill.amountOut <= allocation[out]
    BY FillFacts DEF FillType
  <1> HIDE DEF in, out, fill
  <1>5. allocation \in [{Position.base, Position.quote} -> Nat]
    BY DEF TypeOK
  <1>6. /\ allocation[in] + fill.amountIn \in Nat
        /\ allocation[out] - fill.amountOut \in Nat
    BY <1>3, <1>4, <1>5
  <1>7. allocation' \in [{Position.base, Position.quote} -> Nat]
    BY <1>2, <1>3, <1>5, <1>6
  <1> QED
    BY <1>1, <1>7 DEF TypeOK

\* The router's stored runtime and Aqua's allocation stay well typed: no fill
\* underflows a reserve, narrows an amount or overdraws the strategy.
THEOREM MakerTypeOK == Spec => []TypeOK
  <1>1. Init => TypeOK
    BY InitType
  <1>2. TypeOK /\ [Next]_vars => TypeOK'
    <2> SUFFICES ASSUME TypeOK, [Next]_vars
                 PROVE  TypeOK'
      OBVIOUS
    <2>1. ASSUME NEW side \in Sides, NEW kind \in Kinds, NEW raw \in RawRequests,
                 Fill(side, kind, raw)
          PROVE  TypeOK'
      BY <2>1, FillKeepsType
    <2>2. ASSUME NEW token \in {Position.base, Position.quote}, NEW amount \in Gifts,
                 Push(token, amount)
          PROVE  TypeOK'
      <3>1. amount \in Nat
        BY MakerPositionAssumption
      <3> QED
        BY <2>2, <3>1 DEF TypeOK, Push
    <2>3. CASE UNCHANGED vars
      BY <2>3 DEF vars, TypeOK
    <2> QED
      BY <2>1, <2>2, <2>3 DEF Next
  <1> QED
    BY <1>1, <1>2, PTL DEF Spec
-----------------------------------------------------------------------------
\* What a fill does to the two curve states.
LEMMA FillMoves ==
    ASSUME TypeOK, NEW side \in Sides, NEW kind \in Kinds, NEW raw \in RawRequests,
           Fill(side, kind, raw)
    PROVE  LET fill == PositionFill(Position, Runtime, side, kind, raw)
               opp  == Opposite(side)
           IN  /\ Runtime'[side] = [y |-> fill.yAfter, yInt |-> Runtime[side].yInt]
               /\ Runtime'[opp] = Credit(Runtime[opp], fill.inWad)
               /\ CanCredit(Runtime[opp], fill.inWad)
               /\ Runtime[side] \in CurveStates /\ Runtime[opp] \in CurveStates
               /\ FillType(fill, Runtime[side])
  <1> DEFINE fill == PositionFill(Position, Runtime, side, kind, raw)
  <1>1. /\ Runtime \in Runtimes
        /\ FillType(fill, Runtime[side])
        /\ CanCredit(Runtime[Opposite(side)], fill.inWad)
        /\ Runtime' = Transition(Runtime, side, fill)
    BY FillFacts DEF CanTransition
  <1> HIDE DEF fill
  <1>2. Runtime.Sell \in CurveStates /\ Runtime.Buy \in CurveStates
    BY <1>1 DEF Runtimes
  <1>3. CASE side = "Sell"
    <2>1. Runtime' = Transition(Runtime, "Sell", fill) /\ Opposite(side) = "Buy"
      BY <1>1, <1>3, SideFacts
    <2>2. /\ Runtime'.Sell = [y |-> fill.yAfter, yInt |-> Runtime.Sell.yInt]
          /\ Runtime'.Buy = Credit(Runtime.Buy, fill.inWad)
      <3>1. Runtime' = [Sell |-> [y |-> fill.yAfter, yInt |-> Runtime.Sell.yInt],
                        Buy |-> Credit(Runtime.Buy, fill.inWad),
                        version |-> Runtime.version + 1, initialized |-> TRUE]
        BY <1>1, <2>1, TransitionSell
      <3> QED
        BY <3>1
    <2> QED
      BY <1>1, <1>2, <1>3, <2>1, <2>2 DEF fill
  <1>4. CASE side = "Buy"
    <2>1. Runtime' = Transition(Runtime, "Buy", fill) /\ Opposite(side) = "Sell"
      BY <1>1, <1>4, SideFacts
    <2>2. /\ Runtime'.Buy = [y |-> fill.yAfter, yInt |-> Runtime.Buy.yInt]
          /\ Runtime'.Sell = Credit(Runtime.Sell, fill.inWad)
      <3>1. Runtime' = [Sell |-> Credit(Runtime.Sell, fill.inWad),
                        Buy |-> [y |-> fill.yAfter, yInt |-> Runtime.Buy.yInt],
                        version |-> Runtime.version + 1, initialized |-> TRUE]
        BY <1>1, <2>1, TransitionBuy
      <3> QED
        BY <3>1
    <2> QED
      BY <1>1, <1>2, <1>4, <2>1, <2>2 DEF fill
  <1> QED
    BY <1>3, <1>4, SideFacts

\* The strengthening of ReserveWithinScale that a step preserves.
DomainInv == TypeOK /\ ReserveWithinScale

LEMMA InitDomain ==
    ASSUME Init
    PROVE  DomainInv
  <1>1. TypeOK
    BY InitType
  <1>2. Runtime.Sell = FreshState(Position.Sell.initialReserve)
    BY DEF Init, Runtime, Resolve, Initial, Unset
  <1>3. Runtime.Buy = FreshState(Position.Buy.initialReserve)
    BY DEF Init, Runtime, Resolve, Initial, Unset
  <1>4. \A r \in Amounts : FreshState(r).y <= FreshState(r).yInt
    BY WireDomain DEF FreshState
  <1>5. Runtime.Sell.y <= Runtime.Sell.yInt /\ Runtime.Buy.y <= Runtime.Buy.yInt
    BY <1>2, <1>3, <1>4, PositionRepresentable DEF Representable
  <1> QED
    BY <1>1, <1>5 DEF DomainInv, ReserveWithinScale, Sides

LEMMA FillKeepsDomain ==
    ASSUME DomainInv, NEW side \in Sides, NEW kind \in Kinds, NEW raw \in RawRequests,
           Fill(side, kind, raw)
    PROVE  ReserveWithinScale'
  <1> DEFINE fill == PositionFill(Position, Runtime, side, kind, raw)
             opp  == Opposite(side)
  <1>1. /\ Runtime'[side] = [y |-> fill.yAfter, yInt |-> Runtime[side].yInt]
        /\ Runtime'[opp] = Credit(Runtime[opp], fill.inWad)
        /\ Runtime[side] \in CurveStates /\ Runtime[opp] \in CurveStates
        /\ FillType(fill, Runtime[side])
    BY FillMoves DEF DomainInv
  <1>2. Runtime[side].y <= Runtime[side].yInt /\ Runtime[opp].y <= Runtime[opp].yInt
    BY SideFacts DEF DomainInv, ReserveWithinScale
  <1> HIDE DEF fill
  <1>3. Runtime'[side].y <= Runtime'[side].yInt
    <2>1. /\ Runtime'[side].y = fill.yAfter
          /\ Runtime'[side].yInt = Runtime[side].yInt
      BY <1>1
    <2>2. Runtime[side].y \in Nat /\ Runtime[side].yInt \in Nat /\ fill.outWad \in Nat
      BY <1>1, WireDomain DEF FillType, CurveStates
    <2>3. fill.yAfter = Runtime[side].y - fill.outWad
      BY <1>1 DEF FillType
    <2> QED
      BY <1>2, <2>1, <2>2, <2>3
  <1>4. Runtime'[opp].y <= Runtime'[opp].yInt
    BY <1>1, <1>2, CreditWithinScale DEF FillType
  <1>5. \A s \in Sides : s = side \/ s = opp
    BY SideFacts DEF Sides
  <1> QED
    BY <1>3, <1>4, <1>5 DEF ReserveWithinScale

\* No sequence of fills leaves the domain of either curve, although
\* PositionMath._credit rebuilds the scale with rounding at every fill.
THEOREM MakerReserveWithinScale == Spec => []ReserveWithinScale
  <1>1. Init => DomainInv
    BY InitDomain
  <1>2. DomainInv /\ [Next]_vars => DomainInv'
    <2> SUFFICES ASSUME DomainInv, [Next]_vars
                 PROVE  DomainInv'
      OBVIOUS
    <2>1. ASSUME NEW side \in Sides, NEW kind \in Kinds, NEW raw \in RawRequests,
                 Fill(side, kind, raw)
          PROVE  DomainInv'
      BY <2>1, FillKeepsType, FillKeepsDomain DEF DomainInv
    <2>2. ASSUME NEW token \in {Position.base, Position.quote}, NEW amount \in Gifts,
                 Push(token, amount)
          PROVE  DomainInv'
      <3>1. amount \in Nat
        BY MakerPositionAssumption
      <3> QED
        BY <2>2, <3>1 DEF DomainInv, TypeOK, ReserveWithinScale, Runtime, Push
    <2>3. CASE UNCHANGED vars
      BY <2>3 DEF vars, DomainInv, TypeOK, ReserveWithinScale, Runtime
    <2> QED
      BY <2>1, <2>2, <2>3 DEF Next
  <1>3. DomainInv => ReserveWithinScale
    BY DEF DomainInv
  <1> QED
    BY <1>1, <1>2, <1>3, PTL DEF Spec
-----------------------------------------------------------------------------
\* A push leaves the runtime alone, and a fill always changes it.
LEMMA FillChangesRuntime ==
    ASSUME TypeOK, NEW side \in Sides, NEW kind \in Kinds, NEW raw \in RawRequests,
           Fill(side, kind, raw)
    PROVE  stored' # stored
  <1>1. stored'.initialized /\ stored'.version = Runtime.version + 1
    BY FillFacts, TransitionMarks
  <1>2. Runtime.version \in Nat
    BY FillFacts, TokenAssumption DEF Runtimes
  <1>3. CASE stored.initialized
    BY <1>1, <1>2, <1>3 DEF Runtime, Resolve
  <1>4. CASE ~stored.initialized
    BY <1>1, <1>4
  <1> QED
    BY <1>3, <1>4

\* The transferred amounts of an accepted fill, in WAD units.
LEMMA FillUnits ==
    ASSUME NEW runtime, NEW side \in Sides, NEW kind, NEW raw
    PROVE  LET fill == PositionFill(Position, runtime, side, kind, raw)
           IN  /\ fill.inWad = fill.amountIn * Factor[SideIn(Position, side)]
               /\ fill.outWad = fill.amountOut * Factor[SideOut(Position, side)]
  BY DEF PositionFill, RawToWad, FactorIn, FactorOut

LEMMA FillMovesTogether ==
    ASSUME TypeOK, NEW side \in Sides, NEW kind \in Kinds, NEW raw \in RawRequests,
           Fill(side, kind, raw)
    PROVE  MovesTogether
  <1> DEFINE in   == SideIn(Position, side)
             out  == SideOut(Position, side)
             opp  == Opposite(side)
             fill == PositionFill(Position, Runtime, side, kind, raw)
  <1>1. /\ Runtime'[side] = [y |-> fill.yAfter, yInt |-> Runtime[side].yInt]
        /\ Runtime'[opp] = Credit(Runtime[opp], fill.inWad)
        /\ CanCredit(Runtime[opp], fill.inWad)
        /\ Runtime[side] \in CurveStates /\ Runtime[opp] \in CurveStates
        /\ FillType(fill, Runtime[side])
    BY FillMoves
  <1>2. /\ fill.inWad = fill.amountIn * Factor[in]
        /\ fill.outWad = fill.amountOut * Factor[out]
    BY FillUnits
  <1>3. allocation' = [allocation EXCEPT ![in] = @ + fill.amountIn,
                                         ![out] = @ - fill.amountOut]
    BY DEF Fill
  <1>4. \A token \in {Position.base, Position.quote} : token = in \/ token = out
    BY SideFacts DEF SideIn, SideOut, TokenIn, TokenOut
  <1>5. /\ in \in {Position.base, Position.quote} /\ out \in {Position.base, Position.quote}
        /\ in # out
    BY PositionRepresentable, SideFacts DEF SideIn, SideOut, TokenIn, TokenOut
  <1>6. \A runtime : /\ Reserve(runtime, in) = runtime[opp].y
                     /\ Reserve(runtime, out) = runtime[side].y
    <2>1. CASE side = "Sell"
      BY <2>1, PositionRepresentable, SideFacts DEF SideIn, SideOut, TokenIn, TokenOut, Reserve
    <2>2. CASE side = "Buy"
      BY <2>2, PositionRepresentable, SideFacts DEF SideIn, SideOut, TokenIn, TokenOut, Reserve
    <2> QED
      BY <2>1, <2>2, SideFacts
  <1>7. stored' # stored
    BY FillChangesRuntime
  <1>8. /\ allocation[in] \in Nat /\ allocation[out] \in Nat
        /\ Factor[in] \in Nat /\ Factor[out] \in Nat
        /\ allocation'[in] = allocation[in] + fill.amountIn
        /\ allocation'[out] = allocation[out] - fill.amountOut
    <2> HIDE DEF in, out, fill
    <2>1. allocation \in [{Position.base, Position.quote} -> Nat]
      BY DEF TypeOK
    <2>2. in \in Tokens /\ out \in Tokens
      BY <1>5, MakerPositionAssumption
    <2> QED
      BY <1>3, <1>5, <2>1, <2>2, TokenAssumption
  <1> HIDE DEF in, out, opp, fill
  <1>9. Reserve(Runtime', in) - Reserve(Runtime, in) = (allocation'[in] - allocation[in]) * Factor[in]
    <2>1. Reserve(Runtime', in) = Runtime[opp].y + fill.inWad
      BY <1>1, <1>6, CreditType DEF FillType
    <2>2. /\ Runtime[opp].y \in Nat /\ fill.inWad \in Nat /\ fill.amountIn \in Nat
      BY <1>1, WireDomain DEF FillType, CurveStates
    <2>3. allocation'[in] - allocation[in] = fill.amountIn
      BY <1>8, <2>2
    <2> QED
      BY <1>2, <1>6, <2>1, <2>2, <2>3
  <1>10. Reserve(Runtime', out) - Reserve(Runtime, out) = (allocation'[out] - allocation[out]) * Factor[out]
    <2>1. Reserve(Runtime', out) = Runtime[side].y - fill.outWad
      BY <1>1, <1>6 DEF FillType
    <2>2. /\ Runtime[side].y \in Nat /\ fill.outWad \in Nat /\ fill.amountOut \in Nat
      BY <1>1, WireDomain DEF FillType, CurveStates
    <2>3. allocation'[out] - allocation[out] = -fill.amountOut
      BY <1>8, <2>2
    <2>4. (-fill.amountOut) * Factor[out] = -(fill.amountOut * Factor[out])
      BY <1>8, <2>2
    <2> QED
      BY <1>2, <1>6, <2>1, <2>2, <2>3, <2>4
  <1> QED
    BY <1>4, <1>7, <1>9, <1>10 DEF MovesTogether

\* Aqua's raw allocation and the router's logical reserve never drift apart:
\* every fill moves both by the same amount, on every curve branch and in
\* both directions, and nothing else moves a reserve.
THEOREM MakerAllocationTracksReserve == Spec => AllocationTracksReserve
  <1>1. TypeOK /\ [Next]_vars => [MovesTogether]_vars
    <2> SUFFICES ASSUME TypeOK, Next
                 PROVE  MovesTogether
      OBVIOUS
    <2>1. ASSUME NEW side \in Sides, NEW kind \in Kinds, NEW raw \in RawRequests,
                 Fill(side, kind, raw)
          PROVE  MovesTogether
      BY <2>1, FillMovesTogether
    <2>2. ASSUME NEW token \in {Position.base, Position.quote}, NEW amount \in Gifts,
                 Push(token, amount)
          PROVE  MovesTogether
      <3>1. stored' = stored /\ Runtime' = Runtime
        BY <2>2 DEF Push, Runtime
      <3>2. Runtime.Sell.y \in Nat /\ Runtime.Buy.y \in Nat
        BY PositionRepresentable, ResolveType, WireDomain
        DEF TypeOK, Runtime, Runtimes, CurveStates
      <3>3. \A t \in {Position.base, Position.quote} : Reserve(Runtime, t) \in Nat
        BY <3>2 DEF Reserve
      <3> QED
        BY <3>1, <3>3 DEF MovesTogether
    <2> QED
      BY <2>1, <2>2 DEF Next
  <1> QED
    BY <1>1, MakerTypeOK, PTL DEF Spec, AllocationTracksReserve
-----------------------------------------------------------------------------
LEMMA FillKeepsProgress ==
    ASSUME TypeOK, NEW side \in Sides, NEW kind \in Kinds, NEW raw \in RawRequests,
           Fill(side, kind, raw)
    PROVE  NoRegress
  <1> DEFINE fill == PositionFill(Position, Runtime, side, kind, raw)
             opp  == Opposite(side)
  <1>1. /\ Runtime'[side] = [y |-> fill.yAfter, yInt |-> Runtime[side].yInt]
        /\ Runtime'[opp] = Credit(Runtime[opp], fill.inWad)
        /\ Runtime[side] \in CurveStates /\ Runtime[opp] \in CurveStates
        /\ FillType(fill, Runtime[side])
    BY FillMoves
  <1> HIDE DEF fill
  <1>2. Runtime'[side].y * Runtime[side].yInt <= Runtime[side].y * Runtime'[side].yInt
    <2> DEFINE y == Runtime[side].y
               yAfter == fill.yAfter
               yInt == Runtime[side].yInt
    <2>1. y \in Nat /\ yAfter \in Nat /\ yInt \in Nat /\ fill.outWad \in Nat
      BY <1>1, WireDomain DEF FillType, CurveStates
    <2>2. yAfter = y - fill.outWad
      BY <1>1 DEF FillType
    <2> HIDE DEF y, yAfter, yInt
    <2>3. yInt * yAfter <= yInt * y
      BY <2>1, <2>2, ScaleOrder
    <2>4. yAfter * yInt <= y * yInt
      BY <2>1, <2>3
    <2> QED
      BY <1>1, <2>4 DEF y, yAfter, yInt
  <1>3. Runtime[opp].y > 0 =>
          Runtime'[opp].y * Runtime[opp].yInt <= Runtime[opp].y * Runtime'[opp].yInt
    BY <1>1, CreditKeepsProgress DEF FillType
  <1>4. \A s \in Sides : s = side \/ s = opp
    BY SideFacts DEF Sides
  <1> QED
    BY <1>2, <1>3, <1>4 DEF NoRegress

\* The rounding of PositionMath._credit never gives the credited side's next
\* taker a better marginal rate: the side's live share does not grow.
THEOREM MakerRecyclingKeepsProgress == Spec => RecyclingKeepsProgress
  <1>1. TypeOK /\ [Next]_vars => [NoRegress]_vars
    <2> SUFFICES ASSUME TypeOK, Next
                 PROVE  NoRegress
      OBVIOUS
    <2>1. ASSUME NEW side \in Sides, NEW kind \in Kinds, NEW raw \in RawRequests,
                 Fill(side, kind, raw)
          PROVE  NoRegress
      BY <2>1, FillKeepsProgress
    <2>2. ASSUME NEW token \in {Position.base, Position.quote}, NEW amount \in Gifts,
                 Push(token, amount)
          PROVE  NoRegress
      <3>1. Runtime' = Runtime
        BY <2>2 DEF Push, Runtime
      <3>2. \A s \in Sides : Runtime[s].y \in Nat /\ Runtime[s].yInt \in Nat
        BY PositionRepresentable, ResolveType, WireDomain
        DEF TypeOK, Runtime, Runtimes, CurveStates, Sides
      <3>3. \A s \in Sides : Runtime[s].y * Runtime[s].yInt \in Nat
        BY <3>2, ProductNat
      <3> QED
        BY <3>1, <3>3 DEF NoRegress
    <2> QED
      BY <2>1, <2>2 DEF Next
  <1> QED
    BY <1>1, MakerTypeOK, PTL DEF Spec, RecyclingKeepsProgress
-----------------------------------------------------------------------------
(* Value: flat quotes against the maker's own prices.                       *)

\* A floored coordinate plus a payment buys at most the payment's worth.
LEMMA FloorBuys ==
    ASSUME NEW taken \in Nat, NEW amount \in Nat, NEW k \in Nat \ {0}, NEW w \in Nat \ {0},
           NEW after \in Nat,
           after = MulDiv(MulDiv(taken, w, k, "Down") + amount, k, w, "Down")
    PROVE  (after - taken) * w <= amount * k
  <1> DEFINE x == MulDiv(taken, w, k, "Down")
  <1>1. x \in Nat /\ k * x <= taken * w
    BY MulDivDown
  <1> HIDE DEF x
  <1>2. x + amount \in Nat /\ after = MulDiv(x + amount, k, w, "Down")
    BY <1>1 DEF x
  <1>3. w * after <= (x + amount) * k
    BY <1>2, MulDivDown
  <1>4. /\ (x + amount) * k = k * x + amount * k
        /\ (after - taken) * w = w * after - taken * w
    BY <1>1
  <1>5. k * x \in Nat /\ taken * w \in Nat /\ amount * k \in Nat /\ w * after \in Nat
    BY <1>1
  <1> QED
    BY <1>1, <1>3, <1>4, <1>5

\* Moving from a floored coordinate to a raised one costs at least the worth
\* of what is taken.
LEMMA CeilingCharges ==
    ASSUME NEW taken \in Nat, NEW amount \in Nat, NEW k \in Nat \ {0}, NEW w \in Nat \ {0}
    PROVE  amount * w <= (MulDiv(taken + amount, w, k, "Up") - MulDiv(taken, w, k, "Down")) * k
  <1> DEFINE x == MulDiv(taken, w, k, "Down")
             xAfter == MulDiv(taken + amount, w, k, "Up")
  <1>1. x \in Nat /\ k * x <= taken * w
    BY MulDivDown
  <1>2. taken + amount \in Nat
    OBVIOUS
  <1>3. xAfter \in Nat /\ (taken + amount) * w <= k * xAfter
    BY <1>2, MulDivUp
  <1> HIDE DEF x, xAfter
  <1>4. /\ (taken + amount) * w = taken * w + amount * w
        /\ (xAfter - x) * k = k * xAfter - k * x
    BY <1>1, <1>3
  <1>5. k * x \in Nat /\ taken * w \in Nat /\ amount * w \in Nat /\ k * xAfter \in Nat
    BY <1>1, <1>3
  <1>6. amount * w <= (xAfter - x) * k
    BY <1>1, <1>3, <1>4, <1>5
  <1> QED
    BY <1>6 DEF x, xAfter

\* A flat quote never delivers more than the rate kappa allows.
LEMMA FlatExactInputFair ==
    ASSUME NEW curve, curve.branch = "Flat", curve.kappa \in Nat \ {0},
           NEW s \in CurveStates, NEW side, NEW in \in Nat,
           CanQuoteExactInput(curve, s, side, in)
    PROVE  QuoteExactInput(curve, s, in).out * WAD <= in * curve.kappa
  <1> DEFINE taken == s.yInt - s.y
             after == MulDiv(MulDiv(taken, WAD, curve.kappa, "Down") + in,
                             curve.kappa, WAD, "Down")
  <1>1. s.y \in Nat /\ s.yInt \in Nat /\ s.y <= s.yInt
    BY WireDomain DEF CanQuoteExactInput, ValidState, CurveStates
  <1>2. taken \in Nat
    BY <1>1
  <1>3. QuoteExactInput(curve, s, in).out = s.y - (s.yInt - after)
    BY DEF QuoteExactInput, YAtX, XAtY, DivWad, MulWad
  <1>4. after \in Nat
    <2>1. MulDiv(taken, WAD, curve.kappa, "Down") \in Nat
      BY <1>2, WireDomain, MulDivDown
    <2>2. MulDiv(taken, WAD, curve.kappa, "Down") + in \in Nat
      BY <2>1
    <2> HIDE DEF taken
    <2> QED
      BY <2>2, WireDomain, MulDivDown
  <1> HIDE DEF after
  <1>5. s.y - (s.yInt - after) = after - taken
    BY <1>1, <1>4
  <1> HIDE DEF taken
  <1>6. (after - taken) * WAD <= in * curve.kappa
    BY <1>2, <1>4, WireDomain, FloorBuys DEF after
  <1> QED
    BY <1>3, <1>5, <1>6

LEMMA FlatExactOutputFair ==
    ASSUME NEW curve, curve.branch = "Flat", curve.kappa \in Nat \ {0},
           NEW s \in CurveStates, NEW side, NEW out \in Nat,
           CanQuoteExactOutput(curve, s, side, out)
    PROVE  out * WAD <= QuoteExactOutput(curve, s, out).in * curve.kappa
  <1> DEFINE taken == s.yInt - s.y
  <1>1. s.y \in Nat /\ s.yInt \in Nat /\ s.y <= s.yInt
    BY WireDomain DEF CanQuoteExactOutput, ValidState, CurveStates
  <1>2. taken \in Nat /\ s.yInt - (s.y - out) = taken + out
    BY <1>1
  <1>3. QuoteExactOutput(curve, s, out).in
          = MulDiv(taken + out, WAD, curve.kappa, "Up") - MulDiv(taken, WAD, curve.kappa, "Down")
    BY <1>2 DEF QuoteExactOutput, XAtY, DivWad
  <1> HIDE DEF taken
  <1> QED
    BY <1>2, <1>3, WireDomain, CeilingCharges

\* The native rate of a flat side, and its relation to the displayed price.
LEMMA FlatNative ==
    ASSUME NEW config, NEW side \in Sides, Branch(config, side) = "Flat",
           config.startPrice \in Nat \ {0}, Compiles(config, side)
    PROVE  LET curve == Native(config, side)
           IN  /\ curve.branch = "Flat"
               /\ curve.kappa \in Nat \ {0}
               /\ side = "Buy" => curve.kappa = config.startPrice
               /\ side = "Sell" => config.startPrice * curve.kappa <= WAD * WAD
  <1> DEFINE curve == Native(config, side)
  <1>1. curve.branch = "Flat" /\ curve.kappa = NativePrice(config.startPrice, side)
    BY DEF Native
  <1>2. curve.kappa \in Nat \ {0}
    BY WireDomain DEF Compiles, Derivable, IsRate
  <1>3. CASE side = "Buy"
    BY <1>1, <1>2, <1>3 DEF NativePrice
  <1>4. CASE side = "Sell"
    <2>1. curve.kappa = MulDiv(WAD, WAD, config.startPrice, "Down")
      BY <1>1, <1>4 DEF NativePrice, ReciprocalWad
    <2>2. config.startPrice * curve.kappa <= WAD * WAD
      BY <2>1, WireDomain, MulDivDown
    <2> QED
      BY <1>1, <1>2, <1>4, <2>2
  <1> QED
    BY <1>3, <1>4, SideFacts

\* Both roundings between raw and WAD amounts keep an exact-input fill fair.
LEMMA FlatInputFill ==
    ASSUME NEW position, Representable(position), NEW runtime \in Runtimes,
           NEW side \in Sides, NEW raw \in Nat,
           Quotable(position, runtime, side, "ExactInput", raw),
           Native(position[side], side).branch = "Flat",
           Native(position[side], side).kappa \in Nat \ {0}
    PROVE  LET fill == PositionFill(position, runtime, side, "ExactInput", raw)
           IN  fill.outWad * WAD <= fill.inWad * Native(position[side], side).kappa
  <1> DEFINE curve == Native(position[side], side)
             k == curve.kappa
             fill == PositionFill(position, runtime, side, "ExactInput", raw)
             in == RawToWad(raw, FactorIn(position, side))
             q == QuoteExactInput(curve, runtime[side], in)
             fo == FactorOut(position, side)
  <1>1. fill.inWad = in /\ fill.outWad = WadToRaw(q.out, fo, "Down") * fo
    BY DEF PositionFill, RawOutput, RawToWad
  <1>2. in \in Nat /\ fo \in Nat \ {0} /\ runtime[side] \in CurveStates
    BY FactorFacts, ProductNat, SideFacts DEF RawToWad, Runtimes
  <1>3. CanQuoteExactInput(curve, runtime[side], side, in)
    BY DEF Quotable, CanFillExactInput
  <1>4. q.out \in Nat
    BY <1>3, WireDomain DEF CanQuoteExactInput, Buildable, IsAmount
  <1>5. q.out * WAD <= in * k
    BY <1>2, <1>3, FlatExactInputFair
  <1> HIDE DEF q, in, fo, k, fill
  <1>6. WadToRaw(q.out, fo, "Down") \in Nat /\ fo * WadToRaw(q.out, fo, "Down") <= q.out
    <2> DEFINE w == MulDiv(q.out, 1, fo, "Down")
    <2>1. WadToRaw(q.out, fo, "Down") = w
      BY DEF WadToRaw
    <2>2. w \in Nat /\ fo * w <= q.out * 1
      BY <1>2, <1>4, MulDivDown
    <2> HIDE DEF w
    <2>3. q.out * 1 = q.out
      BY <1>4
    <2> QED
      BY <2>1, <2>2, <2>3
  <1>7. fill.outWad \in Nat /\ fill.outWad <= q.out
    <2> DEFINE w == WadToRaw(q.out, fo, "Down")
    <2>1. w \in Nat /\ fo \in Nat /\ fo * w <= q.out /\ fill.outWad = w * fo
      BY <1>1, <1>2, <1>6
    <2> HIDE DEF w
    <2>2. w * fo = fo * w /\ fo * w \in Nat
      BY <2>1, ProductNat
    <2> QED
      BY <2>1, <2>2
  <1>8. WAD * fill.outWad <= WAD * q.out
    BY <1>4, <1>7, WireDomain, ScaleOrder
  <1>9. k \in Nat /\ in * k \in Nat /\ q.out * WAD \in Nat /\ fill.outWad * WAD \in Nat
    BY <1>2, <1>4, <1>7, WireDomain DEF k
  <1>10. WAD * fill.outWad = fill.outWad * WAD /\ WAD * q.out = q.out * WAD
    BY <1>4, <1>7, WireDomain
  <1>11. fill.outWad * WAD <= in * k
    BY <1>5, <1>8, <1>9, <1>10
  <1> QED
    BY <1>1, <1>11 DEF fill, k

\* The same for an exact-output fill.
LEMMA FlatOutputFill ==
    ASSUME NEW position, Representable(position), NEW runtime \in Runtimes,
           NEW side \in Sides, NEW raw \in Nat,
           Quotable(position, runtime, side, "ExactOutput", raw),
           Native(position[side], side).branch = "Flat",
           Native(position[side], side).kappa \in Nat \ {0}
    PROVE  LET fill == PositionFill(position, runtime, side, "ExactOutput", raw)
           IN  fill.outWad * WAD <= fill.inWad * Native(position[side], side).kappa
  <1> DEFINE curve == Native(position[side], side)
             k == curve.kappa
             fill == PositionFill(position, runtime, side, "ExactOutput", raw)
             out == RawToWad(raw, FactorOut(position, side))
             q == QuoteExactOutput(curve, runtime[side], out)
             fi == FactorIn(position, side)
  <1>1. fill.outWad = out /\ fill.inWad = WadToRaw(q.in, fi, "Up") * fi
    BY DEF PositionFill, RawInput, RawToWad
  <1>2. out \in Nat /\ fi \in Nat \ {0} /\ runtime[side] \in CurveStates
    BY FactorFacts, ProductNat, SideFacts DEF RawToWad, Runtimes
  <1>3. CanQuoteExactOutput(curve, runtime[side], side, out)
    BY DEF Quotable, CanFillExactOutput
  <1>4. q.in \in Nat
    BY <1>3, WireDomain DEF CanQuoteExactOutput, Buildable, IsAmount
  <1>5. out * WAD <= q.in * k
    BY <1>2, <1>3, FlatExactOutputFair
  <1> HIDE DEF q, out, fi, k, fill
  <1>6. WadToRaw(q.in, fi, "Up") \in Nat /\ q.in <= fi * WadToRaw(q.in, fi, "Up")
    <2> DEFINE w == MulDiv(q.in, 1, fi, "Up")
    <2>1. WadToRaw(q.in, fi, "Up") = w
      BY DEF WadToRaw
    <2>2. w \in Nat /\ q.in * 1 <= fi * w
      BY <1>2, <1>4, MulDivUp
    <2> HIDE DEF w
    <2>3. q.in * 1 = q.in
      BY <1>4
    <2> QED
      BY <2>1, <2>2, <2>3
  <1>7. fill.inWad \in Nat /\ q.in <= fill.inWad
    <2> DEFINE w == WadToRaw(q.in, fi, "Up")
    <2>1. w \in Nat /\ fi \in Nat /\ q.in <= fi * w /\ fill.inWad = w * fi
      BY <1>1, <1>2, <1>6
    <2> HIDE DEF w
    <2>2. w * fi = fi * w /\ fi * w \in Nat
      BY <2>1, ProductNat
    <2> QED
      BY <2>1, <2>2
  <1>8. k * q.in <= k * fill.inWad
    BY <1>4, <1>7, ScaleOrder DEF k
  <1>9. k \in Nat /\ k * q.in = q.in * k /\ k * fill.inWad = fill.inWad * k
    BY <1>4, <1>7 DEF k
  <1>10. out * WAD \in Nat /\ q.in * k \in Nat /\ fill.inWad * k \in Nat
    BY <1>2, <1>4, <1>7, <1>9, WireDomain
  <1>11. out * WAD <= fill.inWad * k
    BY <1>5, <1>8, <1>9, <1>10
  <1> QED
    BY <1>1, <1>11 DEF fill, k

LEMMA FlatFill ==
    ASSUME NEW position, Representable(position), NEW runtime \in Runtimes,
           NEW side \in Sides, NEW kind \in Kinds, NEW raw \in Nat,
           Quotable(position, runtime, side, kind, raw),
           Native(position[side], side).branch = "Flat",
           Native(position[side], side).kappa \in Nat \ {0}
    PROVE  LET fill == PositionFill(position, runtime, side, kind, raw)
           IN  fill.outWad * WAD <= fill.inWad * Native(position[side], side).kappa
  BY FlatInputFill, FlatOutputFill DEF Kinds

\* Selling base at or below the sell price never pays for itself.
LEMMA SellWorth ==
    ASSUME NEW out \in Nat, NEW in \in Nat, NEW k \in Nat, NEW w \in Nat \ {0},
           NEW high \in Nat, NEW price \in Nat,
           out * w <= in * k, high * k <= w * w, price <= high
    PROVE  out * price <= in * w
  <1>1. out * price \in Nat /\ in * w \in Nat /\ out * w \in Nat /\ in * k \in Nat
        /\ high * k \in Nat /\ w * w \in Nat /\ price * k \in Nat
    OBVIOUS
  <1>2. price * (out * w) <= price * (in * k)
    BY <1>1, ScaleOrder
  <1>3. k * price <= k * high
    BY ScaleOrder
  <1>4. price * k <= w * w
    <2>1. k * price = price * k /\ k * high = high * k
      OBVIOUS
    <2> QED
      BY <1>1, <1>3, <2>1
  <1>5. in * (price * k) <= in * (w * w)
    BY <1>1, <1>4, ScaleOrder
  <1>6. /\ price * (out * w) = w * (out * price)
        /\ price * (in * k) = in * (price * k)
        /\ in * (w * w) = w * (in * w)
    OBVIOUS
  <1>7. /\ w * (out * price) \in Nat /\ in * (price * k) \in Nat /\ w * (in * w) \in Nat
    BY <1>1, ProductNat
  <1>8. w * (out * price) <= w * (in * w)
    BY <1>2, <1>5, <1>6, <1>7
  <1> QED
    BY <1>1, <1>8, CancelFactor

\* Buying base at or above the buy price never pays for itself.
LEMMA BuyWorth ==
    ASSUME NEW out \in Nat, NEW in \in Nat, NEW k \in Nat, NEW w \in Nat,
           NEW price \in Nat, out * w <= in * k, k <= price
    PROVE  out * w <= in * price
  <1>1. in * k <= in * price
    BY ScaleOrder
  <1>2. out * w \in Nat /\ in * k \in Nat /\ in * price \in Nat
    OBVIOUS
  <1> QED
    BY <1>1, <1>2

LEMMA StartPrices ==
    /\ \A side \in Sides : Position[side].startPrice \in Nat \ {0}
    /\ Position.Buy.startPrice \in Nat
    /\ Position.Sell.startPrice \in Nat
  <1>1. \A side \in Sides : Position[side].startPrice \in Amounts
    BY MakerPositionAssumption
  <1>2. \A side \in Sides : ValidCurve(Position[side], side)
    BY MakerPositionAssumption DEF ValidStructure
  <1>3. \A side \in Sides : Position[side].startPrice > 0
    <2> SUFFICES ASSUME NEW side \in Sides
                 PROVE  Position[side].startPrice > 0
      OBVIOUS
    <2>1. ValidCurve(Position[side], side)
      BY <1>2
    <2> QED
      BY <2>1, Zenon DEF ValidCurve
  <1>4. \A side \in Sides : Position[side].startPrice \in Nat \ {0}
    <2> SUFFICES ASSUME NEW side \in Sides
                 PROVE  Position[side].startPrice \in Nat \ {0}
      OBVIOUS
    <2>1. Position[side].startPrice \in Nat
      BY <1>1, WireDomain
    <2>2. Position[side].startPrice > 0
      BY <1>3
    <2>3. \A n \in Nat : n > 0 => n \in Nat \ {0}
      OBVIOUS
    <2> QED
      BY <2>1, <2>2, <2>3, Zenon
  <1> QED
    BY <1>4 DEF Sides

\* Giving no more than what comes in keeps the sum of the two worths.
LEMMA KeptWorth ==
    ASSUME NEW held \in Nat, NEW other \in Nat, NEW out \in Nat, NEW in \in Nat,
           NEW f \in Nat, NEW g \in Nat, NEW p \in Nat, NEW w \in Nat,
           out * f * p <= in * g * w
    PROVE  /\ held * f * p + other * g * w <= (held - out) * f * p + (other + in) * g * w
           /\ other * g * w + held * f * p <= (other + in) * g * w + (held - out) * f * p
  <1>1. /\ (held - out) * f * p = held * f * p - out * f * p
        /\ (other + in) * g * w = other * g * w + in * g * w
    OBVIOUS
  <1>2. /\ held * f * p \in Nat /\ other * g * w \in Nat
        /\ out * f * p \in Nat /\ in * g * w \in Nat
    OBVIOUS
  <1> QED
    BY <1>1, <1>2

LEMMA FillLosesNothing ==
    ASSUME TypeOK, NEW side \in Sides, NEW kind \in Kinds, NEW raw \in RawRequests,
           Branch(Position[side], side) = "Flat", Fill(side, kind, raw)
    PROVE  NoLoss
  <1> SUFFICES ASSUME NEW price \in Position.Buy.startPrice .. Position.Sell.startPrice
               PROVE  Worth(allocation, price) <= Worth(allocation', price)
    BY DEF NoLoss
  <1> DEFINE base  == Position.base
             quote == Position.quote
             config == Position[side]
             curve == Native(config, side)
             fill  == PositionFill(Position, Runtime, side, kind, raw)
  <1>1. /\ Position.Buy.startPrice \in Nat /\ Position.Sell.startPrice \in Nat
        /\ price \in Nat
        /\ Position.Buy.startPrice <= price /\ price <= Position.Sell.startPrice
    BY StartPrices
  <1>2. config.startPrice \in Nat \ {0}
    BY StartPrices
  <1>3. /\ Representable(Position) /\ Runtime \in Runtimes /\ raw \in Nat
        /\ Quotable(Position, Runtime, side, kind, raw)
    BY PositionRepresentable, ResolveType, MakerPositionAssumption
    DEF TypeOK, Runtime, Fill, CanFill
  <1>4. /\ curve.branch = "Flat" /\ curve.kappa \in Nat \ {0}
        /\ side = "Buy" => curve.kappa = config.startPrice
        /\ side = "Sell" => config.startPrice * curve.kappa <= WAD * WAD
    <2>1. Compiles(config, side)
      BY <1>3 DEF Quotable
    <2> QED
      BY <1>2, <2>1, FlatNative
  <1>5. fill.outWad * WAD <= fill.inWad * curve.kappa
    BY <1>3, <1>4, FlatFill
  <1>6. FillType(fill, Runtime[side])
    BY <1>3, AcceptedFill
  <1>7. /\ fill.inWad = fill.amountIn * Factor[SideIn(Position, side)]
        /\ fill.outWad = fill.amountOut * Factor[SideOut(Position, side)]
    BY FillUnits
  <1>8. allocation' = [allocation EXCEPT ![SideIn(Position, side)] = @ + fill.amountIn,
                                         ![SideOut(Position, side)] = @ - fill.amountOut]
    BY DEF Fill
  <1>9. /\ allocation \in [{base, quote} -> Nat] /\ base # quote
        /\ Factor[base] \in Nat \ {0} /\ Factor[quote] \in Nat \ {0}
    BY TokenAssumption, MakerPositionAssumption DEF TypeOK, ValidStructure
  <1>10. /\ fill.amountIn \in Nat /\ fill.amountOut \in Nat
         /\ fill.inWad \in Nat /\ fill.outWad \in Nat /\ WAD \in Nat \ {0}
    BY <1>6, WireDomain DEF FillType
  <1> HIDE DEF fill, curve, config
  <1>11. CASE side = "Sell"
    <2>1. SideIn(Position, side) = quote /\ SideOut(Position, side) = base
      BY <1>11 DEF SideIn, SideOut, TokenIn, TokenOut
    <2>2. /\ allocation'[base] = allocation[base] - fill.amountOut
          /\ allocation'[quote] = allocation[quote] + fill.amountIn
          /\ allocation[base] \in Nat /\ allocation[quote] \in Nat
      BY <1>8, <1>9, <2>1
    <2>3. fill.outWad * price <= fill.inWad * WAD
      <3>1. /\ fill.outWad \in Nat /\ fill.inWad \in Nat /\ curve.kappa \in Nat
            /\ WAD \in Nat \ {0} /\ config.startPrice \in Nat /\ price \in Nat
        BY <1>1, <1>2, <1>4, <1>10
      <3>2. /\ fill.outWad * WAD <= fill.inWad * curve.kappa
            /\ config.startPrice * curve.kappa <= WAD * WAD
            /\ price <= config.startPrice
        BY <1>1, <1>4, <1>5, <1>11 DEF config
      <3> QED
        BY <3>1, <3>2, SellWorth, Zenon
    <2>4. fill.outWad = fill.amountOut * Factor[base] /\ fill.inWad = fill.amountIn * Factor[quote]
      BY <1>7, <2>1
    <2>5. fill.amountOut * Factor[base] * price <= fill.amountIn * Factor[quote] * WAD
      BY <2>3, <2>4
    <2>6. Factor[base] \in Nat /\ Factor[quote] \in Nat /\ WAD \in Nat
      BY <1>9, <1>10
    <2>7. allocation[base] * Factor[base] * price + allocation[quote] * Factor[quote] * WAD
            <= (allocation[base] - fill.amountOut) * Factor[base] * price
                 + (allocation[quote] + fill.amountIn) * Factor[quote] * WAD
      BY <1>1, <1>10, <2>2, <2>5, <2>6, KeptWorth, ZenonT(40)
    <2> QED
      BY <2>2, <2>7 DEF Worth
  <1>12. CASE side = "Buy"
    <2>1. SideIn(Position, side) = base /\ SideOut(Position, side) = quote
      BY <1>12 DEF SideIn, SideOut, TokenIn, TokenOut
    <2>2. /\ allocation'[base] = allocation[base] + fill.amountIn
          /\ allocation'[quote] = allocation[quote] - fill.amountOut
          /\ allocation[base] \in Nat /\ allocation[quote] \in Nat
      BY <1>8, <1>9, <2>1
    <2>3. fill.outWad * WAD <= fill.inWad * price
      <3>1. curve.kappa \in Nat /\ curve.kappa <= price
        BY <1>1, <1>4, <1>12 DEF config
      <3> QED
        BY <1>1, <1>5, <1>10, <3>1, BuyWorth
    <2>4. fill.outWad = fill.amountOut * Factor[quote] /\ fill.inWad = fill.amountIn * Factor[base]
      BY <1>7, <2>1
    <2>5. fill.amountOut * Factor[quote] * WAD <= fill.amountIn * Factor[base] * price
      BY <2>3, <2>4
    <2>6. Factor[base] \in Nat /\ Factor[quote] \in Nat /\ WAD \in Nat
      BY <1>9, <1>10
    <2>7. allocation[base] * Factor[base] * price + allocation[quote] * Factor[quote] * WAD
            <= (allocation[base] + fill.amountIn) * Factor[base] * price
                 + (allocation[quote] - fill.amountOut) * Factor[quote] * WAD
      BY <1>1, <1>10, <2>2, <2>5, <2>6, KeptWorth, ZenonT(40)
    <2> QED
      BY <2>2, <2>7 DEF Worth
  <1> QED
    BY <1>11, <1>12, SideFacts

\* A maker whose two flat quotes do not cross never loses: at every price
\* between them, no fill in either direction and no Aqua credit lowers the
\* worth of the strategy's holdings.
THEOREM FlatMakerNeverLoses ==
    ASSUME \A side \in Sides : Branch(Position[side], side) = "Flat"
    PROVE  Spec => MakerNeverLoses
  <1>1. TypeOK /\ [Next]_vars => [NoLoss]_vars
    <2> SUFFICES ASSUME TypeOK, Next
                 PROVE  NoLoss
      OBVIOUS
    <2>1. ASSUME NEW side \in Sides, NEW kind \in Kinds, NEW raw \in RawRequests,
                 Fill(side, kind, raw)
          PROVE  NoLoss
      BY <2>1, FillLosesNothing
    <2>2. ASSUME NEW token \in {Position.base, Position.quote}, NEW amount \in Gifts,
                 Push(token, amount)
          PROVE  NoLoss
      <3> SUFFICES ASSUME NEW price \in Position.Buy.startPrice .. Position.Sell.startPrice
                   PROVE  Worth(allocation, price) <= Worth(allocation', price)
        BY DEF NoLoss
      <3>1. /\ price \in Nat /\ amount \in Nat /\ WAD \in Nat
            /\ Factor[Position.base] \in Nat /\ Factor[Position.quote] \in Nat
        BY TokenAssumption, MakerPositionAssumption, StartPrices, WireDomain
      <3>2. /\ allocation[Position.base] \in Nat /\ allocation[Position.quote] \in Nat
            /\ allocation'[Position.base] \in Nat /\ allocation'[Position.quote] \in Nat
            /\ allocation[Position.base] <= allocation'[Position.base]
            /\ allocation[Position.quote] <= allocation'[Position.quote]
        BY <2>2, <3>1 DEF TypeOK, Push
      <3> DEFINE fb == Factor[Position.base] * price
                 fq == Factor[Position.quote] * WAD
      <3>3. fb \in Nat /\ fq \in Nat
        BY <3>1, ProductNat
      <3>4. \A held \in Nat : /\ held * Factor[Position.base] * price = fb * held
                              /\ held * Factor[Position.quote] * WAD = fq * held
        BY <3>1
      <3> HIDE DEF fb, fq
      <3>5. /\ fb * allocation[Position.base] <= fb * allocation'[Position.base]
            /\ fq * allocation[Position.quote] <= fq * allocation'[Position.quote]
        BY <3>2, <3>3, ScaleOrder
      <3>6. /\ fb * allocation[Position.base] \in Nat /\ fb * allocation'[Position.base] \in Nat
            /\ fq * allocation[Position.quote] \in Nat /\ fq * allocation'[Position.quote] \in Nat
        BY <3>2, <3>3, ProductNat
      <3> QED
        BY <3>2, <3>4, <3>5, <3>6 DEF Worth
    <2> QED
      BY <2>1, <2>2 DEF Next
  <1> QED
    BY <1>1, MakerTypeOK, PTL DEF Spec, MakerNeverLoses
-----------------------------------------------------------------------------
(* The signed products below the curves.                                    *)

LEMMA AbsFacts ==
    ASSUME NEW v \in Int
    PROVE  /\ Abs(v) \in Nat
           /\ v >= 0 => Abs(v) = v
           /\ v < 0 => Abs(v) = -v
           /\ v # 0 => Abs(v) > 0
  BY DEF Abs

\* The quotient of a negative numerator, by the quotient of its magnitude.
LEMMA NegativeQuotient ==
    ASSUME NEW n \in Nat, NEW c \in Nat \ {0}
    PROVE  (-n) \div c = -(n \div c) - (IF n % c # 0 THEN 1 ELSE 0)
  <1> DEFINE q == n \div c
             r == n % c
  <1>1. q \in Nat /\ r \in Nat /\ r < c /\ n = c * q + r
    OBVIOUS
  <1> HIDE DEF q, r
  <1>2. CASE r = 0
    <2>1. -n = c * (-q)
      BY <1>1, <1>2
    <2>2. (c * (-q)) \div c = -q
      BY <1>1
    <2> QED
      BY <1>2, <2>1, <2>2 DEF q, r
  <1>3. CASE r # 0
    <2>1. -n = c * (-q - 1) + (c - r) /\ 0 <= c - r /\ c - r < c
      BY <1>1, <1>3
    <2>2. (-n) \div c = -q - 1
      BY <1>1, <2>1
    <2> QED
      BY <1>3, <2>2 DEF q, r
  <1> QED
    BY <1>2, <1>3

\* The numerator over a positive denominator, by sign and magnitudes.
LEMMA SignAndMagnitude ==
    ASSUME NEW x \in Int, NEW y \in Int, NEW d \in Int, d # 0
    PROVE  LET m == IF d > 0 THEN x * y ELSE -(x * y)
           IN  m = IF Negative(x, y, d) THEN -(Abs(x) * Abs(y)) ELSE Abs(x) * Abs(y)
  <1>1. \A a, b \in Int : (-a) * b = -(a * b) /\ a * (-b) = -(a * b) /\ (-a) * (-b) = a * b
    OBVIOUS
  <1>2. Abs(x) * Abs(y) = IF (x < 0) # (y < 0) THEN -(x * y) ELSE x * y
    <2>1. CASE x >= 0 /\ y >= 0
      BY <2>1, AbsFacts
    <2>2. CASE x >= 0 /\ y < 0
      BY <1>1, <2>2, AbsFacts
    <2>3. CASE x < 0 /\ y >= 0
      BY <1>1, <2>3, AbsFacts
    <2>4. CASE x < 0 /\ y < 0
      BY <1>1, <2>4, AbsFacts
    <2> QED
      BY <2>1, <2>2, <2>3, <2>4
  <1>3. x * y \in Int
    OBVIOUS
  <1> QED
    BY <1>2, <1>3 DEF Negative

\* A signed product that is not refused is the exact quotient, rounded.
LEMMA SignedMagnitudeIsExact ==
    ASSUME NEW x \in Int, NEW y \in Int, NEW d \in Int, d # 0, NEW rounding \in Rounding
    PROVE  LET exact == IF rounding = "Down" THEN FloorQuotient(x * y, d)
                                             ELSE -FloorQuotient(-(x * y), d)
               n == Abs(x) * Abs(y)
           IN  /\ SignedMagnitude(x, y, d, rounding) \in Nat
               /\ n \div Abs(d) <= SignedMagnitude(x, y, d, rounding)
               /\ MulDivSigned(x, y, d, rounding) = exact
  <1> DEFINE n == Abs(x) * Abs(y)
             c == Abs(d)
             m == IF d > 0 THEN x * y ELSE -(x * y)
             up == IF n % c # 0 THEN 1 ELSE 0
             magnitude == SignedMagnitude(x, y, d, rounding)
             exact == IF rounding = "Down" THEN FloorQuotient(x * y, d)
                                           ELSE -FloorQuotient(-(x * y), d)
  <1>1. n \in Nat /\ c \in Nat \ {0} /\ x * y \in Int
    <2>1. Abs(x) \in Nat /\ Abs(y) \in Nat /\ Abs(d) \in Nat /\ Abs(d) > 0
      BY AbsFacts
    <2> QED
      BY <2>1
  <1>2. exact = IF rounding = "Down" THEN m \div c ELSE -((-m) \div c)
    <2>1. c = IF d > 0 THEN d ELSE -d
      BY AbsFacts
    <2>2. -(-(x * y)) = x * y
      BY <1>1
    <2>3. CASE d > 0
      BY <2>1, <2>3 DEF FloorQuotient
    <2>4. CASE ~(d > 0)
      BY <2>1, <2>2, <2>4 DEF FloorQuotient
    <2> QED
      BY <2>3, <2>4
  <1>3. m = IF Negative(x, y, d) THEN -n ELSE n
    BY SignAndMagnitude
  <1>4. magnitude = (n \div c) + (IF n % c # 0 /\ (Negative(x, y, d) <=> rounding = "Down")
                                  THEN 1 ELSE 0)
    BY DEF SignedMagnitude, MulDiv
  <1>5. MulDivSigned(x, y, d, rounding) = IF Negative(x, y, d) THEN -magnitude ELSE magnitude
    BY DEF MulDivSigned
  <1> HIDE DEF n, c, m, magnitude, exact
  <1>6. n \div c \in Nat /\ (-n) \div c = -(n \div c) - up /\ -(-n) = n
    <2>1. (-n) \div c = -(n \div c) - up
      BY <1>1, NegativeQuotient, Zenon
    <2>2. n \div c \in Nat /\ -(-n) = n
      BY <1>1
    <2> QED
      BY <2>1, <2>2
  <1>7. rounding \in {"Down", "Up"}
    BY DEF Rounding
  <1>8. magnitude \in Nat /\ n \div c <= magnitude
    BY <1>4, <1>6
  <1>9. (IF Negative(x, y, d) THEN -magnitude ELSE magnitude) = exact
    <2>1. CASE Negative(x, y, d) /\ rounding = "Down"
      BY <1>2, <1>3, <1>4, <1>6, <2>1
    <2>2. CASE Negative(x, y, d) /\ rounding = "Up"
      BY <1>2, <1>3, <1>4, <1>6, <2>2
    <2>3. CASE ~Negative(x, y, d) /\ rounding = "Down"
      BY <1>2, <1>3, <1>4, <1>6, <2>3
    <2>4. CASE ~Negative(x, y, d) /\ rounding = "Up"
      BY <1>2, <1>3, <1>4, <1>6, <2>4
    <2> QED
      BY <1>7, <2>1, <2>2, <2>3, <2>4
  <1> QED
    BY <1>5, <1>8, <1>9 DEF n, c, magnitude, exact

LEMMA WordFacts == Word \div 2 \in Nat \ {0} /\ Word = 2 * (Word \div 2)
  BY PrimitivesAssumption

\* A quotient of half a word at the most has a high word below the divisor.
LEMMA SmallQuotientFits ==
    ASSUME NEW n \in Nat, NEW c \in Nat \ {0}, n \div c <= Word \div 2
    PROVE  n \div Word < c
  <1> DEFINE q == n \div c
             half == Word \div 2
  <1>1. q \in Nat /\ n < c * q + c
    OBVIOUS
  <1>2. half \in Nat \ {0} /\ Word = 2 * half /\ q <= half
    BY WordFacts
  <1> HIDE DEF q, half
  <1>3. c * q + c <= c * Word
    <2>1. q + 1 <= Word
      BY <1>1, <1>2
    <2>2. c * (q + 1) <= c * Word
      BY <1>1, <1>2, <2>1
    <2> QED
      BY <1>1, <2>2
  <1>4. n < c * Word /\ Word \in Nat \ {0} /\ c * Word \in Nat
    BY <1>1, <1>2, <1>3
  <1> QED
    BY <1>4

\* mulDivSigned, which divides magnitudes and turns the rounding round for a
\* negative result, returns the floor or ceiling of the exact quotient and
\* reverts exactly when that does not fit, for words of every even size.
THEOREM SignedProducts == SignedProductsAreExact
  <1> SUFFICES ASSUME NEW x \in SignedWords, NEW y \in SignedWords, NEW d \in SignedWords,
                      NEW rounding \in Rounding, d # 0
               PROVE  LET exact == IF rounding = "Down" THEN FloorQuotient(x * y, d)
                                                        ELSE -FloorQuotient(-(x * y), d)
                      IN  /\ CanMulDivSigned(x, y, d, rounding) <=> exact \in SignedWords
                          /\ CanMulDivSigned(x, y, d, rounding) =>
                               MulDivSigned(x, y, d, rounding) = exact
    BY DEF SignedProductsAreExact
  <1> DEFINE n == Abs(x) * Abs(y)
             c == Abs(d)
             half == Word \div 2
             magnitude == SignedMagnitude(x, y, d, rounding)
             exact == IF rounding = "Down" THEN FloorQuotient(x * y, d)
                                           ELSE -FloorQuotient(-(x * y), d)
  <1>1. half \in Nat \ {0}
    BY WordFacts
  <1>2. x \in Int /\ y \in Int /\ d \in Int
    BY <1>1 DEF SignedWords
  <1>3. n \in Nat /\ c \in Nat \ {0}
    <2>1. Abs(x) \in Nat /\ Abs(y) \in Nat /\ Abs(d) \in Nat /\ Abs(d) > 0
      BY <1>2, AbsFacts
    <2> QED
      BY <2>1
  <1>4. /\ magnitude \in Nat /\ n \div c <= magnitude
        /\ MulDivSigned(x, y, d, rounding) = exact
    BY <1>2, SignedMagnitudeIsExact
  <1>5. exact = IF Negative(x, y, d) THEN -magnitude ELSE magnitude
    BY <1>4 DEF MulDivSigned
  <1>6. CanMulDivSigned(x, y, d, rounding) <=>
            /\ n \div Word < c
            /\ IF Negative(x, y, d) THEN magnitude <= half ELSE magnitude < half
    <2>1. CanMulDiv(Abs(x), Abs(y), Abs(d), "Down") <=> n \div Word < c
      BY <1>3 DEF CanMulDiv
    <2> QED
      BY <2>1, Zenon DEF CanMulDivSigned
  <1> HIDE DEF n, c, half, magnitude, exact
  <1>7. exact \in SignedWords <=>
            IF Negative(x, y, d) THEN magnitude <= half ELSE magnitude < half
    BY <1>1, <1>4, <1>5 DEF SignedWords, half
  <1>8. magnitude <= half => n \div Word < c
    <2> SUFFICES ASSUME magnitude <= half PROVE n \div Word < c
      OBVIOUS
    <2>1. n \div c <= half
      BY <1>1, <1>3, <1>4
    <2> QED
      BY <1>3, <2>1, SmallQuotientFits DEF half
  <1>9. CanMulDivSigned(x, y, d, rounding) <=> exact \in SignedWords
    BY <1>1, <1>4, <1>6, <1>7, <1>8
  <1> QED
    BY <1>4, <1>9 DEF exact
-----------------------------------------------------------------------------
(* From draft to strategy.  First the payload: what is written is read.     *)

LEMMA JoinedParts ==
    ASSUME NEW S, NEW header \in Seq(S), NEW sell \in Seq(S), NEW buy \in Seq(S)
    PROVE  LET payload == header \o sell \o buy
           IN  /\ payload \in Seq(S)
               /\ Len(payload) = Len(header) + Len(sell) + Len(buy)
               /\ \A i \in 1 .. Len(header) : payload[i] = header[i]
               /\ \A i \in 1 .. Len(sell) : payload[Len(header) + i] = sell[i]
               /\ \A i \in 1 .. Len(buy) : payload[Len(header) + Len(sell) + i] = buy[i]
  OBVIOUS

LEMMA FieldNumbers ==
    /\ HeaderFields \in Nat /\ CurveFields \in Nat /\ PayloadFields \in Nat
    /\ HeaderFields = 5 /\ CurveFields = 6 /\ PayloadFields = 17
  BY DEF HeaderFields, CurveFields, PayloadFields

\* Field by field, what the browser writes, and ships in front of the program.
LEMMA PayloadFieldFacts ==
    ASSUME NEW config
    PROVE  LET payload == EncodePositionPayload(config)
           IN  /\ \E S : payload \in Seq(S)
               /\ Len(payload) = PayloadFields
               /\ payload[1] = Magic /\ payload[2] = EncodingVersion
               /\ payload[3] = config.base /\ payload[4] = config.quote
               /\ payload[5] = config.salt
               /\ \A k \in 1 .. CurveFields :
                    /\ payload[HeaderFields + k] = EncodeCurve(config.Sell)[k]
                    /\ payload[HeaderFields + CurveFields + k] = EncodeCurve(config.Buy)[k]
  <1> DEFINE tag == <<Magic, EncodingVersion, config.base, config.quote, config.salt>>
             sellWords == EncodeCurve(config.Sell)
             buyWords == EncodeCurve(config.Buy)
             S == {tag[i] : i \in 1 .. 5} \cup {sellWords[i] : i \in 1 .. 6}
                    \cup {buyWords[i] : i \in 1 .. 6}
  <1>1. tag \in Seq(S) /\ Len(tag) = HeaderFields
    BY FieldNumbers
  <1>2. sellWords \in Seq(S) /\ Len(sellWords) = CurveFields
    BY FieldNumbers DEF EncodeCurve
  <1>3. buyWords \in Seq(S) /\ Len(buyWords) = CurveFields
    BY FieldNumbers DEF EncodeCurve
  <1>4. /\ tag[1] = Magic /\ tag[2] = EncodingVersion
        /\ tag[3] = config.base /\ tag[4] = config.quote /\ tag[5] = config.salt
    OBVIOUS
  <1>5. EncodePositionPayload(config) = tag \o sellWords \o buyWords
    BY DEF EncodePositionPayload
  <1> HIDE DEF tag, sellWords, buyWords, S
  <1> DEFINE payload == tag \o sellWords \o buyWords
  <1>6. /\ payload \in Seq(S)
        /\ Len(payload) = HeaderFields + CurveFields + CurveFields
        /\ \A i \in 1 .. HeaderFields : payload[i] = tag[i]
        /\ \A i \in 1 .. CurveFields : /\ payload[HeaderFields + i] = sellWords[i]
                                       /\ payload[HeaderFields + CurveFields + i] = buyWords[i]
    <2>1. /\ payload \in Seq(S)
          /\ Len(payload) = Len(tag) + Len(sellWords) + Len(buyWords)
          /\ \A i \in 1 .. Len(tag) : payload[i] = tag[i]
          /\ \A i \in 1 .. Len(sellWords) : payload[Len(tag) + i] = sellWords[i]
          /\ \A i \in 1 .. Len(buyWords) : payload[Len(tag) + Len(sellWords) + i] = buyWords[i]
      <3>1. tag \in Seq(S) /\ sellWords \in Seq(S) /\ buyWords \in Seq(S)
        BY <1>1, <1>2, <1>3
      <3> QED
        BY <3>1, JoinedParts
    <2> QED
      BY <1>1, <1>2, <1>3, <2>1, Zenon
  <1> HIDE DEF payload
  <1>7. /\ payload[1] = Magic /\ payload[2] = EncodingVersion
        /\ payload[3] = config.base /\ payload[4] = config.quote
        /\ payload[5] = config.salt
    BY <1>4, <1>6, FieldNumbers
  <1>8. Len(payload) = PayloadFields
    BY <1>6 DEF PayloadFields, HeaderFields, CurveFields
  <1>9. EncodePositionPayload(config) = payload
    BY <1>5 DEF payload
  <1> QED
    BY <1>6, <1>7, <1>8, <1>9 DEF sellWords, buyWords

LEMMA FrontOfJoined ==
    ASSUME NEW S, NEW a \in Seq(S), NEW T, NEW b \in Seq(T)
    PROVE  /\ SubSeq(a \o b, 1, Len(a)) = a /\ Len(a \o b) >= Len(a)
           /\ Len(a) \in Nat
  <1>1. a \in Seq(S \cup T) /\ b \in Seq(S \cup T)
    OBVIOUS
  <1>2. Len(a \o b) = Len(a) + Len(b) /\ Len(a) \in Nat /\ Len(b) \in Nat
    BY <1>1
  <1>3. a \o b \in Seq(S \cup T)
    BY <1>1
  <1>4. \A i \in 1 .. Len(a) : (a \o b)[i] = a[i]
    BY <1>1
  <1> QED
    BY <1>1, <1>2, <1>3, <1>4

\* Router and subgraph read the payload that the browser wrote in front of
\* its own program.
LEMMA OwnStrategyIsRead ==
    ASSUME NEW config, NEW maker
    PROVE  LET order == BuildPositionStrategy(config, maker)
           IN  /\ order.maker = maker /\ order.offset = PayloadFields
               /\ RouterPayload(order) = EncodePositionPayload(config)
               /\ IndexedPayload(order) = EncodePositionPayload(config)
               /\ Len(order.data) >= PayloadFields
  <1> DEFINE payload == EncodePositionPayload(config)
  <1>1. (\E S : payload \in Seq(S)) /\ Len(payload) = PayloadFields
    BY PayloadFieldFacts
  <1>2. \E T : Program \in Seq(T)
    <2>1. Program \in Seq({Opcode, 0})
      BY DEF Program
    <2> QED
      BY <2>1
  <1> HIDE DEF payload
  <1>3. /\ SubSeq(payload \o Program, 1, Len(payload)) = payload
        /\ Len(payload \o Program) >= Len(payload)
    BY <1>1, <1>2, FrontOfJoined
  <1>4. /\ SubSeq(payload \o Program, 1, PayloadFields) = payload
        /\ Len(payload \o Program) >= PayloadFields
    BY <1>1, <1>3, Zenon
  <1>5. PayloadFields - PayloadFields + 1 = 1
    BY FieldNumbers
  <1> QED
    BY <1>4, <1>5 DEF BuildPositionStrategy, RouterPayload, IndexedPayload, payload

\* An int128 survives its field, and every word of the field is an int128.
LEMMA SignedFields ==
    /\ \A v \in MinInt128 .. MaxInt128 :
         ToUnsigned(v) \in Amounts /\ ReadSigned(ToUnsigned(v)) = v
    /\ \A word \in Amounts : ReadSigned(word) \in MinInt128 .. MaxInt128
  <1>1. PICK half \in Nat \ {0} : MaxAmount = 2 * half - 1
    <2>1. ASSUME NEW n \in Nat
          PROVE  n % 2 = n - 2 * (n \div 2)
      OBVIOUS
    <2>2. MaxAmount \div 2 + 1 \in Nat \ {0}
      BY FixedPointAssumption
    <2>3. MaxAmount = 2 * (MaxAmount \div 2 + 1) - 1
      BY <2>1, <2>2, FixedPointAssumption, PayloadAssumption
    <2> QED
      BY <2>2, <2>3
  <1>2. /\ TwoPow128 = 2 * half /\ TwoPow128 \div 2 = half
        /\ MinInt128 = -half /\ MaxInt128 = half - 1
    BY <1>1 DEF TwoPow128, MinInt128, MaxInt128
  <1>3. ASSUME NEW v \in MinInt128 .. MaxInt128
        PROVE  ToUnsigned(v) = IF v >= 0 THEN v ELSE v + 2 * half
    BY <1>2, <1>3 DEF ToUnsigned
  <1>4. ASSUME NEW v \in MinInt128 .. MaxInt128
        PROVE  ToUnsigned(v) \in Amounts /\ ReadSigned(ToUnsigned(v)) = v
    BY <1>1, <1>2, <1>3, <1>4 DEF ReadSigned, Amounts
  <1>5. ASSUME NEW word \in Amounts
        PROVE  ReadSigned(word) \in MinInt128 .. MaxInt128
    BY <1>1, <1>2 DEF ReadSigned, Amounts
  <1> QED
    BY <1>4, <1>5

\* The curves of a configuration, without fields of other kinds.
SameCurve(curve, other) ==
    /\ curve.startPrice = other.startPrice /\ curve.endPrice = other.endPrice
    /\ curve.alpha = other.alpha /\ curve.initialReserve = other.initialReserve
    /\ curve.mu = other.mu /\ curve.kappa = other.kappa

\* What can be encoded is decoded as it was.
LEMMA EncodedIsDecoded ==
    ASSUME NEW config, Encodable(config)
    PROVE  LET payload == EncodePositionPayload(config)
               policy == DecodePayload(payload)
           IN  /\ Tagged(payload) /\ CurveWords(payload)
               /\ policy.base = config.base /\ policy.quote = config.quote
               /\ policy.salt = config.salt
               /\ \A side \in Sides : SameCurve(policy[side], config[side])
  <1>1. PICK payload : payload = EncodePositionPayload(config)
    OBVIOUS
  <1>2. /\ payload[1] = Magic /\ payload[2] = EncodingVersion
        /\ payload[3] = config.base /\ payload[4] = config.quote
        /\ payload[5] = config.salt
        /\ \A k \in 1 .. 6 :
             /\ payload[5 + k] = EncodeCurve(config.Sell)[k]
             /\ payload[11 + k] = EncodeCurve(config.Buy)[k]
    <2>1. /\ payload[1] = Magic /\ payload[2] = EncodingVersion
          /\ payload[3] = config.base /\ payload[4] = config.quote
          /\ payload[5] = config.salt
          /\ \A k \in 1 .. CurveFields :
               /\ payload[HeaderFields + k] = EncodeCurve(config.Sell)[k]
               /\ payload[HeaderFields + CurveFields + k] = EncodeCurve(config.Buy)[k]
      BY <1>1, PayloadFieldFacts, Zenon
    <2> QED
      BY <2>1 DEF HeaderFields, CurveFields
  <1>3. ASSUME NEW curve,
               curve.startPrice \in Amounts, curve.endPrice \in Amounts,
               curve.initialReserve \in Amounts, curve.mu \in Amounts, curve.kappa \in Amounts,
               curve.alpha \in MinInt128 .. MaxInt128
        PROVE  /\ \A k \in 1 .. 6 : EncodeCurve(curve)[k] \in Amounts
               /\ EncodeCurve(curve)[1] = curve.startPrice
               /\ EncodeCurve(curve)[2] = curve.endPrice
               /\ ReadSigned(EncodeCurve(curve)[3]) = curve.alpha
               /\ EncodeCurve(curve)[4] = curve.initialReserve
               /\ EncodeCurve(curve)[5] = curve.mu /\ EncodeCurve(curve)[6] = curve.kappa
    <2>1. ToUnsigned(curve.alpha) \in Amounts /\ ReadSigned(ToUnsigned(curve.alpha)) = curve.alpha
      BY <1>3, SignedFields
    <2>2. /\ EncodeCurve(curve)[1] = curve.startPrice
          /\ EncodeCurve(curve)[2] = curve.endPrice
          /\ EncodeCurve(curve)[3] = ToUnsigned(curve.alpha)
          /\ EncodeCurve(curve)[4] = curve.initialReserve
          /\ EncodeCurve(curve)[5] = curve.mu /\ EncodeCurve(curve)[6] = curve.kappa
      BY DEF EncodeCurve
    <2>3. ASSUME NEW k \in 1 .. 6
          PROVE  EncodeCurve(curve)[k] \in Amounts
      <3>1. k = 1 \/ k = 2 \/ k = 3 \/ k = 4 \/ k = 5 \/ k = 6
        OBVIOUS
      <3> QED
        BY <1>3, <2>1, <2>2, <3>1, Zenon
    <2> QED
      BY <2>1, <2>2, <2>3, Zenon
  <1>4. ASSUME NEW side \in Sides
        PROVE  /\ config[side].startPrice \in Amounts /\ config[side].endPrice \in Amounts
               /\ config[side].initialReserve \in Amounts /\ config[side].mu \in Amounts
               /\ config[side].kappa \in Amounts
               /\ config[side].alpha \in MinInt128 .. MaxInt128
    BY DEF Encodable, IsAmount
  <1>5. "Sell" \in Sides /\ "Buy" \in Sides /\ \A s \in Sides : s = "Sell" \/ s = "Buy"
    BY DEF Sides
  <1>6. /\ \A k \in 1 .. 6 : payload[5 + k] \in Amounts /\ payload[11 + k] \in Amounts
        /\ SameCurve(CurveAt(payload, 6), config["Sell"])
        /\ SameCurve(CurveAt(payload, 12), config["Buy"])
    <2>1. /\ \A k \in 1 .. 6 : EncodeCurve(config["Sell"])[k] \in Amounts
          /\ EncodeCurve(config["Sell"])[1] = config["Sell"].startPrice
          /\ EncodeCurve(config["Sell"])[2] = config["Sell"].endPrice
          /\ ReadSigned(EncodeCurve(config["Sell"])[3]) = config["Sell"].alpha
          /\ EncodeCurve(config["Sell"])[4] = config["Sell"].initialReserve
          /\ EncodeCurve(config["Sell"])[5] = config["Sell"].mu
          /\ EncodeCurve(config["Sell"])[6] = config["Sell"].kappa
      BY <1>3, <1>4, <1>5, Zenon
    <2>2. /\ \A k \in 1 .. 6 : EncodeCurve(config["Buy"])[k] \in Amounts
          /\ EncodeCurve(config["Buy"])[1] = config["Buy"].startPrice
          /\ EncodeCurve(config["Buy"])[2] = config["Buy"].endPrice
          /\ ReadSigned(EncodeCurve(config["Buy"])[3]) = config["Buy"].alpha
          /\ EncodeCurve(config["Buy"])[4] = config["Buy"].initialReserve
          /\ EncodeCurve(config["Buy"])[5] = config["Buy"].mu
          /\ EncodeCurve(config["Buy"])[6] = config["Buy"].kappa
      BY <1>3, <1>4, <1>5, Zenon
    <2> QED
      BY <1>2, <2>1, <2>2 DEF SameCurve, CurveAt
  <1>7. CurveWords(payload)
    <2>1. ASSUME NEW k \in 6 .. 17
          PROVE  payload[k] \in Amounts
      <3>1. k - 5 \in 1 .. 6 \/ k - 11 \in 1 .. 6
        OBVIOUS
      <3>2. 5 + (k - 5) = k /\ 11 + (k - 11) = k
        OBVIOUS
      <3> QED
        BY <1>6, <3>1, <3>2
    <2> QED
      BY <2>1 DEF CurveWords, HeaderFields, CurveFields, PayloadFields
  <1>8. /\ DecodePayload(payload).base = config.base
        /\ DecodePayload(payload).quote = config.quote
        /\ DecodePayload(payload).salt = config.salt
        /\ DecodePayload(payload)["Sell"] = CurveAt(payload, 6)
        /\ DecodePayload(payload)["Buy"] = CurveAt(payload, 12)
    BY <1>2 DEF DecodePayload, HeaderFields, CurveFields
  <1> QED
    BY <1>1, <1>2, <1>5, <1>6, <1>7, <1>8 DEF Tagged

-----------------------------------------------------------------------------
(* The publication, and the index of what is shipped.                       *)

\* Reserves are whole numbers of raw units, so that it does not matter how
\* they are rounded, and no allowance is too small for them.
LEMMA WholeReserve ==
    ASSUME NEW draft, CanCompile(draft), {draft.base, draft.quote} \subseteq Tokens,
           NEW side \in Sides
    PROVE  /\ SideAllocation(draft, side) \in Nat
           /\ WadToRaw(draft[side].initialReserve, Factor[SideToken(draft, side)], "Up")
                = SideAllocation(draft, side)
           /\ SideAllocation(draft, side) <= MaxUint256
  <1> DEFINE reserve == draft[side].initialReserve
             factor == Factor[SideToken(draft, side)]
  <1>1. reserve \in Amounts
    BY DEF CanCompile, CanCompileCurve, AcceptedDraft, IsAmount
  <1>2. factor \in Nat \ {0} /\ reserve % factor = 0
    <2>1. side = "Sell" \/ side = "Buy"
      BY DEF Sides
    <2> QED
      BY <2>1, TokenAssumption DEF CanCompile, SideToken, TokenOut
  <1> HIDE DEF reserve, factor
  <1>3. reserve \in Nat /\ reserve <= MaxAmount /\ MaxAmount \in Nat
    BY <1>1, FixedPointAssumption DEF Amounts
  <1>4. PICK k \in Nat : reserve = factor * k
    <2>1. reserve % factor = reserve - factor * (reserve \div factor)
      BY <1>2, <1>3
    <2>2. reserve \div factor \in Nat /\ factor * (reserve \div factor) \in Nat
      BY <1>2, <1>3, DivFloor, ProductNat
    <2>3. reserve = factor * (reserve \div factor)
      BY <1>2, <1>3, <2>1, <2>2
    <2> QED
      BY <2>2, <2>3
  <1>5. \A rounding \in Rounding :
          WadToRaw(reserve, factor, rounding) \in Nat /\ WadToRaw(reserve, factor, rounding) = k
    <2>1. WadToRaw(reserve, factor, "Down") \in Nat /\ WadToRaw(reserve, factor, "Down") = k
      <3> DEFINE q == WadToRaw(reserve, factor, "Down")
      <3>1. q \in Nat /\ factor * q <= reserve * 1 /\ reserve * 1 < factor * q + factor
        BY <1>2, <1>3, MulDivDown DEF WadToRaw
      <3> HIDE DEF q
      <3>2. q = k
        BY <1>2, <1>4, <3>1
      <3> QED
        BY <3>1, <3>2 DEF q
    <2>2. WadToRaw(reserve, factor, "Up") \in Nat /\ WadToRaw(reserve, factor, "Up") = k
      <3> DEFINE q == WadToRaw(reserve, factor, "Up")
      <3>1. q \in Nat /\ reserve * 1 <= factor * q /\ factor * q < reserve * 1 + factor
        BY <1>2, <1>3, MulDivUp DEF WadToRaw
      <3> HIDE DEF q
      <3>2. q = k
        BY <1>2, <1>4, <3>1
      <3> QED
        BY <3>1, <3>2 DEF q
    <2> QED
      BY <2>1, <2>2 DEF Rounding
  <1>6. k <= reserve
    BY <1>2, <1>4
  <1> QED
    BY <1>3, <1>5, <1>6, PublicationAssumption DEF SideAllocation, Rounding, reserve, factor
LEMMA PublicationBounds ==
    /\ MaxTouches \in Nat /\ MaxShips \in Nat /\ Len(FreshSalts) \in Nat
    /\ MaxUint256 \in Nat /\ OrdinaryPrice \in Nat
    /\ OtherAllowances \cup {0, MaxUint256} \subseteq Nat
  <1>1. /\ {MaxTouches, MaxShips, Len(FreshSalts), OrdinaryPrice, MaxUint256} \subseteq Nat
        /\ OtherAllowances \subseteq Nat
    BY PublicationAssumption
  <1>2. /\ MaxTouches \in Nat /\ MaxShips \in Nat /\ Len(FreshSalts) \in Nat
        /\ MaxUint256 \in Nat /\ OrdinaryPrice \in Nat
    BY <1>1
  <1>3. \A n \in OtherAllowances \cup {0, MaxUint256} : n \in Nat
    BY <1>1, <1>2
  <1> QED
    BY <1>2, <1>3

HasSalt(draft) == draft.salt # NoSalt \/ salts[draft] # NoSalt
SaltOf(draft) == IF draft.salt # NoSalt THEN draft.salt ELSE salts[draft]

SaltsOK == salts = [d \in Drafts |-> salts[d]] /\ drawn \in 0 .. Len(FreshSalts)

Compilable(draft) == draft \in Drafts /\ CanCompile(draft) /\ HasSalt(draft)

\* The payload of a draft, by the salt the session remembers for it.
ConfigOf(draft) == CompilePosition(draft, SaltOf(draft))

PreviewOK ==
    preview # None =>
        /\ preview = [draft |-> preview.draft, payload |-> preview.payload]
        /\ Compilable(preview.draft)
        /\ preview.payload = EncodePositionPayload(ConfigOf(preview.draft))

\* While the allowances are read there is no plan; the first one read is
\* still that of the chain, unless the maker changed it elsewhere.
ReadingOK ==
    reading # None =>
        /\ plan = None
        /\ reading = [draft |-> reading.draft, maker |-> reading.maker, salt |-> reading.salt,
                      baseAllowance |-> reading.baseAllowance, touched |-> reading.touched]
        /\ Compilable(reading.draft) /\ reading.salt = SaltOf(reading.draft)
        /\ reading.maker \in Makers /\ reading.touched \subseteq Tokens
        /\ reading.draft.base \notin reading.touched =>
             reading.baseAllowance = allowance[reading.maker][reading.draft.base]

Holds(list, x) == \E i \in 1 .. Len(list) : list[i] = x

\* A side with something to allocate is going to be approved or is approved
\* already, unless the maker changed it elsewhere.
Approved(side) ==
    LET token == SideToken(plan.draft, side)
    IN  /\ SideAllocation(plan.draft, side) > 0
        /\ token \notin plan.touched
        => \/ Holds(plan.approvals, token)
           \/ allowance[plan.maker][token] = MaxUint256

PlanOK ==
    plan # None =>
        /\ plan = [draft |-> plan.draft, maker |-> plan.maker, approvals |-> plan.approvals,
                   order |-> plan.order, base |-> plan.base, quote |-> plan.quote,
                   touched |-> plan.touched]
        /\ Compilable(plan.draft) /\ Encodable(ConfigOf(plan.draft))
        /\ plan.maker \in Makers /\ plan.touched \subseteq Tokens
        /\ plan.order = BuildPositionStrategy(ConfigOf(plan.draft), plan.maker)
        /\ plan.base = SideAllocation(plan.draft, "Sell")
        /\ plan.quote = SideAllocation(plan.draft, "Buy")
        /\ plan.approvals \in Seq(Tokens)
        /\ \A side \in Sides : Approved(side)

AllowanceOK ==
    allowance \in [Makers -> [Tokens -> OtherAllowances \cup {0, MaxUint256}]]

ShippedOK ==
    /\ \E S : shipped \in Seq(S)
    /\ \A i \in 1 .. Len(shipped) :
         RouterDecodes(shipped[i].order) => CurveWords(RouterPayload(shipped[i].order))

IndexOK ==
    /\ seen \in 0 .. Len(shipped) /\ halted \in BOOLEAN /\ touches \in 0 .. MaxTouches
    /\ IsFiniteSet(index) /\ Cardinality(index) <= seen
    /\ \A i \in 1 .. seen :
         IndexDecodes(shipped[i].order) /\ shipped[i].order.maker = shipped[i].sender
         => Row(shipped[i]) \in index

PublicationInv ==
    /\ SaltsOK /\ PreviewOK /\ ReadingOK /\ PlanOK
    /\ AllowanceOK /\ ShippedOK /\ IndexOK

LEMMA PublicationInvInit == PublicationInit => PublicationInv
  <1> SUFFICES ASSUME PublicationInit PROVE PublicationInv
    OBVIOUS
  <1>1. SaltsOK
    BY PublicationAssumption DEF PublicationInit, SaltsOK
  <1>2. PreviewOK /\ ReadingOK /\ PlanOK
    BY DEF PublicationInit, PreviewOK, ReadingOK, PlanOK
  <1>3. AllowanceOK
    BY DEF PublicationInit, AllowanceOK
  <1>4. ShippedOK
    <2>1. shipped \in Seq({})
      BY DEF PublicationInit
    <2>2. Len(shipped) = 0
      BY DEF PublicationInit
    <2> QED
      BY <2>1, <2>2 DEF ShippedOK
  <1>5. IndexOK
    <2>1. Len(shipped) = 0
      BY DEF PublicationInit
    <2>2. IsFiniteSet({}) /\ Cardinality({}) = 0
      BY FS_EmptySet
    <2>3. \A i \in 1 .. seen : FALSE
      BY DEF PublicationInit
    <2>4. seen \in 0 .. Len(shipped) /\ touches \in 0 .. MaxTouches
      BY <2>1, PublicationBounds DEF PublicationInit
    <2>5. halted \in BOOLEAN
      BY DEF PublicationInit
    <2> QED
      BY <2>2, <2>3, <2>4, <2>5 DEF PublicationInit, IndexOK
  <1> QED
    BY <1>1, <1>2, <1>3, <1>4, <1>5 DEF PublicationInv

\* Once a draft has a salt, it keeps it.
LEMMA SaltIsKept ==
    ASSUME SaltsOK, NEW draft \in Drafts, RecallSalt(draft)
    PROVE  /\ SaltsOK'
           /\ HasSalt(draft)' /\ SaltAfter(draft) = SaltOf(draft)'
           /\ \A d \in Drafts : HasSalt(d) => HasSalt(d)' /\ SaltOf(d)' = SaltOf(d)
  <1>1. CASE UNCHANGED <<salts, drawn>> /\ HasSalt(draft)
    BY <1>1 DEF SaltsOK, HasSalt, SaltOf, SaltAfter
  <1>2. CASE DrawSalt(draft) /\ ~HasSalt(draft)
    <2>1. /\ drawn + 1 \in 1 .. Len(FreshSalts) /\ drawn' = drawn + 1
          /\ salts' = [salts EXCEPT ![draft] = FreshSalts[drawn + 1]]
      BY <1>2, PublicationAssumption DEF DrawSalt, SaltsOK
    <2>2. FreshSalts[drawn + 1] # NoSalt
      BY <2>1, PublicationAssumption
    <2>3. SaltsOK'
      <3>1. salts' = [d \in Drafts |-> salts'[d]]
        BY <2>1 DEF SaltsOK
      <3>2. drawn' \in 0 .. Len(FreshSalts)
        BY <2>1, PublicationBounds
      <3> QED
        BY <3>1, <3>2 DEF SaltsOK
    <2>4. salts'[draft] = FreshSalts[drawn + 1]
      BY <2>1 DEF SaltsOK
    <2>5. \A d \in Drafts : d # draft => salts'[d] = salts[d]
      BY <2>1 DEF SaltsOK
    <2> QED
      BY <1>2, <2>2, <2>3, <2>4, <2>5 DEF HasSalt, SaltOf, SaltAfter
  <1> QED
    BY <1>1, <1>2 DEF RecallSalt, HasSalt

\* A draft with a salt keeps its payload while salts are only drawn.
SaltsKept ==
    /\ SaltsOK'
    /\ \A d \in Drafts : HasSalt(d) => HasSalt(d)' /\ SaltOf(d)' = SaltOf(d)

LEMMA ConfigIsKept ==
    ASSUME SaltsKept, NEW draft, Compilable(draft)
    PROVE  Compilable(draft)' /\ ConfigOf(draft)' = ConfigOf(draft) /\ SaltOf(draft)' = SaltOf(draft)
  <1>1. draft \in Drafts /\ CanCompile(draft) /\ HasSalt(draft)
    BY DEF Compilable
  <1>2. HasSalt(draft)' /\ SaltOf(draft)' = SaltOf(draft)
    BY <1>1 DEF SaltsKept
  <1> QED
    BY <1>1, <1>2 DEF Compilable, ConfigOf

LEMMA PreviewIsKept ==
    ASSUME PreviewOK, SaltsKept, preview' = preview
    PROVE  PreviewOK'
  <1> SUFFICES ASSUME preview # None
               PROVE  /\ preview = [draft |-> preview.draft, payload |-> preview.payload]
                      /\ Compilable(preview.draft)'
                      /\ preview.payload = EncodePositionPayload(ConfigOf(preview.draft)')
    BY DEF PreviewOK, Compilable, HasSalt, ConfigOf, SaltOf
  <1> QED
    BY ConfigIsKept DEF PreviewOK

LEMMA PlanIsKept ==
    ASSUME PlanOK, SaltsKept, plan' = plan, allowance' = allowance
    PROVE  PlanOK'
  <1>1. CASE plan = None
    BY <1>1 DEF PlanOK
  <1>2. CASE plan # None
    <2>1. Compilable(plan.draft)' /\ ConfigOf(plan.draft)' = ConfigOf(plan.draft)
      BY <1>2, ConfigIsKept DEF PlanOK
    <2>2. \A side \in Sides : Approved(side)'
      BY <1>2 DEF PlanOK, Approved
    <2> QED
      BY <1>2, <2>1, <2>2 DEF PlanOK, Compilable, HasSalt, ConfigOf, SaltOf
  <1> QED
    BY <1>1, <1>2

LEMMA RestIsKept ==
    ASSUME PublicationInv, UNCHANGED <<allowance, shipped, subgraph, touches>>
    PROVE  AllowanceOK' /\ ShippedOK' /\ IndexOK'
  BY DEF PublicationInv, AllowanceOK, ShippedOK, IndexOK, subgraph

LEMMA RecalledSalts ==
    ASSUME PublicationInv, NEW draft \in Drafts, RecallSalt(draft)
    PROVE  /\ SaltsKept /\ HasSalt(draft)'
           /\ CompilePosition(draft, SaltAfter(draft)) = ConfigOf(draft)'
           /\ SaltAfter(draft) = SaltOf(draft)'
  BY SaltIsKept DEF PublicationInv, SaltsKept, ConfigOf

LEMMA PreviewStep ==
    ASSUME PublicationInv, NEW draft \in Drafts, Preview(draft)
    PROVE  PublicationInv'
  <1>1. /\ reading = None /\ CanCompile(draft) /\ RecallSalt(draft)
        /\ UNCHANGED <<reading, plan, allowance, shipped, subgraph, touches>>
        /\ preview' = [draft |-> draft,
                       payload |-> EncodePositionPayload(CompilePosition(draft, SaltAfter(draft)))]
    BY DEF Preview
  <1>2. /\ SaltsKept /\ HasSalt(draft)'
        /\ CompilePosition(draft, SaltAfter(draft)) = ConfigOf(draft)'
    BY <1>1, RecalledSalts
  <1>3. PreviewOK'
    <2>1. /\ preview'.draft = draft
          /\ preview'.payload = EncodePositionPayload(ConfigOf(draft)')
          /\ preview' = [draft |-> preview'.draft, payload |-> preview'.payload]
      BY <1>1, <1>2
    <2>2. Compilable(draft)'
      BY <1>1, <1>2 DEF Compilable
    <2> QED
      BY <2>1, <2>2 DEF PreviewOK, Compilable, HasSalt, ConfigOf, SaltOf
  <1>4. ReadingOK'
    BY <1>1 DEF ReadingOK
  <1>5. PlanOK'
    BY <1>1, <1>2, PlanIsKept DEF PublicationInv
  <1>6. AllowanceOK' /\ ShippedOK' /\ IndexOK'
    BY <1>1, RestIsKept
  <1> QED
    BY <1>2, <1>3, <1>4, <1>5, <1>6 DEF PublicationInv, SaltsKept

LEMMA AskForPlanStep ==
    ASSUME PublicationInv, NEW draft \in Drafts, NEW maker \in Makers, AskForPlan(draft, maker)
    PROVE  PublicationInv'
  <1>1. /\ CanCompile(draft) /\ RecallSalt(draft) /\ plan' = None
        /\ UNCHANGED <<preview, allowance, shipped, subgraph, touches>>
        /\ reading' = [draft |-> draft, maker |-> maker, salt |-> SaltAfter(draft),
                       baseAllowance |-> allowance[maker][draft.base], touched |-> {}]
    BY DEF AskForPlan
  <1>2. SaltsKept /\ HasSalt(draft)' /\ SaltAfter(draft) = SaltOf(draft)'
    BY <1>1, RecalledSalts
  <1>3. PreviewOK'
    BY <1>1, <1>2, PreviewIsKept DEF PublicationInv
  <1>4. ReadingOK'
    <2>1. /\ reading'.draft = draft /\ reading'.maker = maker
          /\ reading'.salt = SaltOf(draft)' /\ reading'.touched = {}
          /\ reading'.baseAllowance = allowance'[maker][draft.base]
          /\ reading' = [draft |-> reading'.draft, maker |-> reading'.maker,
                         salt |-> reading'.salt, baseAllowance |-> reading'.baseAllowance,
                         touched |-> reading'.touched]
      BY <1>1, <1>2
    <2>2. Compilable(draft)'
      BY <1>1, <1>2 DEF Compilable
    <2> QED
      BY <1>1, <2>1, <2>2 DEF ReadingOK, Compilable, HasSalt, SaltOf
  <1>5. PlanOK'
    BY <1>1 DEF PlanOK
  <1>6. AllowanceOK' /\ ShippedOK' /\ IndexOK'
    BY <1>1, RestIsKept
  <1> QED
    BY <1>2, <1>3, <1>4, <1>5, <1>6 DEF PublicationInv, SaltsKept

\* Steps that draw no salt.
LEMMA UnchangedSalts ==
    ASSUME PublicationInv, UNCHANGED <<salts, drawn>>
    PROVE  SaltsKept
  BY DEF PublicationInv, SaltsOK, SaltsKept, HasSalt, SaltOf

\* A list joined from two holds what either holds.
LEMMA JoinedHolds ==
    ASSUME NEW S, NEW first \in Seq(S), NEW second \in Seq(S)
    PROVE  /\ first \o second \in Seq(S)
           /\ \A x : Holds(first, x) \/ Holds(second, x) => Holds(first \o second, x)
  <1>1. /\ first \o second \in Seq(S) /\ Len(first) \in Nat /\ Len(second) \in Nat
        /\ Len(first \o second) = Len(first) + Len(second)
        /\ \A i \in 1 .. Len(first) : (first \o second)[i] = first[i]
        /\ \A i \in 1 .. Len(second) : (first \o second)[Len(first) + i] = second[i]
    OBVIOUS
  <1>2. ASSUME NEW x, Holds(first, x)
        PROVE  Holds(first \o second, x)
    <2>1. PICK i \in 1 .. Len(first) : first[i] = x
      BY <1>2 DEF Holds
    <2>2. i \in 1 .. Len(first \o second) /\ (first \o second)[i] = x
      BY <1>1, <2>1
    <2> QED
      BY <2>2 DEF Holds
  <1>3. ASSUME NEW x, Holds(second, x)
        PROVE  Holds(first \o second, x)
    <2>1. PICK i \in 1 .. Len(second) : second[i] = x
      BY <1>3 DEF Holds
    <2>2. /\ Len(first) + i \in 1 .. Len(first \o second)
          /\ (first \o second)[Len(first) + i] = x
      BY <1>1, <2>1
    <2> QED
      BY <2>2 DEF Holds
  <1> QED
    BY <1>1, <1>2, <1>3

LEMMA SingleHolds ==
    ASSUME NEW S, NEW x \in S
    PROVE  <<x>> \in Seq(S) /\ <<>> \in Seq(S) /\ Holds(<<x>>, x)
  <1>1. <<x>> \in Seq(S) /\ <<>> \in Seq(S) /\ 1 \in 1 .. Len(<<x>>) /\ <<x>>[1] = x
    OBVIOUS
  <1> QED
    BY <1>1 DEF Holds

LEMMA FinishPlanStep ==
    ASSUME PublicationInv, FinishPlan
    PROVE  PublicationInv'
  <1>0. PICK draft : draft = reading.draft
    OBVIOUS
  <1> DEFINE config == CompilePosition(draft, reading.salt)
             base == SideAllocation(draft, "Sell")
             quote == SideAllocation(draft, "Buy")
             A == NeedsApproval(base, reading.baseAllowance)
             B == NeedsApproval(quote, allowance[reading.maker][draft.quote])
             first == IF A THEN <<draft.base>> ELSE <<>>
             second == IF B THEN <<draft.quote>> ELSE <<>>
             approvals == first \o second
  <1>1. /\ reading # None /\ reading' = None
        /\ plan' = IF Encodable(config)
                   THEN [draft |-> draft, maker |-> reading.maker, approvals |-> approvals,
                         order |-> BuildPositionStrategy(config, reading.maker),
                         base |-> base, quote |-> quote, touched |-> reading.touched]
                   ELSE plan
        /\ UNCHANGED <<salts, drawn, preview, allowance, shipped, subgraph, touches>>
    BY <1>0 DEF FinishPlan
  <1>2. /\ Compilable(draft) /\ config = ConfigOf(draft)
        /\ reading.maker \in Makers /\ reading.touched \subseteq Tokens
        /\ draft.base \notin reading.touched =>
             reading.baseAllowance = allowance[reading.maker][draft.base]
        /\ plan = None
    BY <1>0, <1>1 DEF PublicationInv, ReadingOK, ConfigOf
  <1>3. draft.base \in Tokens /\ draft.quote \in Tokens
    BY <1>2, PublicationAssumption DEF Compilable
  <1> HIDE DEF A, B
  <1>4. /\ approvals \in Seq(Tokens)
        /\ A => Holds(approvals, draft.base)
        /\ B => Holds(approvals, draft.quote)
    <2>1. /\ first \in Seq(Tokens) /\ second \in Seq(Tokens)
          /\ A => Holds(first, draft.base)
          /\ B => Holds(second, draft.quote)
      <3>1. /\ <<draft.base>> \in Seq(Tokens) /\ <<>> \in Seq(Tokens)
            /\ Holds(<<draft.base>>, draft.base)
        BY <1>3, SingleHolds
      <3>2. <<draft.quote>> \in Seq(Tokens) /\ Holds(<<draft.quote>>, draft.quote)
        BY <1>3, SingleHolds
      <3> QED
        BY <3>1, <3>2, Zenon
    <2> HIDE DEF first, second
    <2> QED
      BY <2>1, JoinedHolds
  <1> HIDE DEF approvals
  <1>5. SaltsKept
    BY <1>1, UnchangedSalts
  <1>6. /\ Compilable(draft)' /\ ConfigOf(draft)' = config
    BY <1>2, <1>5, ConfigIsKept
  <1>7. PlanOK'
    <2>1. CASE ~Encodable(config)
      BY <1>1, <1>2, <2>1 DEF PlanOK
    <2>2. CASE Encodable(config)
      <3>1. /\ plan'.draft = draft /\ plan'.maker = reading.maker
            /\ plan'.approvals = approvals
            /\ plan'.order = BuildPositionStrategy(config, reading.maker)
            /\ plan'.base = base /\ plan'.quote = quote /\ plan'.touched = reading.touched
            /\ plan' = [draft |-> plan'.draft, maker |-> plan'.maker,
                        approvals |-> plan'.approvals, order |-> plan'.order,
                        base |-> plan'.base, quote |-> plan'.quote,
                        touched |-> plan'.touched]
        BY <1>1, <2>2
      <3>2. ASSUME NEW side \in Sides
            PROVE  Approved(side)'
        <4>1. SUFFICES ASSUME SideAllocation(draft, side) > 0,
                              SideToken(draft, side) \notin reading.touched
                       PROVE  \/ Holds(approvals, SideToken(draft, side))
                              \/ allowance'[reading.maker][SideToken(draft, side)] = MaxUint256
          BY <3>1 DEF Approved
        <4>2. CASE side = "Sell"
          <5>1. SideToken(draft, side) = draft.base
            BY <4>2 DEF SideToken, TokenOut
          <5>2. A \/ reading.baseAllowance = MaxUint256
            BY <4>1, <4>2 DEF A, NeedsApproval
          <5> QED
            BY <1>1, <1>2, <1>4, <4>1, <5>1, <5>2
        <4>3. CASE side = "Buy"
          <5>1. SideToken(draft, side) = draft.quote
            BY <4>3 DEF SideToken, TokenOut
          <5>2. B \/ allowance[reading.maker][draft.quote] = MaxUint256
            BY <4>1, <4>3 DEF B, NeedsApproval
          <5> QED
            BY <1>1, <1>4, <5>1, <5>2
        <4> QED
          BY <4>2, <4>3 DEF Sides
      <3> QED
        BY <1>2, <1>4, <1>6, <2>2, <3>1, <3>2
        DEF PlanOK, Compilable, HasSalt, ConfigOf, SaltOf
    <2> QED
      BY <2>1, <2>2
  <1>8. PreviewOK'
    BY <1>1, <1>5, PreviewIsKept DEF PublicationInv
  <1>9. ReadingOK'
    BY <1>1 DEF ReadingOK
  <1>10. AllowanceOK' /\ ShippedOK' /\ IndexOK'
    BY <1>1, RestIsKept
  <1> QED
    BY <1>5, <1>7, <1>8, <1>9, <1>10 DEF PublicationInv, SaltsKept

LEMMA SendApprovalStep ==
    ASSUME PublicationInv, SendApproval
    PROVE  PublicationInv'
  <1>1. /\ plan # None /\ plan.approvals # <<>>
        /\ allowance' = [allowance EXCEPT ![plan.maker][Head(plan.approvals)] = MaxUint256]
        /\ plan' = [plan EXCEPT !.approvals = Tail(plan.approvals)]
        /\ UNCHANGED <<salts, drawn, preview, reading, shipped, subgraph, touches>>
    BY DEF SendApproval
  <1>2. SaltsKept
    BY <1>1, UnchangedSalts
  <1> DEFINE list == plan.approvals
  <1>3. /\ list \in Seq(Tokens) /\ list # <<>>
        /\ plan.maker \in Makers /\ Compilable(plan.draft)
        /\ \A side \in Sides : Approved(side)
    BY <1>1 DEF PublicationInv, PlanOK
  <1>4. /\ Head(list) \in Tokens /\ Tail(list) \in Seq(Tokens)
        /\ \A i \in 1 .. Len(list) :
             \/ list[i] = Head(list)
             \/ \E j \in 1 .. Len(Tail(list)) : Tail(list)[j] = list[i]
    <2>1. Head(list) = list[1] /\ Len(Tail(list)) = Len(list) - 1
      BY <1>3
    <2>2. Head(list) \in Tokens /\ Tail(list) \in Seq(Tokens) /\ Len(list) \in Nat
      BY <1>3
    <2>3. ASSUME NEW i \in 1 .. Len(list), i # 1
          PROVE  i - 1 \in 1 .. Len(Tail(list)) /\ Tail(list)[i - 1] = list[i]
      BY <1>3, <2>1, <2>2, <2>3
    <2> QED
      BY <2>1, <2>2, <2>3
  <1>5. /\ allowance' \in [Makers -> [Tokens -> OtherAllowances \cup {0, MaxUint256}]]
        /\ allowance'[plan.maker][Head(list)] = MaxUint256
        /\ \A token : token # Head(list) =>
             allowance'[plan.maker][token] = allowance[plan.maker][token]
    <2>1. allowance \in [Makers -> [Tokens -> OtherAllowances \cup {0, MaxUint256}]]
      BY DEF PublicationInv, AllowanceOK
    <2> QED
      BY <1>1, <1>3, <1>4, <2>1
  <1>6. /\ plan'.draft = plan.draft /\ plan'.maker = plan.maker /\ plan'.approvals = Tail(list)
        /\ plan'.order = plan.order /\ plan'.base = plan.base /\ plan'.quote = plan.quote
        /\ plan'.touched = plan.touched
        /\ plan' = [draft |-> plan'.draft, maker |-> plan'.maker,
                    approvals |-> plan'.approvals, order |-> plan'.order,
                    base |-> plan'.base, quote |-> plan'.quote, touched |-> plan'.touched]
    <2>1. plan = [draft |-> plan.draft, maker |-> plan.maker, approvals |-> plan.approvals,
                  order |-> plan.order, base |-> plan.base, quote |-> plan.quote,
                  touched |-> plan.touched]
      BY <1>1 DEF PublicationInv, PlanOK
    <2> QED
      BY <1>1, <2>1
  <1> HIDE DEF list
  <1>7. ASSUME NEW side \in Sides
        PROVE  Approved(side)'
    <2> DEFINE token == SideToken(plan.draft, side)
    <2>1. SUFFICES ASSUME SideAllocation(plan.draft, side) > 0, token \notin plan.touched
                   PROVE  \/ Holds(Tail(list), token)
                          \/ allowance'[plan.maker][token] = MaxUint256
      BY <1>6 DEF Approved
    <2>2. \/ Holds(list, token)
          \/ allowance[plan.maker][token] = MaxUint256
      BY <1>3, <2>1 DEF Approved, list
    <2> HIDE DEF token
    <2> QED
      BY <1>4, <1>5, <2>2 DEF Holds
  <1>8. PlanOK'
    <2>1. PICK draft : draft = plan.draft
      OBVIOUS
    <2>2. Compilable(draft)' /\ ConfigOf(draft)' = ConfigOf(draft)
      BY <1>2, <1>3, <2>1, ConfigIsKept
    <2>3. /\ Encodable(ConfigOf(plan.draft)) /\ plan.touched \subseteq Tokens
          /\ plan.order = BuildPositionStrategy(ConfigOf(plan.draft), plan.maker)
          /\ plan.base = SideAllocation(plan.draft, "Sell")
          /\ plan.quote = SideAllocation(plan.draft, "Buy")
      BY <1>1 DEF PublicationInv, PlanOK
    <2> QED
      BY <1>3, <1>4, <1>6, <1>7, <2>1, <2>2, <2>3
      DEF PlanOK, Compilable, HasSalt, ConfigOf, SaltOf
  <1>9. PreviewOK' /\ AllowanceOK'
    BY <1>1, <1>2, <1>5, PreviewIsKept DEF PublicationInv, AllowanceOK
  <1>10. ReadingOK'
    BY <1>1 DEF PublicationInv, ReadingOK
  <1>11. ShippedOK' /\ IndexOK'
    BY <1>1 DEF PublicationInv, ShippedOK, IndexOK, subgraph
  <1> QED
    BY <1>2, <1>8, <1>9, <1>10, <1>11 DEF PublicationInv, SaltsKept

\* A strategy is shipped: the events before it stay as they are.
LEMMA ShippedGrows ==
    ASSUME ShippedOK, IndexOK, NEW event, shipped' = Append(shipped, event),
           RouterDecodes(event.order) => CurveWords(RouterPayload(event.order)),
           UNCHANGED <<subgraph, touches>>
    PROVE  ShippedOK' /\ IndexOK'
  <1>1. PICK S : shipped \in Seq(S)
    BY DEF ShippedOK
  <1>2. /\ shipped' \in Seq(S \cup {event}) /\ Len(shipped') = Len(shipped) + 1
        /\ Len(shipped) \in Nat
        /\ \A i \in 1 .. Len(shipped) : shipped'[i] = shipped[i]
        /\ shipped'[Len(shipped) + 1] = event
    BY <1>1
  <1>3. ShippedOK'
    <2>1. ASSUME NEW i \in 1 .. Len(shipped'), RouterDecodes(shipped'[i].order)
          PROVE  CurveWords(RouterPayload(shipped'[i].order))
      <3>1. CASE i \in 1 .. Len(shipped)
        BY <1>2, <2>1, <3>1 DEF ShippedOK
      <3>2. CASE i = Len(shipped) + 1
        BY <1>2, <2>1, <3>2
      <3> QED
        BY <1>2, <3>1, <3>2
    <2> QED
      BY <1>2, <2>1 DEF ShippedOK
  <1>4. IndexOK'
    <2>1. UNCHANGED <<seen, index, halted, touches>>
      BY DEF subgraph
    <2>2. seen \in 0 .. Len(shipped) /\ seen \in 0 .. Len(shipped')
      BY <1>2 DEF IndexOK
    <2>3. \A i \in 1 .. seen : shipped'[i] = shipped[i]
      BY <1>2, <2>2
    <2> QED
      BY <2>1, <2>2, <2>3 DEF IndexOK
  <1> QED
    BY <1>3, <1>4

LEMMA SendShipStep ==
    ASSUME PublicationInv, SendShip
    PROVE  PublicationInv'
  <1> DEFINE event == [sender |-> plan.maker, order |-> plan.order, draft |-> plan.draft,
                       base |-> plan.base, quote |-> plan.quote]
  <1>1. /\ plan # None /\ shipped' = Append(shipped, event) /\ plan' = None
        /\ UNCHANGED <<salts, drawn, preview, reading, allowance, subgraph, touches>>
    BY DEF SendShip
  <1>2. SaltsKept
    BY <1>1, UnchangedSalts
  <1>3. CurveWords(RouterPayload(event.order))
    <2>1. /\ event.order = BuildPositionStrategy(ConfigOf(plan.draft), plan.maker)
          /\ Encodable(ConfigOf(plan.draft))
      BY <1>1 DEF PublicationInv, PlanOK
    <2> QED
      BY <2>1, OwnStrategyIsRead, EncodedIsDecoded
  <1> HIDE DEF event
  <1>4. ShippedOK' /\ IndexOK'
    BY <1>1, <1>3, ShippedGrows DEF PublicationInv
  <1>5. PreviewOK' /\ ReadingOK' /\ PlanOK' /\ AllowanceOK'
    BY <1>1, <1>2, PreviewIsKept DEF PublicationInv, ReadingOK, PlanOK, AllowanceOK
  <1> QED
    BY <1>2, <1>4, <1>5 DEF PublicationInv, SaltsKept

\* What a step of others leaves alone.
LEMMA BrowserIsKept ==
    ASSUME PublicationInv, UNCHANGED <<browser, allowance>>
    PROVE  SaltsOK' /\ PreviewOK' /\ ReadingOK' /\ PlanOK' /\ AllowanceOK'
  <1>1. UNCHANGED <<salts, drawn, preview, reading, plan, allowance>>
    BY DEF browser
  <1>2. SaltsKept
    BY <1>1, UnchangedSalts
  <1>3. PreviewOK' /\ PlanOK'
    BY <1>1, <1>2, PreviewIsKept, PlanIsKept DEF PublicationInv
  <1>4. ReadingOK'
    <2>1. ReadingOK
      BY DEF PublicationInv
    <2> QED
      BY <1>1, <2>1 DEF ReadingOK, Compilable, HasSalt, SaltOf
  <1>5. AllowanceOK'
    BY <1>1 DEF PublicationInv, AllowanceOK
  <1> QED
    BY <1>2, <1>3, <1>4, <1>5 DEF SaltsKept

LEMMA ShipForeignStep ==
    ASSUME PublicationInv, NEW ship \in ForeignShips, ShipForeign(ship)
    PROVE  PublicationInv'
  <1> DEFINE event == [sender |-> ship.sender, order |-> ship.order, draft |-> None,
                       base |-> 1, quote |-> 1]
  <1>1. shipped' = Append(shipped, event) /\ UNCHANGED <<browser, allowance, subgraph, touches>>
    BY DEF ShipForeign
  <1>2. RouterDecodes(event.order) => CurveWords(RouterPayload(event.order))
    BY PublicationAssumption
  <1> HIDE DEF event
  <1>3. ShippedOK' /\ IndexOK'
    BY <1>1, <1>2, ShippedGrows DEF PublicationInv
  <1> QED
    BY <1>1, <1>3, BrowserIsKept DEF PublicationInv

LEMMA SetAllowanceStep ==
    ASSUME PublicationInv, NEW maker \in Makers, NEW token \in Tokens, NEW amount \in OtherAllowances,
           SetAllowance(maker, token, amount)
    PROVE  PublicationInv'
  <1>1. /\ touches < MaxTouches /\ touches' = touches + 1
        /\ allowance' = [allowance EXCEPT ![maker][token] = amount]
        /\ reading' = Touched(reading, maker, token) /\ plan' = Touched(plan, maker, token)
        /\ UNCHANGED <<salts, drawn, preview, shipped, subgraph>>
    BY DEF SetAllowance
  <1>2. SaltsKept
    BY <1>1, UnchangedSalts
  <1>3. allowance \in [Makers -> [Tokens -> OtherAllowances \cup {0, MaxUint256}]]
    BY DEF PublicationInv, AllowanceOK
  <1>4. /\ AllowanceOK'
        /\ \A m \in Makers : \A t : m # maker \/ t # token => allowance'[m][t] = allowance[m][t]
    BY <1>1, <1>3 DEF AllowanceOK
  <1>5. ReadingOK'
    <2>1. CASE reading = None
      BY <1>1, <2>1 DEF ReadingOK, Touched
    <2>2. CASE reading # None
      <3>1. /\ plan = None /\ ReadingOK
        BY <2>2 DEF PublicationInv, ReadingOK
      <3>2. plan' = None
        BY <1>1, <3>1 DEF Touched
      <3>3. PICK draft : draft = reading.draft
        OBVIOUS
      <3>4. /\ Compilable(draft) /\ Compilable(draft)' /\ SaltOf(draft)' = SaltOf(draft)
        BY <1>2, <2>2, <3>1, <3>3, ConfigIsKept DEF ReadingOK
      <3>5. /\ reading'.draft = draft /\ reading'.maker = reading.maker
            /\ reading'.salt = reading.salt /\ reading'.baseAllowance = reading.baseAllowance
            /\ reading'.touched = IF reading.maker = maker
                                  THEN reading.touched \cup {token} ELSE reading.touched
            /\ reading' = [draft |-> reading'.draft, maker |-> reading'.maker,
                           salt |-> reading'.salt, baseAllowance |-> reading'.baseAllowance,
                           touched |-> reading'.touched]
        <4>1. reading = [draft |-> reading.draft, maker |-> reading.maker,
                         salt |-> reading.salt, baseAllowance |-> reading.baseAllowance,
                         touched |-> reading.touched]
          BY <2>2, <3>1 DEF ReadingOK
        <4> QED
          BY <1>1, <2>2, <3>3, <4>1 DEF Touched
      <3>6. /\ reading.salt = SaltOf(draft) /\ reading.maker \in Makers
            /\ reading.touched \subseteq Tokens
            /\ draft.base \notin reading.touched =>
                 reading.baseAllowance = allowance[reading.maker][draft.base]
        BY <2>2, <3>1, <3>3 DEF ReadingOK
      <3>7. reading'.touched \subseteq Tokens
        BY <3>5, <3>6
      <3>8. draft.base \notin reading'.touched =>
              reading'.baseAllowance = allowance'[reading'.maker][draft.base]
        BY <1>4, <3>5, <3>6
      <3> QED
        BY <3>2, <3>4, <3>5, <3>6, <3>7, <3>8 DEF ReadingOK, Compilable, HasSalt, SaltOf
    <2> QED
      BY <2>1, <2>2
  <1>6. PlanOK'
    <2>1. CASE plan = None
      BY <1>1, <2>1 DEF PlanOK, Touched
    <2>2. CASE plan # None
      <3>1. PlanOK
        BY DEF PublicationInv
      <3>2. PICK draft : draft = plan.draft
        OBVIOUS
      <3>3. Compilable(draft) /\ Compilable(draft)' /\ ConfigOf(draft)' = ConfigOf(draft)
        BY <1>2, <2>2, <3>1, <3>2, ConfigIsKept DEF PlanOK
      <3>4. /\ plan'.draft = draft /\ plan'.maker = plan.maker
            /\ plan'.approvals = plan.approvals /\ plan'.order = plan.order
            /\ plan'.base = plan.base /\ plan'.quote = plan.quote
            /\ plan'.touched = IF plan.maker = maker
                               THEN plan.touched \cup {token} ELSE plan.touched
            /\ plan' = [draft |-> plan'.draft, maker |-> plan'.maker,
                        approvals |-> plan'.approvals, order |-> plan'.order,
                        base |-> plan'.base, quote |-> plan'.quote, touched |-> plan'.touched]
        <4>1. plan = [draft |-> plan.draft, maker |-> plan.maker, approvals |-> plan.approvals,
                      order |-> plan.order, base |-> plan.base, quote |-> plan.quote,
                      touched |-> plan.touched]
          BY <2>2, <3>1 DEF PlanOK
        <4> QED
          BY <1>1, <2>2, <3>2, <4>1 DEF Touched
      <3>5. /\ Encodable(ConfigOf(draft)) /\ plan.maker \in Makers
            /\ plan.touched \subseteq Tokens
            /\ plan.order = BuildPositionStrategy(ConfigOf(draft), plan.maker)
            /\ plan.base = SideAllocation(draft, "Sell")
            /\ plan.quote = SideAllocation(draft, "Buy")
            /\ plan.approvals \in Seq(Tokens)
            /\ \A side \in Sides : Approved(side)
        BY <2>2, <3>1, <3>2 DEF PlanOK
      <3>6. plan'.touched \subseteq Tokens
        BY <3>4, <3>5
      <3>7. ASSUME NEW side \in Sides
            PROVE  Approved(side)'
        <4>1. Approved(side)
          BY <3>5
        <4> QED
          BY <1>4, <3>2, <3>4, <3>5, <4>1 DEF Approved
      <3> QED
        BY <3>3, <3>4, <3>5, <3>6, <3>7 DEF PlanOK, Compilable, HasSalt, ConfigOf, SaltOf
    <2> QED
      BY <2>1, <2>2
  <1>7. PreviewOK'
    BY <1>1, <1>2, PreviewIsKept DEF PublicationInv
  <1>8. ShippedOK'
    BY <1>1 DEF PublicationInv, ShippedOK
  <1>9. IndexOK'
    <2>1. IndexOK
      BY DEF PublicationInv
    <2>2. touches' \in 0 .. MaxTouches
      BY <1>1, <2>1, PublicationBounds DEF IndexOK
    <2> QED
      BY <1>1, <2>1, <2>2 DEF IndexOK, subgraph
  <1> QED
    BY <1>2, <1>4, <1>5, <1>6, <1>7, <1>8, <1>9 DEF PublicationInv, SaltsKept

LEMMA HandleShippedStep ==
    ASSUME PublicationInv, HandleShipped
    PROVE  PublicationInv'
  <1> DEFINE event == shipped[seen + 1]
  <1>1. /\ ~halted /\ seen < Len(shipped)
        /\ IF IndexDecodes(event.order) /\ event.order.maker = event.sender
           THEN IF IndexDivides(event.order)
                THEN index' = index \cup {Row(event)} /\ seen' = seen + 1 /\ UNCHANGED halted
                ELSE halted' = TRUE /\ UNCHANGED <<index, seen>>
           ELSE seen' = seen + 1 /\ UNCHANGED <<index, halted>>
        /\ UNCHANGED <<browser, allowance, shipped, touches>>
    BY DEF HandleShipped
  <1>2. /\ seen \in 0 .. Len(shipped) /\ Len(shipped) \in Nat /\ touches \in 0 .. MaxTouches
        /\ IsFiniteSet(index) /\ Cardinality(index) <= seen /\ Cardinality(index) \in Nat
        /\ \A i \in 1 .. seen :
             IndexDecodes(shipped[i].order) /\ shipped[i].order.maker = shipped[i].sender
             => Row(shipped[i]) \in index
    <2>1. PICK S : shipped \in Seq(S)
      BY DEF PublicationInv, ShippedOK
    <2> QED
      BY <2>1, FS_CardinalityType DEF PublicationInv, IndexOK
  <1>3. ShippedOK'
    BY <1>1 DEF PublicationInv, ShippedOK
  <1>4. IndexOK'
    <2>1. CASE UNCHANGED <<index, seen>> /\ halted' = TRUE
      BY <1>1, <2>1 DEF PublicationInv, IndexOK
    <2>2. CASE /\ seen' = seen + 1 /\ halted' = halted /\ index' = index
               /\ ~(IndexDecodes(event.order) /\ event.order.maker = event.sender)
      <3>1. seen' \in 0 .. Len(shipped') /\ Cardinality(index') <= seen'
        BY <1>1, <1>2, <2>2
      <3>2. \A i \in 1 .. seen' : i \in 1 .. seen \/ i = seen + 1
        BY <1>2, <2>2
      <3>3. halted' \in BOOLEAN
        BY <2>2 DEF PublicationInv, IndexOK
      <3> QED
        BY <1>1, <1>2, <2>2, <3>1, <3>2, <3>3 DEF IndexOK
    <2>3. CASE /\ seen' = seen + 1 /\ halted' = halted /\ index' = index \cup {Row(event)}
      <3>1. /\ IsFiniteSet(index')
            /\ Cardinality(index') = Cardinality(index)
                 \/ Cardinality(index') = Cardinality(index) + 1
        BY <1>2, <2>3, FS_AddElement
      <3>2. seen' \in 0 .. Len(shipped') /\ Cardinality(index') <= seen'
        BY <1>1, <1>2, <2>3, <3>1
      <3>3. \A i \in 1 .. seen' : i \in 1 .. seen \/ i = seen + 1
        BY <1>2, <2>3
      <3>4. halted' \in BOOLEAN
        BY <2>3 DEF PublicationInv, IndexOK
      <3>5. \A i \in 1 .. seen' :
              IndexDecodes(shipped[i].order) /\ shipped[i].order.maker = shipped[i].sender
              => Row(shipped[i]) \in index'
        BY <1>2, <2>3, <3>3
      <3> QED
        BY <1>1, <1>2, <3>1, <3>2, <3>4, <3>5 DEF IndexOK
    <2> QED
      BY <1>1, <2>1, <2>2, <2>3
  <1> QED
    BY <1>1, <1>3, <1>4, BrowserIsKept DEF PublicationInv

LEMMA PublicationInvNext == PublicationInv /\ [PublicationNext]_publicationVars => PublicationInv'
  <1> SUFFICES ASSUME PublicationInv, [PublicationNext]_publicationVars PROVE PublicationInv'
    OBVIOUS
  <1>1. CASE UNCHANGED publicationVars
    <2>1. UNCHANGED <<browser, allowance, shipped, subgraph, touches>>
      BY <1>1 DEF publicationVars
    <2>2. AllowanceOK' /\ ShippedOK' /\ IndexOK'
      BY <2>1, RestIsKept
    <2> QED
      BY <2>1, <2>2, BrowserIsKept DEF PublicationInv
  <1>2. CASE PublicationNext
    BY <1>2, PreviewStep, AskForPlanStep, FinishPlanStep, SendApprovalStep, SendShipStep,
       ShipForeignStep, SetAllowanceStep, HandleShippedStep DEF PublicationNext
  <1> QED
    BY <1>1, <1>2

LEMMA PublicationInductive == PublicationSpec => []PublicationInv
  BY PublicationInvInit, PublicationInvNext, PTL DEF PublicationSpec
-----------------------------------------------------------------------------
(* What the invariant says of publications.                                 *)

LEMMA PublicationTypes == PublicationInv => PublicationTypeOK
  <1> SUFFICES ASSUME PublicationInv PROVE PublicationTypeOK
    OBVIOUS
  <1>1. preview # None => preview.draft \in Drafts /\ Tagged(preview.payload)
    <2> SUFFICES ASSUME preview # None
                 PROVE  preview.draft \in Drafts /\ Tagged(preview.payload)
      OBVIOUS
    <2>1. /\ preview.payload = EncodePositionPayload(ConfigOf(preview.draft))
          /\ preview.draft \in Drafts
      BY DEF PublicationInv, PreviewOK, Compilable
    <2>2. Tagged(EncodePositionPayload(ConfigOf(preview.draft)))
      BY PayloadFieldFacts DEF Tagged
    <2> QED
      BY <2>1, <2>2
  <1>2. \A work \in {reading, plan} \ {None} :
          work.draft \in Drafts /\ work.maker \in Makers /\ work.touched \subseteq Tokens
    BY DEF PublicationInv, ReadingOK, PlanOK, Compilable
  <1> QED
    BY <1>1, <1>2 DEF PublicationInv, SaltsOK, AllowanceOK, IndexOK, PublicationTypeOK

\* A policy that the router decodes can be compiled again, at ordinary prices.
LEMMA OrdinaryCompiles ==
    ASSUME NEW payload, Decodes(payload), CurveWords(payload), Ordinary(DecodePayload(payload)),
           NEW side \in Sides
    PROVE  CanCompileCurve(DecodePayload(payload)[side], side)
  <1> DEFINE curve == DecodePayload(payload)[side]
  <1>1. /\ curve.startPrice \in Amounts /\ curve.endPrice \in Amounts
        /\ curve.initialReserve \in Amounts
        /\ curve.alpha \in MinInt128 .. MaxInt128
    <2>1. PICK first \in {6, 12} : curve = CurveAt(payload, first)
      BY DEF DecodePayload, HeaderFields, CurveFields, Sides
    <2>2. /\ payload[first] \in Amounts /\ payload[first + 1] \in Amounts
          /\ payload[first + 2] \in Amounts /\ payload[first + 3] \in Amounts
      BY <2>1 DEF CurveWords, HeaderFields, CurveFields, PayloadFields
    <2>3. ReadSigned(payload[first + 2]) \in MinInt128 .. MaxInt128
      BY <2>2, SignedFields
    <2> QED
      BY <2>1, <2>2, <2>3 DEF CurveAt
  <1>2. ValidCurve(curve, side) /\ curve.alpha # MinInt128
    BY DEF Decodes, ValidStructure
  <1>3. /\ curve.startPrice <= OrdinaryPrice /\ curve.endPrice <= OrdinaryPrice
    BY DEF Ordinary, OrdinaryCurve
  <1> HIDE DEF curve
  <1>4. curve.startPrice \in Nat \ {0} /\ curve.endPrice \in Nat \ {0}
    BY <1>1, <1>2, FixedPointAssumption DEF ValidCurve, Amounts
  <1>5. AcceptedDraft(curve, side)
    <2>1. IsRate(curve.startPrice) /\ IsRate(curve.endPrice) /\ IsAmount(curve.initialReserve)
      BY <1>1, <1>4 DEF IsRate, IsAmount
    <2>2. MinInt128 \in Int /\ MaxInt128 \in Int
      BY FixedPointAssumption DEF MinInt128, MaxInt128, TwoPow128
    <2>3. curve.alpha \in MinInt128 + 1 .. MaxInt128
      BY <1>1, <1>2, <2>2
    <2>4. IF side = "Sell" THEN curve.startPrice <= curve.endPrice
                           ELSE curve.startPrice >= curve.endPrice
      BY <1>2, <1>4 DEF ValidCurve
    <2> QED
      BY <2>1, <2>3, <2>4 DEF AcceptedDraft
  <1>6. ASSUME NEW price \in Nat \ {0}, price <= OrdinaryPrice
        PROVE  NativePrice(price, side) > 0
    <2>1. CASE side = "Buy"
      BY <1>6, <2>1 DEF NativePrice
    <2>2. CASE side # "Buy"
      <3> DEFINE q == (WAD * WAD) \div price
      <3>1. WAD * WAD \in Nat /\ price <= WAD * WAD
        <4>1. OrdinaryPrice <= WAD * WAD
          BY PublicationAssumption
        <4>2. WAD * WAD \in Nat
          BY FixedPointAssumption, ProductNat
        <4> QED
          BY <1>6, <4>1, <4>2, PublicationBounds
      <3>2. q \in Nat /\ WAD * WAD < price * q + price
        BY <1>6, <3>1, DivFloor
      <3>3. NativePrice(price, side) = q
        BY <2>2 DEF NativePrice, ReciprocalWad, MulDiv
      <3> HIDE DEF q
      <3>4. q # 0
        BY <1>6, <3>1, <3>2
      <3> QED
        BY <3>2, <3>3, <3>4
    <2> QED
      BY <2>1, <2>2
  <1>7. HighPrice(curve, side) > 0 /\ LowPrice(curve, side) > 0
    BY <1>3, <1>4, <1>6 DEF HighPrice, LowPrice
  <1> QED
    BY <1>5, <1>7 DEF CanCompileCurve, curve

\* Router and subgraph take the same fields of a tradable order.
LEMMA TradableIsIndexed ==
    ASSUME NEW event, Tradable(event)
    PROVE  /\ IndexDecodes(event.order) /\ event.order.maker = event.sender
           /\ IndexedPayload(event.order) = RouterPayload(event.order)
  <1>1. /\ event.order.offset = PayloadFields /\ RouterDecodes(event.order)
        /\ event.order.maker = event.sender
    BY DEF Tradable
  <1>2. IndexedPayload(event.order) = RouterPayload(event.order)
    <2>1. PayloadFields - PayloadFields + 1 = 1
      BY FieldNumbers
    <2> QED
      BY <1>1, <2>1 DEF IndexedPayload, RouterPayload
  <1>3. Tagged(RouterPayload(event.order))
    BY <1>1 DEF RouterDecodes, Decodes
  <1>4. Len(event.order.data) >= PayloadFields
    BY <1>1, FieldNumbers DEF RouterDecodes
  <1> QED
    BY <1>1, <1>2, <1>3, <1>4 DEF IndexDecodes

\* The columns of a side are those that the compiler of the contracts derives.
LEMMA ColumnsMatch ==
    ASSUME NEW policy, NEW side \in Sides
    PROVE  LET row == IndexedSide(policy, side)
               curve == Native(policy, side)
           IN  /\ row.policy = policy
               /\ row.branch = curve.branch /\ row.alphaNative = curve.alpha
               /\ row.pHigh = NativePrice(policy.startPrice, side)
               /\ row.pLow = NativePrice(policy.endPrice, side)
  <1>1. /\ IndexedAlpha(policy, side) = NativeAlpha(policy, side)
        /\ IndexedBranch(policy, side) = Branch(policy, side)
    BY DEF IndexedAlpha, NativeAlpha, IndexedBranch, Branch
  <1>2. \A price : IndexedPrice(price, side) = NativePrice(price, side)
    BY DEF IndexedPrice, NativePrice, ReciprocalWad, MulDiv
  <1>3. Native(policy, side).branch = Branch(policy, side)
        /\ Native(policy, side).alpha = NativeAlpha(policy, side)
    BY DEF Native
  <1> QED
    BY <1>1, <1>2, <1>3 DEF IndexedSide

\* The index shows what is traded, whoever built the bytes of a strategy:
\* every tradable position that handleShipped (subgraph/src/aqua.ts) has come
\* across has a row, with the policy the router decodes and the columns the
\* compiler of the contracts derives from it.
THEOREM IndexShowsTradedPositions == PublicationSpec => []IndexShowsWhatIsTraded
  <1>1. PublicationInv => IndexShowsWhatIsTraded
    <2> SUFFICES ASSUME PublicationInv, NEW i \in 1 .. seen, Tradable(shipped[i])
                 PROVE  \E row \in index :
                   LET policy == RouterPolicy(shipped[i].order)
                   IN  /\ row.maker = shipped[i].sender /\ row.order = shipped[i].order
                       /\ row.base = policy.base /\ row.quote = policy.quote
                       /\ row.salt = policy.salt
                       /\ \A side \in Sides :
                            LET curve == Native(policy[side], side)
                            IN  /\ row.side[side].policy = policy[side]
                                /\ row.side[side].branch = curve.branch
                                /\ row.side[side].alphaNative = curve.alpha
                                /\ row.side[side].pHigh = NativePrice(policy[side].startPrice, side)
                                /\ row.side[side].pLow = NativePrice(policy[side].endPrice, side)
                                /\ Ordinary(policy) => CanCompileCurve(row.side[side].policy, side)
      BY PublicationTypes DEF IndexShowsWhatIsTraded
    <2> DEFINE event == shipped[i]
               policy == RouterPolicy(event.order)
               row == Row(event)
    <2>1. /\ IndexDecodes(event.order) /\ event.order.maker = event.sender
          /\ IndexedPayload(event.order) = RouterPayload(event.order)
      BY TradableIsIndexed
    <2>2. row \in index
      BY <2>1 DEF PublicationInv, IndexOK
    <2>3. /\ row.maker = event.sender /\ row.order = event.order
          /\ row.base = policy.base /\ row.quote = policy.quote /\ row.salt = policy.salt
          /\ \A side \in Sides : row.side[side] = IndexedSide(policy[side], side)
      BY <2>1 DEF Row, RouterPolicy
    <2>4. ASSUME Ordinary(policy), NEW side \in Sides
          PROVE  CanCompileCurve(policy[side], side)
      <3>1. RouterDecodes(event.order) /\ i \in 1 .. Len(shipped)
        <4>1. PICK S : shipped \in Seq(S)
          BY DEF PublicationInv, ShippedOK
        <4> QED
          BY <4>1 DEF Tradable, PublicationInv, IndexOK
      <3>2. Decodes(RouterPayload(event.order)) /\ CurveWords(RouterPayload(event.order))
        BY <3>1 DEF RouterDecodes, PublicationInv, ShippedOK
      <3> QED
        BY <2>4, <3>2, OrdinaryCompiles DEF RouterPolicy
    <2> HIDE DEF event, policy, row
    <2>5. ASSUME NEW side \in Sides
          PROVE  LET curve == Native(policy[side], side)
                 IN  /\ row.side[side].policy = policy[side]
                     /\ row.side[side].branch = curve.branch
                     /\ row.side[side].alphaNative = curve.alpha
                     /\ row.side[side].pHigh = NativePrice(policy[side].startPrice, side)
                     /\ row.side[side].pLow = NativePrice(policy[side].endPrice, side)
                     /\ Ordinary(policy) => CanCompileCurve(row.side[side].policy, side)
      BY <2>3, <2>4, ColumnsMatch
    <2> QED
      BY <2>2, <2>3, <2>5 DEF event, policy
  <1> QED
    BY <1>1, PublicationInductive, PTL

\* When the last call of a plan (buildPublishPositionPlan) is mined, every
\* side with inventory has its reserve allocated and an allowance that covers
\* it, unless the maker changed that allowance elsewhere in the meantime.
THEOREM PlansLeaveNothingToDo == PublicationSpec => FundedSidesAreBacked
  <1> DEFINE Good == Len(shipped') > Len(shipped) =>
                LET event == shipped'[Len(shipped')]
                IN  event.draft # None =>
                      \A side \in Sides :
                          SideToken(event.draft, side) \notin plan.touched
                          => Backed(event, side)
  <1>1. ASSUME PublicationInv, SendShip
        PROVE  Good
    <2> DEFINE event == shipped'[Len(shipped')]
    <2>1. PICK S : shipped \in Seq(S)
      BY <1>1 DEF PublicationInv, ShippedOK
    <2>2. PICK draft : draft = plan.draft
      OBVIOUS
    <2>3. event = [sender |-> plan.maker, order |-> plan.order, draft |-> plan.draft,
                   base |-> plan.base, quote |-> plan.quote]
      BY <1>1, <2>1 DEF SendShip
    <2>4. /\ event.sender = plan.maker /\ event.draft = draft
          /\ event.base = plan.base /\ event.quote = plan.quote
      BY <2>2, <2>3
    <2> HIDE DEF event
    <2>5. /\ plan # None /\ plan.approvals = <<>> /\ allowance' = allowance
      BY <1>1 DEF SendShip
    <2>6. /\ Compilable(draft) /\ plan.maker \in Makers
          /\ plan.base = SideAllocation(draft, "Sell")
          /\ plan.quote = SideAllocation(draft, "Buy")
          /\ \A side \in Sides : Approved(side)
          /\ allowance \in [Makers -> [Tokens -> OtherAllowances \cup {0, MaxUint256}]]
      BY <1>1, <2>2, <2>5 DEF PublicationInv, PlanOK, AllowanceOK
    <2>7. ASSUME NEW side \in Sides, SideToken(draft, side) \notin plan.touched
          PROVE  Backed(event, side)
      <3> DEFINE token == SideToken(draft, side)
                 required == SideAllocation(draft, side)
      <3>1. token \in Tokens /\ {draft.base, draft.quote} \subseteq Tokens
        BY <2>6, PublicationAssumption DEF Compilable, SideToken, TokenOut
      <3>2. /\ required \in Nat /\ required <= MaxUint256
            /\ WadToRaw(draft[side].initialReserve, Factor[token], "Up") = required
        BY <2>6, <3>1, WholeReserve DEF Compilable
      <3>3. (IF side = "Sell" THEN event.base ELSE event.quote) = required
        BY <2>4, <2>6 DEF Sides
      <3>4. allowance[plan.maker][token] \in Nat
        <4>1. OtherAllowances \cup {0, MaxUint256} \subseteq Nat
          BY PublicationBounds
        <4> QED
          BY <2>6, <3>1, <4>1
      <3>5. required > 0 => allowance[plan.maker][token] = MaxUint256
        <4>1. ~Holds(plan.approvals, token)
          BY <2>5 DEF Holds
        <4> QED
          BY <2>2, <2>6, <2>7, <4>1 DEF Approved
      <3> HIDE DEF token, required
      <3>6. allowance'[plan.maker][token] >= required
        BY <2>5, <3>2, <3>4, <3>5
      <3> QED
        BY <2>4, <3>2, <3>3, <3>6 DEF Backed, token
    <2> QED
      BY <2>4, <2>7 DEF event
  <1>2. ASSUME PublicationInv, NEW ship \in ForeignShips, ShipForeign(ship)
        PROVE  Good
    <2>1. PICK S : shipped \in Seq(S)
      BY <1>2 DEF PublicationInv, ShippedOK
    <2>2. shipped'[Len(shipped')].draft = None
      BY <1>2, <2>1 DEF ShipForeign
    <2> QED
      BY <2>2
  <1>3. ASSUME PublicationInv, UNCHANGED shipped
        PROVE  Good
    <2>1. PICK S : shipped \in Seq(S)
      BY <1>3 DEF PublicationInv, ShippedOK
    <2> QED
      BY <1>3, <2>1
  <1>4. PublicationInv /\ [PublicationNext]_publicationVars => [Good]_publicationVars
    <2> HIDE DEF Good
    <2> SUFFICES ASSUME PublicationInv, PublicationNext PROVE Good
      OBVIOUS
    <2> QED
      BY <1>1, <1>2, <1>3
      DEF PublicationNext, Preview, AskForPlan, FinishPlan, SendApproval, SetAllowance,
          HandleShipped
  <1> QED
    BY <1>4, PublicationInductive, PTL DEF PublicationSpec, FundedSidesAreBacked

\* Of what the preview promises: a plan ships the payload that was previewed
\* for its draft (previewPosition and preparePublish share #salt), and the
\* router decodes what is shipped to the policy that was drafted.
THEOREM PreviewIsShipped == PublicationSpec => []PlanShipsPreview
  <1>1. PublicationInv => PlanShipsPreview
    <2> SUFFICES ASSUME PublicationInv, plan # None
                 PROVE  /\ preview # None /\ preview.draft = plan.draft =>
                             RouterPayload(plan.order) = preview.payload
                        /\ SamePolicy(RouterPolicy(plan.order), plan.draft)
      BY DEF PlanShipsPreview
    <2> DEFINE draft == plan.draft
               config == ConfigOf(draft)
    <2>1. /\ Compilable(draft) /\ Encodable(config)
          /\ plan.order = BuildPositionStrategy(config, plan.maker)
      BY DEF PublicationInv, PlanOK
    <2>2. RouterPayload(plan.order) = EncodePositionPayload(config)
      BY <2>1, OwnStrategyIsRead
    <2>3. preview # None /\ preview.draft = draft =>
            preview.payload = EncodePositionPayload(config)
      BY DEF PublicationInv, PreviewOK
    <2>4. ASSUME NEW side \in Sides
          PROVE  /\ config[side].startPrice = draft[side].startPrice
                 /\ config[side].endPrice = draft[side].endPrice
                 /\ config[side].initialReserve = draft[side].initialReserve
                 /\ Branch(draft[side], side) # "Flat" => config[side].alpha = draft[side].alpha
      <3>1. config[side] = CompileCurve(draft[side], side)
        BY <2>1 DEF Compilable, ConfigOf, CompilePosition, Compiled, Sides
      <3> QED
        BY <3>1 DEF CompileCurve
    <2>5. /\ config.base = draft.base /\ config.quote = draft.quote
      BY DEF ConfigOf, CompilePosition
    <2> HIDE DEF config, draft
    <2>6. /\ RouterPolicy(plan.order).base = config.base
          /\ RouterPolicy(plan.order).quote = config.quote
          /\ \A side \in Sides : SameCurve(RouterPolicy(plan.order)[side], config[side])
      BY <2>1, <2>2, EncodedIsDecoded DEF RouterPolicy
    <2>7. SamePolicy(RouterPolicy(plan.order), draft)
      BY <2>4, <2>5, <2>6 DEF SamePolicy, SameCurve
    <2> QED
      BY <2>2, <2>3, <2>7 DEF draft
  <1> QED
    BY <1>1, PublicationInductive, PTL
=============================================================================
