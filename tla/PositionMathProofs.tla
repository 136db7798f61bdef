------------------------- MODULE PositionMathProofs -------------------------
(***************************************************************************)
(* What rounded division guarantees, what an accepted fill guarantees      *)
(* about its amounts, and what the runtime transition and the recycling    *)
(* credit do to the reserves, on every curve branch and for every value of *)
(* the constants.                                                          *)
(***************************************************************************)
EXTENDS PositionMath, TLAPS

\* Floor division in terms of multiplication.
LEMMA DivFloor ==
    ASSUME NEW n \in Nat, NEW d \in Nat \ {0}
    PROVE  /\ n \div d \in Nat
           /\ d * (n \div d) <= n
           /\ n < d * (n \div d) + d
  OBVIOUS

\* The product of two naturals, stated once for the nonlinear steps below.
LEMMA ProductNat ==
    ASSUME NEW a \in Nat, NEW b \in Nat
    PROVE  a * b \in Nat
  OBVIOUS

\* A floored MulDiv is the largest natural below the quotient.
LEMMA MulDivDown ==
    ASSUME NEW x \in Nat, NEW y \in Nat, NEW d \in Nat \ {0}
    PROVE  /\ MulDiv(x, y, d, "Down") \in Nat
           /\ d * MulDiv(x, y, d, "Down") <= x * y
           /\ x * y < d * MulDiv(x, y, d, "Down") + d
  BY ProductNat, DivFloor DEF MulDiv

\* A raised MulDiv is the smallest natural above the quotient.
LEMMA MulDivUp ==
    ASSUME NEW x \in Nat, NEW y \in Nat, NEW d \in Nat \ {0}
    PROVE  /\ MulDiv(x, y, d, "Up") \in Nat
           /\ x * y <= d * MulDiv(x, y, d, "Up")
           /\ d * MulDiv(x, y, d, "Up") < x * y + d
  <1>1. x * y + d - 1 \in Nat
    BY ProductNat
  <1>2. MulDiv(x, y, d, "Up") = (x * y + d - 1) \div d
    BY DEF MulDiv
  <1> QED
    BY <1>1, <1>2, DivFloor

\* Comparing products with a positive common factor compares the factors.
LEMMA CancelFactor ==
    ASSUME NEW a \in Int, NEW b \in Int, NEW d \in Nat \ {0}, d * a <= d * b
    PROVE  a <= b
  OBVIOUS

\* Multiplication by a natural is monotone.
LEMMA ScaleOrder ==
    ASSUME NEW a \in Int, NEW b \in Int, NEW d \in Nat, a <= b
    PROVE  d * a <= d * b
  OBVIOUS
-----------------------------------------------------------------------------
LEMMA SideFacts ==
    ASSUME NEW side \in Sides
    PROVE  /\ Opposite(side) \in Sides
           /\ side = "Sell" => Opposite(side) = "Buy"
           /\ side = "Buy" => Opposite(side) = "Sell"
           /\ side = "Sell" \/ side = "Buy"
  BY DEF Sides, Opposite

\* A position whose tokens and reserves the kernel can represent.
Representable(position) ==
    /\ position.base \in Tokens /\ position.quote \in Tokens
    /\ position.Sell.initialReserve \in Amounts
    /\ position.Buy.initialReserve \in Amounts

LEMMA FactorFacts ==
    ASSUME NEW position, Representable(position), NEW side \in Sides
    PROVE  /\ FactorIn(position, side) \in Nat \ {0}
           /\ FactorOut(position, side) \in Nat \ {0}
           /\ SideIn(position, side) \in {position.base, position.quote}
           /\ SideOut(position, side) \in {position.base, position.quote}
  BY TokenAssumption
  DEF Representable, FactorIn, FactorOut, SideIn, SideOut, TokenIn, TokenOut, Sides

\* The runtime that quotes start from is well formed.
LEMMA ResolveType ==
    ASSUME NEW position, Representable(position), NEW stored \in Runtimes
    PROVE  /\ Resolve(position, stored) \in Runtimes
           /\ Resolve(position, stored).version
                = IF stored.initialized THEN stored.version ELSE 0
  <1>1. CASE stored.initialized
    BY <1>1 DEF Resolve
  <1>2. CASE ~stored.initialized
    <2>1. Resolve(position, stored)
            = [Sell |-> FreshState(position.Sell.initialReserve),
               Buy |-> FreshState(position.Buy.initialReserve),
               version |-> 0, initialized |-> FALSE]
      BY <1>2 DEF Resolve, Initial, Unset
    <2> QED
      BY <1>2, <2>1, PositionAssumption
      DEF Representable, FreshState, Runtimes, CurveStates
  <1> QED
    BY <1>1, <1>2

\* The amounts of an accepted fill: both directions are positive, the input
\* fits the wire domain, and the reserve that remains is what was there less
\* exactly the transferred output.
FillType(fill, s) ==
    /\ fill.amountIn \in Nat \ {0} /\ fill.amountOut \in Nat \ {0}
    /\ fill.inWad \in Amounts
    /\ fill.outWad \in Nat
    /\ fill.yAfter = s.y - fill.outWad
    /\ fill.yAfter \in Amounts

LEMMA WireDomain == MaxAmount \in Nat /\ WAD \in Nat \ {0} /\ Amounts \subseteq Nat
  BY FixedPointAssumption DEF Amounts

\* Raw amounts derived from WAD amounts are naturals.
LEMMA WadToRawType ==
    ASSUME NEW amount \in Nat, NEW factor \in Nat \ {0}, NEW rounding \in Rounding
    PROVE  WadToRaw(amount, factor, rounding) \in Nat
  BY MulDivDown, MulDivUp DEF WadToRaw, Rounding

LEMMA ExactInputFill ==
    ASSUME NEW position, Representable(position), NEW runtime \in Runtimes,
           NEW side \in Sides, NEW raw \in Nat,
           Quotable(position, runtime, side, "ExactInput", raw)
    PROVE  FillType(PositionFill(position, runtime, side, "ExactInput", raw), runtime[side])
  <1> DEFINE curve == Native(position[side], side)
             s == runtime[side]
             fill == PositionFill(position, runtime, side, "ExactInput", raw)
             q == QuoteExactInput(curve, s, RawToWad(raw, FactorIn(position, side)))
             out == RawToWad(RawOutput(position, runtime, side, raw), FactorOut(position, side))
  <1>1. s \in CurveStates
    BY SideFacts DEF Runtimes
  <1>2. /\ CanFillExactInput(position, runtime, side, raw)
        /\ Transferable(side, fill)
    BY DEF Quotable
  <1>3. /\ fill.amountIn = raw
        /\ fill.amountOut = RawOutput(position, runtime, side, raw)
        /\ fill.inWad = RawToWad(raw, FactorIn(position, side))
        /\ fill.outWad = out
        /\ fill.yAfter = s.y - out
    BY DEF PositionFill
  <1>4. /\ fill.inWad \in Amounts
        /\ q.out \in Amounts /\ q.yAfter \in Amounts
        /\ q.out = s.y - q.yAfter
    BY <1>2, <1>3
    DEF CanFillExactInput, CanQuoteExactInput, Buildable, IsAmount, QuoteExactInput
  <1>5. RawOutput(position, runtime, side, raw) \in Nat
    BY <1>4, WadToRawType, WireDomain, FactorFacts DEF RawOutput, Rounding
  <1>6. out \in Nat
    BY <1>5, FactorFacts, ProductNat DEF RawToWad
  <1>7. CASE out = q.out
    <2>1. s.y - out = q.yAfter
      BY <1>1, <1>4, <1>7, WireDomain DEF CurveStates
    <2> QED
      BY <1>2, <1>3, <1>4, <1>5, <1>6, <2>1 DEF FillType, Transferable
  <1>8. CASE out # q.out
    <2>1. CanQuoteExactOutput(curve, s, side, out)
      BY <1>2, <1>8 DEF CanFillExactInput
    <2>2. s.y - out \in Amounts
      BY <2>1 DEF CanQuoteExactOutput, Buildable, QuoteExactOutput, IsAmount
    <2> QED
      BY <1>2, <1>3, <1>4, <1>5, <1>6, <2>2 DEF FillType, Transferable
  <1> QED
    BY <1>7, <1>8

LEMMA ExactOutputFill ==
    ASSUME NEW position, Representable(position), NEW runtime \in Runtimes,
           NEW side \in Sides, NEW raw \in Nat,
           Quotable(position, runtime, side, "ExactOutput", raw)
    PROVE  FillType(PositionFill(position, runtime, side, "ExactOutput", raw), runtime[side])
  <1> DEFINE curve == Native(position[side], side)
             s == runtime[side]
             fill == PositionFill(position, runtime, side, "ExactOutput", raw)
             out == RawToWad(raw, FactorOut(position, side))
             q == QuoteExactOutput(curve, s, out)
  <1>1. /\ CanFillExactOutput(position, runtime, side, raw)
        /\ Transferable(side, fill)
    BY DEF Quotable
  <1>2. /\ fill.amountIn = RawInput(position, runtime, side, raw)
        /\ fill.amountOut = raw
        /\ fill.inWad = RawToWad(RawInput(position, runtime, side, raw),
                                 FactorIn(position, side))
        /\ fill.outWad = out
        /\ fill.yAfter = s.y - out
    BY DEF PositionFill
  <1>3. /\ fill.inWad \in Amounts
        /\ q.in \in Amounts
        /\ s.y - out \in Amounts
    BY <1>1, <1>2
    DEF CanFillExactOutput, CanQuoteExactOutput, Buildable, IsAmount, QuoteExactOutput
  <1>4. RawInput(position, runtime, side, raw) \in Nat
    BY <1>3, WadToRawType, WireDomain, FactorFacts DEF RawInput, Rounding
  <1>5. out \in Nat
    BY FactorFacts, ProductNat DEF RawToWad
  <1> QED
    BY <1>1, <1>2, <1>3, <1>4, <1>5 DEF FillType, Transferable

LEMMA AcceptedFill ==
    ASSUME NEW position, Representable(position), NEW runtime \in Runtimes,
           NEW side \in Sides, NEW kind \in Kinds, NEW raw \in Nat,
           Quotable(position, runtime, side, kind, raw)
    PROVE  FillType(PositionFill(position, runtime, side, kind, raw), runtime[side])
  BY ExactInputFill, ExactOutputFill DEF Kinds

\* A credit that fits the wire domain raises the reserve by exactly the
\* received amount.
LEMMA CreditType ==
    ASSUME NEW s \in CurveStates, NEW amount \in Amounts, CanCredit(s, amount)
    PROVE  /\ Credit(s, amount) \in CurveStates
           /\ Credit(s, amount).y = s.y + amount
  <1>1. s.y \in Nat /\ amount \in Nat
    BY WireDomain DEF CurveStates
  <1>2. CASE amount = 0
    BY <1>1, <1>2 DEF Credit
  <1>3. CASE amount # 0 /\ s.y = 0
    BY <1>1, <1>3 DEF Credit, FreshState, CurveStates
  <1>4. CASE amount # 0 /\ s.y # 0
    <2>1. Credit(s, amount)
            = [y |-> s.y + amount, yInt |-> MulDiv(s.yInt, s.y + amount, s.y, "Up")]
      BY <1>4 DEF Credit
    <2> QED
      BY <2>1 DEF CanCredit, IsAmount, CurveStates
  <1> QED
    BY <1>2, <1>3, <1>4

\* The credited reserve stays within its rebuilt scale: yInt is enlarged by
\* at least the factor by which y grows.
LEMMA CreditWithinScale ==
    ASSUME NEW s \in CurveStates, NEW amount \in Amounts, s.y <= s.yInt
    PROVE  Credit(s, amount).y <= Credit(s, amount).yInt
  <1>1. s.y \in Nat /\ s.yInt \in Nat /\ amount \in Nat
    BY WireDomain DEF CurveStates
  <1>2. CASE amount = 0
    BY <1>2 DEF Credit
  <1>3. CASE amount # 0 /\ s.y = 0
    BY <1>1, <1>3 DEF Credit, FreshState
  <1>4. CASE amount # 0 /\ s.y # 0
    <2> DEFINE total == s.y + amount
               scale == MulDiv(s.yInt, total, s.y, "Up")
    <2>1. Credit(s, amount).y = total /\ Credit(s, amount).yInt = scale
      BY <1>4 DEF Credit
    <2>2. total \in Nat /\ s.y \in Nat \ {0}
      BY <1>1, <1>4
    <2> HIDE DEF total
    <2>3. scale \in Nat /\ s.yInt * total <= s.y * scale
      BY <1>1, <2>2, MulDivUp
    <2> HIDE DEF scale
    <2>4. total * s.y <= total * s.yInt
      BY <1>1, <2>2, ScaleOrder
    <2>5. s.y * total <= s.y * scale
      <3>1. total * s.y = s.y * total /\ total * s.yInt = s.yInt * total
        BY <1>1, <2>2
      <3>2. s.y * total \in Int /\ s.yInt * total \in Int /\ s.y * scale \in Int
        BY <1>1, <2>2, <2>3
      <3> QED
        BY <2>3, <2>4, <3>1, <3>2
    <2>6. total <= scale
      BY <2>2, <2>3, <2>5, CancelFactor
    <2> QED
      BY <2>1, <2>6
  <1> QED
    BY <1>2, <1>3, <1>4

\* Recycling rounds the scale up, so that the live share of a side that was
\* not empty never grows.
LEMMA CreditKeepsProgress ==
    ASSUME NEW s \in CurveStates, NEW amount \in Amounts, s.y > 0
    PROVE  Credit(s, amount).y * s.yInt <= s.y * Credit(s, amount).yInt
  <1>0. s.y \in Nat /\ s.yInt \in Nat /\ amount \in Nat
    BY WireDomain DEF CurveStates
  <1>1. s.y \in Nat \ {0} /\ s.yInt \in Nat /\ amount \in Nat
    BY <1>0
  <1>2. CASE amount = 0
    <2>1. Credit(s, amount) = s
      BY <1>2 DEF Credit
    <2>2. s.y * s.yInt \in Nat
      BY <1>1, ProductNat
    <2> QED
      BY <2>1, <2>2
  <1>3. CASE amount # 0
    <2> DEFINE total == s.y + amount
               scale == MulDiv(s.yInt, total, s.y, "Up")
    <2>1. Credit(s, amount).y = total /\ Credit(s, amount).yInt = scale
      BY <1>1, <1>3 DEF Credit
    <2>2. total \in Nat
      BY <1>1
    <2> HIDE DEF total
    <2>3. s.yInt * total <= s.y * scale
      BY <1>1, <2>2, MulDivUp
    <2>4. total * s.yInt = s.yInt * total
      BY <1>1, <2>2
    <2> QED
      BY <2>1, <2>3, <2>4
  <1> QED
    BY <1>2, <1>3

\* The runtime after a fill on either side.
LEMMA TransitionSell ==
    ASSUME NEW runtime \in Runtimes, NEW fill
    PROVE  Transition(runtime, "Sell", fill)
             = [Sell |-> [y |-> fill.yAfter, yInt |-> runtime.Sell.yInt],
                Buy |-> Credit(runtime.Buy, fill.inWad),
                version |-> runtime.version + 1, initialized |-> TRUE]
  <1>1. Opposite("Sell") = "Buy"
    BY DEF Opposite
  <1>2. Transition(runtime, "Sell", fill)
          = [runtime EXCEPT !["Sell"].y = fill.yAfter,
                            !["Buy"] = Credit(@, fill.inWad),
                            !.version = @ + 1,
                            !.initialized = TRUE]
    BY <1>1 DEF Transition
  <1> QED
    BY <1>2 DEF Runtimes, CurveStates

LEMMA TransitionBuy ==
    ASSUME NEW runtime \in Runtimes, NEW fill
    PROVE  Transition(runtime, "Buy", fill)
             = [Sell |-> Credit(runtime.Sell, fill.inWad),
                Buy |-> [y |-> fill.yAfter, yInt |-> runtime.Buy.yInt],
                version |-> runtime.version + 1, initialized |-> TRUE]
  <1>1. Opposite("Buy") = "Sell"
    BY DEF Opposite
  <1>2. Transition(runtime, "Buy", fill)
          = [runtime EXCEPT !["Buy"].y = fill.yAfter,
                            !["Sell"] = Credit(@, fill.inWad),
                            !.version = @ + 1,
                            !.initialized = TRUE]
    BY <1>1 DEF Transition
  <1> QED
    BY <1>2 DEF Runtimes, CurveStates

\* Every fill materialises the runtime and advances its version by one.
LEMMA TransitionMarks ==
    ASSUME NEW runtime \in Runtimes, NEW side \in Sides, NEW fill
    PROVE  /\ Transition(runtime, side, fill).initialized
           /\ Transition(runtime, side, fill).version = runtime.version + 1
  <1>1. /\ Transition(runtime, "Sell", fill).initialized
        /\ Transition(runtime, "Sell", fill).version = runtime.version + 1
    <2>1. Transition(runtime, "Sell", fill)
            = [Sell |-> [y |-> fill.yAfter, yInt |-> runtime.Sell.yInt],
               Buy |-> Credit(runtime.Buy, fill.inWad),
               version |-> runtime.version + 1, initialized |-> TRUE]
      BY TransitionSell
    <2> QED
      BY <2>1
  <1>2. /\ Transition(runtime, "Buy", fill).initialized
        /\ Transition(runtime, "Buy", fill).version = runtime.version + 1
    <2>1. Transition(runtime, "Buy", fill)
            = [Sell |-> Credit(runtime.Sell, fill.inWad),
               Buy |-> [y |-> fill.yAfter, yInt |-> runtime.Buy.yInt],
               version |-> runtime.version + 1, initialized |-> TRUE]
      BY TransitionBuy
    <2> QED
      BY <2>1
  <1> QED
    BY <1>1, <1>2, SideFacts

LEMMA RuntimeRecord ==
    ASSUME NEW sell \in CurveStates, NEW buy \in CurveStates,
           NEW version \in 0 .. MaxVersion
    PROVE  [Sell |-> sell, Buy |-> buy, version |-> version, initialized |-> TRUE]
             \in Runtimes
  BY DEF Runtimes

\* An accepted fill leads from a well-formed runtime to a well-formed one.
LEMMA TransitionType ==
    ASSUME NEW runtime \in Runtimes, NEW side \in Sides, NEW fill,
           FillType(fill, runtime[side]), CanTransition(runtime, side, fill)
    PROVE  Transition(runtime, side, fill) \in Runtimes
  <1>1. /\ runtime.Sell \in CurveStates /\ runtime.Buy \in CurveStates
        /\ runtime.version + 1 \in 0 .. MaxVersion
    BY PositionAssumption DEF Runtimes, CanTransition
  <1>2. CASE side = "Sell"
    <2>1. Credit(runtime.Buy, fill.inWad) \in CurveStates
      BY <1>1, <1>2, SideFacts, CreditType DEF FillType, CanTransition
    <2>2. [y |-> fill.yAfter, yInt |-> runtime.Sell.yInt] \in CurveStates
      BY <1>1 DEF FillType, CurveStates
    <2>3. Transition(runtime, "Sell", fill) \in Runtimes
      <3>1. Transition(runtime, "Sell", fill) = [Sell |-> [y |-> fill.yAfter, yInt |-> runtime.Sell.yInt],
                 Buy |-> Credit(runtime.Buy, fill.inWad),
                 version |-> runtime.version + 1, initialized |-> TRUE]
        BY TransitionSell
      <3> QED
        BY <1>1, <2>1, <2>2, <3>1, RuntimeRecord
    <2> QED
      BY <1>2, <2>3
  <1>3. CASE side = "Buy"
    <2>1. Credit(runtime.Sell, fill.inWad) \in CurveStates
      BY <1>1, <1>3, SideFacts, CreditType DEF FillType, CanTransition
    <2>2. [y |-> fill.yAfter, yInt |-> runtime.Buy.yInt] \in CurveStates
      BY <1>1 DEF FillType, CurveStates
    <2>3. Transition(runtime, "Buy", fill) \in Runtimes
      <3>1. Transition(runtime, "Buy", fill) = [Sell |-> Credit(runtime.Sell, fill.inWad),
                 Buy |-> [y |-> fill.yAfter, yInt |-> runtime.Buy.yInt],
                 version |-> runtime.version + 1, initialized |-> TRUE]
        BY TransitionBuy
      <3> QED
        BY <1>1, <2>1, <2>2, <3>1, RuntimeRecord
    <2> QED
      BY <1>3, <2>3
  <1> QED
    BY <1>2, <1>3, SideFacts
=============================================================================
