-------------------------- MODULE DirectionalCurve --------------------------
(***************************************************************************)
(* One directional curve consumed by a sequence of takers.  It isolates    *)
(* the numerical question of the kernel from settlement: whatever mix of   *)
(* exact-input and exact-output quotes takers choose, and however they     *)
(* split a trade, does rounding always favour the maker?                   *)
(*                                                                         *)
(* The state is the CurveState of the active side between two quotes; paid *)
(* records what takers have paid in since the side was fresh.              *)
(***************************************************************************)
EXTENDS CurveMath

CONSTANTS
    Policy,    \* the maker's CurveConfig, commitments included
    Side,      \* the maker side it is published on
    Requests   \* the WAD amounts takers ask for

ASSUME CurveAssumption ==
    /\ Side \in Sides
    /\ Requests \subseteq Nat
    /\ Policy.initialReserve \in Amounts \ {0}
    /\ ValidCurve(Policy, Side)
    /\ Compiles(Policy, Side)

VARIABLES
    state,   \* [y, yInt], the live reserve and its domain scale
    paid     \* WAD input received since the side was fresh

curveVars == <<state, paid>>

Curve == Native(Policy, Side)

\* Everything taken out since the side was fresh.
Taken == state.yInt - state.y

CurveTypeOK ==
    /\ state \in [y : Amounts, yInt : Amounts]
    /\ paid \in Nat

CurveInit ==
    /\ state = [y |-> Policy.initialReserve, yInt |-> Policy.initialReserve]
    /\ paid = 0

\* Mutant of Apply: the reserve loses the input instead of the output.
ApplySwapped(q) ==
    /\ state' = [state EXCEPT !.y = @ - q.in]
    /\ paid' = paid + q.out

Apply(q) ==
    /\ state' = [state EXCEPT !.y = q.yAfter]
    /\ paid' = paid + q.in

TakeExactInput(in) ==
    /\ CanQuoteExactInput(Curve, state, Side, in)
    /\ Apply(QuoteExactInput(Curve, state, in))

TakeExactOutput(out) ==
    /\ CanQuoteExactOutput(Curve, state, Side, out)
    /\ Apply(QuoteExactOutput(Curve, state, out))

CurveNext == \E amount \in Requests : TakeExactInput(amount) \/ TakeExactOutput(amount)

CurveSpec == CurveInit /\ [][CurveNext]_curveVars
-----------------------------------------------------------------------------
(* Properties *)

\* However a trade is split over quotes, takers never do better in total
\* than the fresh marginal rate of the curve (MATH_SPEC section 8: required
\* input rounds up, delivered output rounds down).
NeverBeatsFreshRate ==
    Taken * WAD <= paid * NativePrice(Policy.startPrice, Side)

\* No sequence of quotes gets ahead of the curve: the derived coordinate of
\* the live reserve, from which the next quote starts, is covered by what
\* takers really paid, although each quote rounds its own coordinates.
CoordinateCovered ==
    XAtY(Curve, state, state.y, "Down") <= paid

\* Whatever the sequence of takes, the reserve stays in its domain and the
\* takers have paid for what they got.
TakersPayTheCurve == CurveTypeOK /\ NeverBeatsFreshRate /\ CoordinateCovered

\* Paying the input quoted for an exact output as an exact input buys at least
\* that output (CurveMath.quoteExactOutput against quoteExactInput).
PaymentBuysOutput ==
    \A out \in Requests :
        CanQuoteExactOutput(Curve, state, Side, out) =>
            QuoteExactInput(Curve, state, QuoteExactOutput(Curve, state, out).in).out >= out

\* What is left of a flat curve can be bought, up to the whole of it in one
\* request: such a payment is accepted too, and no rest is stranded.  A side
\* that gives more than one unit for one refuses a payment that overshoots
\* the last unit, so this is said of sides whose native price is at most one.
InversionConsistent ==
    /\ PaymentBuysOutput
    /\ \A out \in Requests :
        CanQuoteExactOutput(Curve, state, Side, out) =>
            CanQuoteExactInput(Curve, state, Side, QuoteExactOutput(Curve, state, out).in)
    /\ state.y > 0 => CanQuoteExactOutput(Curve, state, Side, state.y)

\* Asking for more never costs less, and paying more never buys less.
QuotesMonotone ==
    \A small, large \in Requests :
        small < large =>
            /\ CanQuoteExactOutput(Curve, state, Side, small)
               /\ CanQuoteExactOutput(Curve, state, Side, large)
                 => QuoteExactOutput(Curve, state, small).in
                      <= QuoteExactOutput(Curve, state, large).in
            /\ CanQuoteExactInput(Curve, state, Side, small)
               /\ CanQuoteExactInput(Curve, state, Side, large)
                 => QuoteExactInput(Curve, state, small).out
                      <= QuoteExactInput(Curve, state, large).out
=============================================================================
