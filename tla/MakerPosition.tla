--------------------------- MODULE MakerPosition ---------------------------
(***************************************************************************)
(* One published position consumed in both directions: the router's stored *)
(* runtime (LiquidCurveInstruction) next to Aqua's raw token allocation of *)
(* the strategy.  Settlement composes several of these with wallets and    *)
(* routes; this module asks what alternating fills do to one maker.        *)
(***************************************************************************)
EXTENDS PositionMath

CONSTANTS
    Position,      \* the published policy
    RawRequests,   \* raw amounts takers ask for
    Gifts,         \* raw amounts anyone may push to the strategy through Aqua
    MaxHeld        \* bound: pushes stop at this raw allocation

ASSUME MakerPositionAssumption ==
    /\ Position.base \in Tokens /\ Position.quote \in Tokens
    /\ ValidStructure(Position)
    /\ \A side \in Sides : /\ Position[side].initialReserve \in Amounts
                           /\ Position[side].startPrice \in Amounts
    /\ RawRequests \subseteq Nat
    /\ Gifts \subseteq Nat
    /\ MaxHeld \in Nat

VARIABLES
    stored,      \* _positionRuntimes[positionKey]
    allocation   \* Aqua's balance of the strategy, token -> raw amount

vars == <<stored, allocation>>

Runtime == Resolve(Position, stored)

TypeOK ==
    /\ stored \in Runtimes
    /\ allocation \in [{Position.base, Position.quote} -> Nat]

\* The SDK ships the raw amounts that back the two initial reserves.
Init ==
    /\ stored = Unset
    /\ allocation = [t \in {Position.base, Position.quote} |->
                       LET side == IF t = Position.base THEN "Sell" ELSE "Buy"
                       IN  WadToRaw(Position[side].initialReserve, Factor[t], "Up")]

\* One swap: quote on the current version, store the next runtime, then let
\* Aqua pull the output from the strategy and push the input to it.
Fill(side, kind, raw) ==
    LET in   == SideIn(Position, side)
        out  == SideOut(Position, side)
        fill == PositionFill(Position, Runtime, side, kind, raw)
    IN  /\ CanFill(Position, Runtime, side, kind, raw, Runtime.version, allocation[out])
        /\ stored' = Transition(Runtime, side, fill)
        /\ allocation' = [allocation EXCEPT ![in] = @ + fill.amountIn,
                                            ![out] = @ - fill.amountOut]

\* Unsolicited Aqua credit.
Push(token, amount) ==
    /\ allocation[token] + amount <= MaxHeld
    /\ allocation' = [allocation EXCEPT ![token] = @ + amount]
    /\ UNCHANGED stored

Next ==
    \/ \E side \in Sides, kind \in Kinds, raw \in RawRequests : Fill(side, kind, raw)
    \/ \E token \in {Position.base, Position.quote}, amount \in Gifts : Push(token, amount)

Spec == Init /\ [][Next]_vars
-----------------------------------------------------------------------------
(* Properties *)

Reserve(runtime, token) ==
    IF token = Position.base THEN runtime.Sell.y ELSE runtime.Buy.y

\* No sequence of fills leaves the curve domain: a live reserve never
\* exceeds its scale, although the scale is rebuilt with rounding each time
\* the side is credited, and a side without scale has no reserve.
ReserveWithinScale ==
    \A side \in Sides : Runtime[side].y <= Runtime[side].yInt

MovesTogether ==
    \A token \in {Position.base, Position.quote} :
        LET moved == Reserve(Runtime', token) - Reserve(Runtime, token)
        IN  IF stored' = stored THEN moved = 0
            ELSE moved = (allocation'[token] - allocation[token]) * Factor[token]

\* The Aqua allocation and the logical reserve of a token move together: a
\* fill changes both by the same amount in both directions, in spite of the
\* two roundings between them, and nothing but a fill changes a reserve
\* (ARCHITECTURE section 3: unsolicited credit never changes a curve).
AllocationTracksReserve == [][MovesTogether]_vars

Worth(holdings, price) ==
    holdings[Position.base] * Factor[Position.base] * price
      + holdings[Position.quote] * Factor[Position.quote] * WAD

NoLoss ==
    \A price \in Position.Buy.startPrice .. Position.Sell.startPrice :
        Worth(allocation, price) <= Worth(allocation', price)

\* Neither direction of trade can take value from a maker whose flat quotes
\* do not cross: at every price between the buy and the sell price, the
\* strategy's holdings are worth at least as much after a step as before.
MakerNeverLoses == [][NoLoss]_vars

NoRegress ==
    \A side \in Sides :
        LET before == Runtime[side]
            after  == Runtime'[side]
        IN  before.y > 0 => after.y * before.yInt <= before.y * after.yInt

\* Recycling never gives the next taker of the credited side a better rate:
\* the live share of the scale y / yInt does not grow unless the side was
\* empty and is rearmed at its start.
RecyclingKeepsProgress == [][NoRegress]_vars

\* Recycling accepts every fill the kernel can quote as long as the enlarged
\* reserve itself fits the wire domain (PRODUCT_SPEC section 8: partial
\* fills in either direction with automatic recycling).
RecyclingNeverBlocks ==
    \A side \in Sides, kind \in Kinds, raw \in RawRequests :
        LET fill == PositionFill(Position, Runtime, side, kind, raw)
        IN  /\ Quotable(Position, Runtime, side, kind, raw)
            /\ IsAmount(Runtime[Opposite(side)].y + fill.inWad)
            => CanCredit(Runtime[Opposite(side)], fill.inWad)
=============================================================================
