--------------------------- MODULE PositionPayload ---------------------------
(***************************************************************************)
(* The immutable bytes of a position and its four readers: the canonical   *)
(* codec of the contracts (contracts/src/libraries/PositionCodec.sol), the *)
(* encoder of the browser (packages/curve-math/src/encoding.ts), the       *)
(* decoder of the subgraph (subgraph/src/decoder.ts) and the router, which *)
(* finds the policy in front of its program                                *)
(* (contracts/src/core/LiquidCurveInstruction.sol).                        *)
(*                                                                         *)
(* A payload is a sequence of fields, one element for each field of fixed  *)
(* width.  A 128-bit field holds 0 .. MaxAmount; a signed one is stored in *)
(* two's complement.  An order is [maker, offset, data], where offset is   *)
(* the program offset among its traits and data ends with the program.     *)
(***************************************************************************)
EXTENDS CurveCompiler, Sequences

CONSTANTS
    Magic,      \* "LOB1"
    Opcode      \* liquidCurveOpcode of the router

\* Half of the words of a field are negative numbers in two's complement.
ASSUME PayloadAssumption == MaxAmount % 2 = 1

EncodingVersion == 1
HeaderFields == 5        \* magic, version, base, quote, salt
CurveFields == 6
PayloadFields == HeaderFields + 2 * CurveFields

\* int128 within a field of 0 .. MaxAmount.
TwoPow128 == MaxAmount + 1
MinInt128 == -(TwoPow128 \div 2)
MaxInt128 == TwoPow128 \div 2 - 1

ToUnsigned(v) == v % TwoPow128

ReadSigned(word) == IF word >= TwoPow128 \div 2 THEN word - TwoPow128 ELSE word
-----------------------------------------------------------------------------
(* Writing.                                                                 *)

EncodeCurve(curve) ==
    <<curve.startPrice, curve.endPrice, ToUnsigned(curve.alpha),
      curve.initialReserve, curve.mu, curve.kappa>>

\* The range checks of uint128 and int128 in the browser.
Encodable(config) ==
    \A side \in Sides :
        LET curve == config[side]
        IN  /\ \A v \in {curve.startPrice, curve.endPrice, curve.initialReserve,
                         curve.mu, curve.kappa} : IsAmount(v)
            /\ curve.alpha \in MinInt128 .. MaxInt128

EncodePositionPayload(config) ==
    <<Magic, EncodingVersion, config.base, config.quote, config.salt>>
        \o EncodeCurve(config.Sell) \o EncodeCurve(config.Buy)

Program == <<Opcode, 0>>

BuildPositionStrategy(config, maker) ==
    [maker |-> maker, offset |-> PayloadFields,
     data |-> EncodePositionPayload(config) \o Program]
-----------------------------------------------------------------------------
(* Reading.                                                                 *)

CurveAt(payload, first) ==
    [startPrice |-> payload[first], endPrice |-> payload[first + 1],
     alpha |-> ReadSigned(payload[first + 2]), initialReserve |-> payload[first + 3],
     mu |-> payload[first + 4], kappa |-> payload[first + 5]]

DecodePayload(payload) ==
    [base |-> payload[3], quote |-> payload[4], salt |-> payload[5],
     Sell |-> CurveAt(payload, HeaderFields + 1),
     Buy |-> CurveAt(payload, HeaderFields + CurveFields + 1)]

\* Each field of a curve holds a word, whoever wrote it.
CurveWords(payload) == \A k \in HeaderFields + 1 .. PayloadFields : payload[k] \in Amounts

Tagged(payload) == payload[1] = Magic /\ payload[2] = EncodingVersion

\* decode of the codec does not revert.
Decodes(payload) ==
    /\ Tagged(payload)
    /\ ValidStructure(DecodePayload(payload))
    /\ \A side \in Sides : DecodePayload(payload)[side].alpha # MinInt128

\* What the router trades: the fields in front of the program.  In front of
\* an order that is too short for a policy it finds the encoding of the call.
RouterPayload(order) == SubSeq(order.data, order.offset - PayloadFields + 1, order.offset)

RouterDecodes(order) ==
    /\ order.offset \in PayloadFields .. Len(order.data)
    /\ SubSeq(order.data, order.offset + 1, Len(order.data)) = Program
    /\ Decodes(RouterPayload(order))

RouterPolicy(order) == DecodePayload(RouterPayload(order))

\* What the subgraph shows: the first fields, whatever the offset is.
IndexedPayload(order) == SubSeq(order.data, 1, PayloadFields)
IndexDecodes(order) == Len(order.data) >= PayloadFields /\ Tagged(IndexedPayload(order))

\* Mutant of IndexedPrice: both sides in quote per base.
IndexedPriceOfQuote(price, side) == price

\* pHigh and pLow of the decoder.
IndexedPrice(price, side) == IF side = "Buy" THEN price ELSE (WAD * WAD) \div price

IndexedAlpha(curve, side) == IF side = "Sell" THEN -curve.alpha ELSE curve.alpha

IndexedBranch(curve, side) ==
    IF curve.startPrice = curve.endPrice THEN "Flat"
    ELSE LET alpha == IndexedAlpha(curve, side)
         IN  CASE alpha = 0 -> "NativeAlphaZero"
               [] alpha = WAD -> "NativeAlphaOne"
               [] OTHER -> "General"

\* Division by a zero price aborts the handler instead.
IndexDivides(order) ==
    \A side \in Sides :
        LET curve == DecodePayload(IndexedPayload(order))[side]
        IN  side = "Sell" => curve.startPrice # 0 /\ curve.endPrice # 0

\* The columns of a curve side, besides those that follow the runtime.
IndexedSide(curve, side) ==
    [policy |-> curve,
     branch |-> IndexedBranch(curve, side),
     alphaNative |-> IndexedAlpha(curve, side),
     betaNative |-> IndexedAlpha(curve, side) - WAD,
     pHigh |-> IndexedPrice(curve.startPrice, side),
     pLow |-> IndexedPrice(curve.endPrice, side)]
=============================================================================
