----------------------------- MODULE Publication -----------------------------
(***************************************************************************)
(* From the draft a maker edits to the strategy the router trades: the     *)
(* preview and the publication plan of the browser                         *)
(* (packages/frontend-live/src/client.ts,                                  *)
(* packages/position-sdk/src/builders.ts), the commitments it computes in  *)
(* doubles (packages/curve-math/src/compiler.ts), the calls the wallet     *)
(* sends, and the subgraph that indexes what was shipped                   *)
(* (subgraph/src/aqua.ts).                                                 *)
(*                                                                         *)
(* One browser session, which remembers salts and prepares one plan at a   *)
(* time; how calls are signed and confirmed is the subject of Frontend.    *)
(* Allowances also change elsewhere, and other programs ship strategies of *)
(* their own making.                                                       *)
(***************************************************************************)
EXTENDS PositionPayload, TokenUnits, Doubles, FiniteSets

CONSTANTS
    Makers,
    Drafts,                \* [base, quote, salt, Sell, Buy], parsed to WAD
    Curves,                \* single sides tried out, in WAD
    NoSalt,                \* the salt of a draft that carries none
    FreshSalts,            \* bound: the salts crypto.getRandomValues draws, in order
    ForeignShips,          \* [sender, order] of other programs
    MaxUint256,            \* the allowance that is never used up
    OtherAllowances,       \* allowances set by hand
    RealLog(_),            \* natural logarithm of a rational above 1
    RealPow(_, _),         \* power of a positive rational to a rational exponent
    OrdinaryPrice,         \* WAD prices up to here are ordinary, ...
    OrdinarySpread,        \* ... ends of a curve that are so far apart, ...
    OrdinaryExponent,      \* ... and exponents that are so far from 0 and 1
    MaxTouches,            \* bound: allowances changed by hand
    MaxShips,              \* bound: strategies shipped
    None

ASSUME PublicationAssumption ==
    /\ {MaxTouches, MaxShips, Len(FreshSalts), OrdinaryPrice, OrdinaryExponent, MaxUint256}
         \subseteq Nat
    /\ OtherAllowances \subseteq Nat
    /\ MaxUint256 >= MaxAmount
    /\ OrdinaryPrice <= WAD * WAD
    /\ \A i \in 1 .. Len(FreshSalts) : FreshSalts[i] # NoSalt
    /\ \A d \in Drafts : {d.base, d.quote} \subseteq Tokens
    /\ \A f \in ForeignShips :
         RouterDecodes(f.order) => CurveWords(RouterPayload(f.order))

VARIABLES
    salts,      \* #draftSalts: drafts without a salt that were given one
    drawn,      \* number of fresh salts drawn so far
    preview,    \* the publishable draft on screen with its payload, or None
    reading,    \* a publication between its two allowance reads, or None
    plan,       \* the publication whose calls are being sent, or None
    allowance,  \* ERC-20 allowances to Aqua, per maker and token
    shipped,    \* Shipped events of Aqua
    seen,       \* how many of them the subgraph has handled
    index,      \* the positions it shows
    halted,     \* a handler aborted
    touches     \* allowances set by hand so far

browser == <<salts, drawn, preview, reading, plan>>
subgraph == <<seen, index, halted>>
publicationVars == <<browser, allowance, shipped, subgraph, touches>>
-----------------------------------------------------------------------------
(* compileCurve and compilePosition in doubles.                             *)

ToReal(v) == DividedBy(FromInt(v), FromInt(WAD))
ToWad(x) == LET scaled == Times(x, FromInt(WAD)) IN RoundHalfUp(scaled.n, scaled.d)

\* Math.log and Math.pow, taken to be correctly rounded.
Log(x) == LET r == RealLog(x) IN Nearest(r.n, r.d)
Power(x, exponent) == LET r == RealPow(x, exponent) IN Nearest(r.n, r.d)

\* The domain of validateDraft.
AcceptedDraft(draft, side) ==
    /\ IsRate(draft.startPrice) /\ IsRate(draft.endPrice)
    /\ IsAmount(draft.initialReserve)
    /\ draft.alpha \in MinInt128 + 1 .. MaxInt128
    /\ IF side = "Sell" THEN draft.startPrice <= draft.endPrice
                        ELSE draft.startPrice >= draft.endPrice

HighPrice(draft, side) == NativePrice(draft.startPrice, side)
LowPrice(draft, side) == NativePrice(draft.endPrice, side)

\* An exponent as a double; its sign is that of n.
RealAlpha(alpha) ==
    LET real == ToReal(Magnitude(alpha))
    IN  IF alpha < 0 THEN [real EXCEPT !.n = -@] ELSE real

\* A power of zero is zero, and so is a negative power of infinity.
Mu(alpha, low, high) ==
    CASE low.n = 0    -> FromInt(1)
      [] alpha.n = 0  -> Log(DividedBy(high, low))
      [] alpha.n > 0  -> OneMinus(Power(DividedBy(low, high), alpha))
      [] OTHER        -> OneMinus(Power(DividedBy(high, low), alpha))

\* abs((alpha - 1) / alpha), rounded after each operation.
RealGamma(alpha) ==
    DividedBy(Nearest(Magnitude(alpha.n - alpha.d), alpha.d),
              [alpha EXCEPT !.n = Magnitude(@)])

\* Mutant of Kappa: a negative exponent takes the high price.
KappaOfHigh(alpha, mu, low, high) ==
    CASE alpha = FromInt(1) -> Times(mu, high)
      [] alpha.n = 0        -> Times(mu, low)
      [] OTHER              -> Times(Times(mu, RealGamma(alpha)), high)

\* An exponent next to 1 is 1 here, and not in the contract.
Kappa(alpha, mu, low, high) ==
    CASE alpha = FromInt(1) -> Times(mu, high)
      [] alpha.n = 0        -> Times(mu, low)
      [] OTHER              -> Times(Times(mu, RealGamma(alpha)),
                                     IF alpha.n > 0 THEN high ELSE low)

\* toWad refuses the infinities and NaN that a price of zero leads to.
CanCompileCurve(draft, side) ==
    /\ AcceptedDraft(draft, side)
    /\ Branch(draft, side) # "Flat" =>
         /\ HighPrice(draft, side) > 0
         /\ NativeAlpha(draft, side) = 0 => LowPrice(draft, side) > 0

CompileCurve(draft, side) ==
    IF Branch(draft, side) = "Flat"
    THEN [startPrice |-> draft.startPrice, endPrice |-> draft.endPrice, alpha |-> 0,
          initialReserve |-> draft.initialReserve, mu |-> 0, kappa |-> HighPrice(draft, side)]
    ELSE LET alpha == RealAlpha(NativeAlpha(draft, side))
             low   == ToReal(LowPrice(draft, side))
             high  == ToReal(HighPrice(draft, side))
             mu    == Mu(alpha, low, high)
         IN  [startPrice |-> draft.startPrice, endPrice |-> draft.endPrice,
              alpha |-> draft.alpha, initialReserve |-> draft.initialReserve,
              mu |-> ToWad(mu), kappa |-> ToWad(Kappa(alpha, mu, low, high))]

\* compileDraft: every reserve is also a whole number of raw units.
CanCompile(draft) ==
    /\ draft.base # draft.quote
    /\ draft.Sell.initialReserve > 0 \/ draft.Buy.initialReserve > 0
    /\ \A side \in Sides : CanCompileCurve(draft[side], side)
    /\ draft.Sell.initialReserve % Factor[draft.base] = 0
    /\ draft.Buy.initialReserve % Factor[draft.quote] = 0

\* A curve is compiled from its draft alone; TLC computes the table once.
Compiled ==
    [draft \in {d \in Drafts : CanCompile(d)} |->
        [side \in Sides |-> CompileCurve(draft[side], side)]]

CompilePosition(draft, salt) ==
    [base |-> draft.base, quote |-> draft.quote, salt |-> salt,
     Sell |-> Compiled[draft].Sell, Buy |-> Compiled[draft].Buy]

\* What the maker puts behind a side, in raw units of its output token.
SideToken(draft, side) == TokenOut(side, draft.base, draft.quote)
SideAllocation(draft, side) ==
    WadToRaw(draft[side].initialReserve, Factor[SideToken(draft, side)], "Down")
-----------------------------------------------------------------------------
(* The browser.                                                             *)

\* A draft without a salt is given the next fresh one.
DrawSalt(draft) ==
    /\ drawn < Len(FreshSalts)
    /\ drawn' = drawn + 1
    /\ salts' = [salts EXCEPT ![draft] = FreshSalts[drawn + 1]]

\* Mutant of RecallSalt: every call draws a salt of its own.
RecallSaltAnew(draft) ==
    IF draft.salt # NoSalt THEN UNCHANGED <<salts, drawn>> ELSE DrawSalt(draft)

\* #salt: a draft without one keeps the salt drawn for its content.
RecallSalt(draft) ==
    IF draft.salt # NoSalt \/ salts[draft] # NoSalt
    THEN UNCHANGED <<salts, drawn>>
    ELSE DrawSalt(draft)

\* The salt of a draft, once recalled.
SaltAfter(draft) == IF draft.salt # NoSalt THEN draft.salt ELSE salts'[draft]

\* The issues that the browser's validateDraft calls errors.
ValidCurveDraft(draft, side) ==
    LET curve == draft[side]
    IN  /\ curve.startPrice > 0 /\ curve.endPrice > 0
        /\ curve.alpha \in MinInt128 + 1 .. MaxInt128
        /\ curve.initialReserve % Factor[SideToken(draft, side)] = 0
        /\ IF side = "Sell" THEN curve.startPrice <= curve.endPrice
                            ELSE curve.startPrice >= curve.endPrice

ValidDraft(draft) ==
    /\ draft.base # draft.quote
    /\ \A side \in Sides : ValidCurveDraft(draft, side)
    /\ draft.Sell.initialReserve > 0 \/ draft.Buy.initialReserve > 0

\* previewPosition of a draft that is valid and has an encoding.
Preview(draft) ==
    /\ reading = None
    /\ ValidDraft(draft) /\ CanCompile(draft)
    /\ RecallSalt(draft)
    /\ LET config == CompilePosition(draft, SaltAfter(draft))
       IN  /\ Encodable(config)
           /\ preview' = [draft |-> draft, payload |-> EncodePositionPayload(config)]
    /\ UNCHANGED <<reading, plan, allowance, shipped, subgraph, touches>>

\* preparePublish: compiles, then reads the two allowances.  A plan that was
\* not sent to its end is given up.
AskForPlan(draft, maker) ==
    /\ reading = None
    /\ CanCompile(draft)
    /\ RecallSalt(draft)
    /\ reading' = [draft |-> draft, maker |-> maker, salt |-> SaltAfter(draft),
                   baseAllowance |-> allowance[maker][draft.base], touched |-> {}]
    /\ plan' = None
    /\ UNCHANGED <<preview, allowance, shipped, subgraph, touches>>

\* Mutant of NeedsApproval: any allowance will do.
NeedsApprovalOnlyFirst(allocated, allowed) == allocated > 0 /\ allowed = 0

NeedsApproval(allocated, allowed) == allocated > 0 /\ allowed # MaxUint256

\* buildPublishPositionPlan, with the second allowance.
FinishPlan ==
    /\ reading # None
    /\ LET draft  == reading.draft
           config == CompilePosition(draft, reading.salt)
           base   == SideAllocation(draft, "Sell")
           quote  == SideAllocation(draft, "Buy")
           approvals ==
             (IF NeedsApproval(base, reading.baseAllowance) THEN <<draft.base>> ELSE <<>>)
               \o (IF NeedsApproval(quote, allowance[reading.maker][draft.quote])
                   THEN <<draft.quote>> ELSE <<>>)
       IN  /\ base > 0 \/ quote > 0
           /\ plan' = IF Encodable(config)
                      THEN [draft |-> draft, maker |-> reading.maker, approvals |-> approvals,
                            order |-> BuildPositionStrategy(config, reading.maker),
                            base |-> base, quote |-> quote, touched |-> reading.touched]
                      ELSE plan
    /\ reading' = None
    /\ UNCHANGED <<salts, drawn, preview, allowance, shipped, subgraph, touches>>
-----------------------------------------------------------------------------
(* The chain.                                                               *)

ShippedBefore(sender, order) ==
    \E i \in 1 .. Len(shipped) : shipped[i].sender = sender /\ shipped[i].order = order

\* The next approval of the plan is mined.
SendApproval ==
    /\ plan # None /\ plan.approvals # <<>>
    /\ allowance' = [allowance EXCEPT ![plan.maker][Head(plan.approvals)] = MaxUint256]
    /\ plan' = [plan EXCEPT !.approvals = Tail(@)]
    /\ UNCHANGED <<salts, drawn, preview, reading, shipped, subgraph, touches>>

\* Its last call is mined: ship, which Aqua accepts once.
SendShip ==
    /\ plan # None /\ plan.approvals = <<>>
    /\ Len(shipped) < MaxShips
    /\ ~ShippedBefore(plan.maker, plan.order)
    /\ shipped' = Append(shipped, [sender |-> plan.maker, order |-> plan.order,
                                   draft |-> plan.draft, base |-> plan.base,
                                   quote |-> plan.quote])
    /\ plan' = None
    /\ UNCHANGED <<salts, drawn, preview, reading, allowance, subgraph, touches>>

\* Another program ships a strategy.
ShipForeign(ship) ==
    /\ Len(shipped) < MaxShips
    /\ ~ShippedBefore(ship.sender, ship.order)
    /\ shipped' = Append(shipped, [sender |-> ship.sender, order |-> ship.order,
                                   draft |-> None, base |-> 1, quote |-> 1])
    /\ UNCHANGED <<browser, allowance, subgraph, touches>>

\* A history: the allowances changed since a publication was asked for.
Touched(work, maker, token) ==
    IF work # None /\ work.maker = maker
    THEN [work EXCEPT !.touched = @ \cup {token}] ELSE work

\* A maker changes an allowance elsewhere.
SetAllowance(maker, token, amount) ==
    /\ touches < MaxTouches
    /\ allowance[maker][token] # amount
    /\ touches' = touches + 1
    /\ allowance' = [allowance EXCEPT ![maker][token] = amount]
    /\ reading' = Touched(reading, maker, token)
    /\ plan' = Touched(plan, maker, token)
    /\ UNCHANGED <<salts, drawn, preview, shipped, subgraph>>
-----------------------------------------------------------------------------
(* The subgraph: handleShipped.                                             *)

Row(event) ==
    LET policy == DecodePayload(IndexedPayload(event.order))
    IN  [maker |-> event.sender, order |-> event.order,
         base |-> policy.base, quote |-> policy.quote, salt |-> policy.salt,
         side |-> [s \in Sides |-> IndexedSide(policy[s], s)]]

HandleShipped ==
    /\ ~halted
    /\ seen < Len(shipped)
    /\ LET event == shipped[seen + 1]
       IN  IF IndexDecodes(event.order) /\ event.order.maker = event.sender
           THEN IF IndexDivides(event.order)
                THEN index' = index \cup {Row(event)} /\ seen' = seen + 1 /\ UNCHANGED halted
                ELSE halted' = TRUE /\ UNCHANGED <<index, seen>>
           ELSE seen' = seen + 1 /\ UNCHANGED <<index, halted>>
    /\ UNCHANGED <<browser, allowance, shipped, touches>>
-----------------------------------------------------------------------------
PublicationInit ==
    /\ salts = [d \in Drafts |-> NoSalt] /\ drawn = 0
    /\ preview = None /\ reading = None /\ plan = None
    /\ allowance = [m \in Makers |-> [t \in Tokens |-> 0]]
    /\ shipped = <<>>
    /\ seen = 0 /\ index = {} /\ halted = FALSE
    /\ touches = 0

PublicationNext ==
    \/ \E d \in Drafts : Preview(d)
    \/ \E d \in Drafts, m \in Makers : AskForPlan(d, m)
    \/ FinishPlan
    \/ SendApproval
    \/ SendShip
    \/ \E f \in ForeignShips : ShipForeign(f)
    \/ \E m \in Makers, t \in Tokens, a \in OtherAllowances : SetAllowance(m, t, a)
    \/ HandleShipped

PublicationSpec == PublicationInit /\ [][PublicationNext]_publicationVars
-----------------------------------------------------------------------------
(* Properties *)

PublicationTypeOK ==
    /\ drawn \in 0 .. Len(FreshSalts)
    /\ preview # None => preview.draft \in Drafts /\ Tagged(preview.payload)
    /\ \A work \in {reading, plan} \ {None} :
         work.draft \in Drafts /\ work.maker \in Makers /\ work.touched \subseteq Tokens
    /\ allowance \in [Makers -> [Tokens -> OtherAllowances \cup {0, MaxUint256}]]
    /\ seen \in 0 .. Len(shipped) /\ Cardinality(index) <= seen
    /\ halted \in BOOLEAN /\ touches \in 0 .. MaxTouches

OrdinaryCurve(curve, side) ==
    /\ \A price \in {curve.startPrice, curve.endPrice} :
         price <= OrdinaryPrice /\ price * OrdinaryPrice >= WAD * WAD
    /\ curve.startPrice # curve.endPrice =>
         /\ Magnitude(curve.startPrice - curve.endPrice) >= OrdinarySpread
         /\ \A special \in {0, WAD} :
              LET distance == Magnitude(NativeAlpha(curve, side) - special)
              IN  distance = 0 \/ distance >= OrdinaryExponent

Ordinary(policy) == \A side \in Sides : OrdinaryCurve(policy[side], side)

\* The policy of a draft: everything but the commitments.
SamePolicy(policy, draft) ==
    /\ policy.base = draft.base /\ policy.quote = draft.quote
    /\ \A side \in Sides :
         /\ policy[side].startPrice = draft[side].startPrice
         /\ policy[side].endPrice = draft[side].endPrice
         /\ policy[side].initialReserve = draft[side].initialReserve
         /\ Branch(draft[side], side) # "Flat" => policy[side].alpha = draft[side].alpha

\* Within a session the plan of a draft ships the very payload that was
\* previewed for it, whose hash the maker saw, with or without a salt of its
\* own; and the router decodes what the browser ships to what was drafted.
PlanShipsPreview ==
    /\ preview # None /\ plan # None /\ preview.draft = plan.draft =>
         RouterPayload(plan.order) = preview.payload
    /\ plan # None => SamePolicy(RouterPolicy(plan.order), plan.draft)

\* The commitments of ordinary curves, computed in doubles, are within the
\* tolerance of those that the contract derives in fixed point.
OrdinaryCurvesCompile ==
    \A side \in Sides : \A curve \in Curves :
        OrdinaryCurve(curve, side) /\ CanCompileCurve(curve, side) =>
            Compiles(CompileCurve(curve, side), side)

\* What a maker is shown is what can be traded: the router accepts what was
\* previewed and, on both sides, the commitments that the browser computed in
\* doubles, as long as prices and exponents are ordinary.  Of others it refuses
\* some: a product of two rounded factors is off by more than the tolerance
\* when one of them is large, and an exponent next to 1 is taken to be 1.
PreviewIsTradable ==
    /\ PlanShipsPreview
    /\ OrdinaryCurvesCompile
    /\ plan # None /\ Ordinary(plan.draft) =>
         /\ RouterDecodes(plan.order)
         /\ \A side \in Sides : Compiles(RouterPolicy(plan.order)[side], side)

\* An order whose policy is where the subgraph looks for it, and which the
\* router can trade.
Tradable(event) ==
    /\ event.order.maker = event.sender
    /\ event.order.offset = PayloadFields
    /\ RouterDecodes(event.order)

\* The index shows what is traded: it has a row for every tradable position it
\* has come across, whoever built its bytes, with the policy the router
\* decodes, and the branch, exponents and native prices that the compiler of
\* the contracts gives it.  The solver API can compile such a row again, as it
\* does for every candidate of a page.
IndexShowsWhatIsTraded ==
    /\ PublicationTypeOK
    /\ \A i \in 1 .. seen :
           Tradable(shipped[i]) =>
               \E row \in index :
                   LET policy == RouterPolicy(shipped[i].order)
                   IN  /\ row.maker = shipped[i].sender /\ row.order = shipped[i].order
                       /\ row.base = policy.base /\ row.quote = policy.quote
                       /\ row.salt = policy.salt
                       /\ \A side \in Sides :
                            LET curve == Native(policy[side], side)
                            IN  /\ row.side[side].policy = policy[side]
                                /\ row.side[side].branch = curve.branch
                                /\ row.side[side].alphaNative = curve.alpha
                                /\ row.side[side].pHigh = NativePrice(policy[side].startPrice, side)
                                /\ row.side[side].pLow = NativePrice(policy[side].endPrice, side)
                                /\ Ordinary(policy) => CanCompileCurve(row.side[side].policy, side)

\* What the Lens asks of a side when nothing has been traded.
Backed(event, side) ==
    LET draft    == event.draft
        token    == SideToken(draft, side)
        required == WadToRaw(draft[side].initialReserve, Factor[token], "Up")
    IN  /\ (IF side = "Sell" THEN event.base ELSE event.quote) = required
        /\ allowance'[event.sender][token] >= required

\* A plan leaves nothing to do: when its last call is mined, every side with
\* inventory has exactly its reserve allocated and an allowance that covers
\* it, although the plan was built from two allowances read at different
\* moments and its calls are separate transactions; the exception is an
\* allowance the maker set elsewhere since the plan was asked for.
FundedSidesAreBacked ==
    [][ Len(shipped') > Len(shipped) =>
          LET event == shipped'[Len(shipped')]
          IN  event.draft # None =>
                \A side \in Sides :
                    SideToken(event.draft, side) \notin plan.touched
                    => Backed(event, side) ]_publicationVars
=============================================================================
