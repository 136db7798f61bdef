--------------------------- MODULE SubgraphProofs ---------------------------
(***************************************************************************)
(* That the index is sound after every event and shows the chain when it   *)
(* has caught up, for every set of positions and any backlog; and that the *)
(* views of ProductViews then agree.                                       *)
(***************************************************************************)
EXTENDS ProductViews, PositionMathProofs, SumAndRankProofs

-----------------------------------------------------------------------------
(* The entities and what a handler may change.                             *)

PositionEntities ==
    [active : BOOLEAN, docked : BOOLEAN, initialized : BOOLEAN, runtimeVersion : Nat,
     baseAllocationRaw : Nat, quoteAllocationRaw : Nat, sufficientlyAllocated : BOOLEAN,
     createdBlock : Nat, lastUpdateBlock : Nat]

SideEntities(Prices) ==
    [y : Amounts, yInt : Amounts, currentPrice : Prices, aquaAllocationRaw : Nat,
     active : BOOLEAN]

Shaped(ix, Prices) ==
    /\ ix = [known |-> ix.known, position |-> ix.position, side |-> ix.side,
             fills |-> ix.fills, routes |-> ix.routes, count |-> ix.count]
    /\ ix.known \subseteq Ours
    /\ ix.position \in [Positions -> PositionEntities]
    /\ ix.side \in [Positions -> [Sides -> SideEntities(Prices)]]

Shape(ix) == \E Prices : Shaped(ix, Prices)

\* The handler of an event leaves every position alone but one.
Touches(ix, jx, p) ==
    \A q \in Positions \ {p} :
        /\ q \in jx.known <=> q \in ix.known
        /\ jx.position[q] = ix.position[q]
        /\ jx.side[q] = ix.side[q]

\* What a handler that only books amounts or a runtime leaves alone.
SameCounts(ix, jx) ==
    jx.fills = ix.fills /\ jx.routes = ix.routes /\ jx.count = ix.count

Enough(p, base, quote, sellY, buyY) ==
    /\ RawToWad(base, Factor[Config[p].base]) >= sellY
    /\ RawToWad(quote, Factor[Config[p].quote]) >= buyY

\* A handler that saves the entities of one position.
Saved(ix, p, position, side) ==
    [ix EXCEPT !.position = [ix.position EXCEPT ![p] = position],
               !.side = [ix.side EXCEPT ![p] = side]]

LEMMA EntityUpdate ==
    ASSUME NEW ix, NEW Prices, Shaped(ix, Prices), NEW p \in Positions,
           NEW position \in PositionEntities, NEW side \in [Sides -> SideEntities(Prices)],
           NEW jx, jx = Saved(ix, p, position, side)
    PROVE  /\ Shaped(jx, Prices) /\ Touches(ix, jx, p) /\ SameCounts(ix, jx)
           /\ jx.known = ix.known
           /\ jx.position[p] = position /\ jx.side[p] = side
  <1>1. /\ jx.known = ix.known /\ jx.fills = ix.fills /\ jx.routes = ix.routes
        /\ jx.count = ix.count
        /\ jx.position = [ix.position EXCEPT ![p] = position]
        /\ jx.side = [ix.side EXCEPT ![p] = side]
        /\ jx = [known |-> jx.known, position |-> jx.position, side |-> jx.side,
                 fills |-> jx.fills, routes |-> jx.routes, count |-> jx.count]
    BY DEF Shaped, Saved
  <1>2. /\ jx.position \in [Positions -> PositionEntities]
        /\ jx.position[p] = position
        /\ \A q \in Positions \ {p} : jx.position[q] = ix.position[q]
    BY <1>1 DEF Shaped
  <1>3. /\ jx.side \in [Positions -> [Sides -> SideEntities(Prices)]]
        /\ jx.side[p] = side
        /\ \A q \in Positions \ {p} : jx.side[q] = ix.side[q]
    BY <1>1 DEF Shaped
  <1>4. Shaped(jx, Prices)
    BY <1>1, <1>2, <1>3 DEF Shaped
  <1>5. Touches(ix, jx, p) /\ SameCounts(ix, jx)
    BY <1>1, <1>2, <1>3 DEF Touches, SameCounts
  <1> QED
    BY <1>1, <1>2, <1>3, <1>4, <1>5

LEMMA EntityFacts ==
    ASSUME NEW ix, NEW Prices, Shaped(ix, Prices), NEW p \in Positions
    PROVE  /\ ix.position[p] \in PositionEntities
           /\ ix.side[p] \in [Sides -> SideEntities(Prices)]
           /\ ix.side[p].Sell \in SideEntities(Prices)
           /\ ix.side[p].Buy \in SideEntities(Prices)
           /\ ix.position = [ix.position EXCEPT ![p] = ix.position[p]]
           /\ ix.side = [ix.side EXCEPT ![p] = ix.side[p]]
  BY DEF Shaped, Sides

LEMMA RefreshEffect ==
    ASSUME NEW ix, NEW Prices, Shaped(ix, Prices), NEW p \in Positions, NEW jx,
           jx = RefreshAllocation(ix, p)
    PROVE  /\ Shaped(jx, Prices) /\ Touches(ix, jx, p) /\ SameCounts(ix, jx)
           /\ jx.known = ix.known
           /\ jx.position[p] = [ix.position[p] EXCEPT !.sufficientlyAllocated =
                 Enough(p, ix.position[p].baseAllocationRaw, ix.position[p].quoteAllocationRaw,
                        ix.side[p].Sell.y, ix.side[p].Buy.y)]
           /\ jx.side[p].Sell = [ix.side[p].Sell EXCEPT !.aquaAllocationRaw =
                                    ix.position[p].baseAllocationRaw]
           /\ jx.side[p].Buy = [ix.side[p].Buy EXCEPT !.aquaAllocationRaw =
                                    ix.position[p].quoteAllocationRaw]
  <1> DEFINE position == ix.position[p]
             enough == Enough(p, position.baseAllocationRaw, position.quoteAllocationRaw,
                              ix.side[p].Sell.y, ix.side[p].Buy.y)
             newPosition == [position EXCEPT !.sufficientlyAllocated = enough]
             newSell == [ix.side[p].Sell EXCEPT !.aquaAllocationRaw = position.baseAllocationRaw]
             newBuy == [ix.side[p].Buy EXCEPT !.aquaAllocationRaw = position.quoteAllocationRaw]
             newSides == [ix.side[p] EXCEPT !.Sell = newSell, !.Buy = newBuy]
  <1>1. /\ position \in PositionEntities
        /\ ix.side[p] \in [Sides -> SideEntities(Prices)]
        /\ ix.side[p].Sell \in SideEntities(Prices)
        /\ ix.side[p].Buy \in SideEntities(Prices)
    BY EntityFacts
  <1>2. jx = Saved(ix, p, newPosition, newSides)
    BY ZenonT(40), <1>1 DEF RefreshAllocation, Enough, Shaped, Sides, Saved
  <1>3. /\ newPosition \in PositionEntities
        /\ newSell \in SideEntities(Prices) /\ newBuy \in SideEntities(Prices)
    BY <1>1 DEF PositionEntities, SideEntities, Enough
  <1>4. /\ newSides \in [Sides -> SideEntities(Prices)]
        /\ newSides.Sell = newSell /\ newSides.Buy = newBuy
    BY <1>1, <1>3 DEF Sides
  <1> HIDE DEF newPosition, newSides, newSell, newBuy
  <1>5. /\ Shaped(jx, Prices) /\ Touches(ix, jx, p) /\ SameCounts(ix, jx)
        /\ jx.known = ix.known
        /\ jx.position[p] = newPosition /\ jx.side[p] = newSides
    BY <1>2, <1>3, <1>4, EntityUpdate
  <1> QED
    BY <1>4, <1>5 DEF newPosition, newSell, newBuy

\* Entities of a known position that is not docked, with the runtime and the
\* allocations that they were told of.
Shows(ix, p, initialized, runtime, base, quote) ==
    /\ p \in ix.known
    /\ ix.position[p].active /\ ~ix.position[p].docked
    /\ ix.position[p].initialized = initialized
    /\ ix.position[p].runtimeVersion = runtime.version
    /\ ix.position[p].baseAllocationRaw = base /\ ix.position[p].quoteAllocationRaw = quote
    /\ ix.position[p].sufficientlyAllocated
         = Enough(p, base, quote, runtime.Sell.y, runtime.Buy.y)
    /\ ix.side[p].Sell.y = runtime.Sell.y /\ ix.side[p].Sell.yInt = runtime.Sell.yInt
    /\ ix.side[p].Sell.aquaAllocationRaw = base
    /\ ix.side[p].Sell.active = (runtime.Sell.y > 0)
    /\ ix.side[p].Buy.y = runtime.Buy.y /\ ix.side[p].Buy.yInt = runtime.Buy.yInt
    /\ ix.side[p].Buy.aquaAllocationRaw = quote
    /\ ix.side[p].Buy.active = (runtime.Buy.y > 0)

\* What the counters see of a handler that only books.
Quiet(ix, jx, p) ==
    /\ SameCounts(ix, jx) /\ Touches(ix, jx, p)
    /\ jx.known = ix.known
    /\ jx.position[p].active = ix.position[p].active

LEMMA ConfigFacts ==
    ASSUME NEW p \in Positions
    PROVE  /\ Config[p].base # Config[p].quote
           /\ Config[p].base \in Tokens /\ Config[p].quote \in Tokens
           /\ Config[p].Sell.initialReserve \in Amounts
           /\ Config[p].Buy.initialReserve \in Amounts
           /\ Representable(Config[p])
  BY SubgraphAssumption DEF ValidStructure, Sides, Representable

LEMMA BookedBase ==
    ASSUME NEW ix, NEW Prices, Shaped(ix, Prices), NEW e, e.position \in ix.known,
           e.position \in Positions,
           e.block \in Nat, e.amount \in Nat, NEW increase \in BOOLEAN,
           e.token = Config[e.position].base,
           NEW jx, jx = ApplyAllocation(ix, e, increase)
    PROVE  /\ Shaped(jx, Prices) /\ Quiet(ix, jx, e.position)
           /\ jx.position[e.position].runtimeVersion = ix.position[e.position].runtimeVersion
           /\ \A initialized, runtime, base, quote :
                Shows(ix, e.position, initialized, runtime, base, quote) =>
                  Shows(jx, e.position, initialized, runtime,
                        UpdateAmount(base, e.amount, increase), quote)
  <1> DEFINE p == e.position
             amount == UpdateAmount(ix.position[p].baseAllocationRaw, e.amount, increase)
             position == [ix.position[p] EXCEPT !.baseAllocationRaw = amount,
                                                !.lastUpdateBlock = e.block]
             kx == Saved(ix, p, position, ix.side[p])
  <1>1. p \in Positions
    OBVIOUS
  <1>2. /\ ix.position[p] \in PositionEntities
        /\ ix.side[p] \in [Sides -> SideEntities(Prices)]
        /\ ix.side = [ix.side EXCEPT ![p] = ix.side[p]]
        /\ ix.side[p].Sell \in SideEntities(Prices)
        /\ ix.side[p].Buy \in SideEntities(Prices)
    BY ZenonT(40), <1>1, EntityFacts
  <1>3. amount \in Nat
    BY <1>2 DEF UpdateAmount, PositionEntities
  <1>5. jx = RefreshAllocation(kx, p)
    <2>1. jx = RefreshAllocation([ix EXCEPT !.position[p].baseAllocationRaw = amount,
                                            !.position[p].lastUpdateBlock = e.block], p)
      BY <1>1, <1>2 DEF ApplyAllocation, Shaped
    <2>2. [ix EXCEPT !.position[p].baseAllocationRaw = amount,
                     !.position[p].lastUpdateBlock = e.block] = kx
      BY ZenonT(40), <1>1, <1>2 DEF Shaped, Saved
    <2> QED
      BY <2>1, <2>2
  <1>7. /\ position.baseAllocationRaw = amount
        /\ \A field \in {"active", "docked", "initialized", "runtimeVersion", "quoteAllocationRaw"} :
              position[field] = ix.position[p][field]
    BY <1>2 DEF PositionEntities
  <1> HIDE DEF amount
  <1>4. position \in PositionEntities
    BY <1>2, <1>3 DEF PositionEntities
  <1> HIDE DEF position
  <1>6. /\ Shaped(kx, Prices) /\ Touches(ix, kx, p) /\ SameCounts(ix, kx)
        /\ kx.known = ix.known
        /\ kx.position[p] = position /\ kx.side[p] = ix.side[p]
    BY <1>1, <1>2, <1>4, EntityUpdate
  <1> HIDE DEF kx
  <1>8. /\ Shaped(jx, Prices) /\ Touches(kx, jx, p) /\ SameCounts(kx, jx)
        /\ jx.known = kx.known
        /\ jx.position[p] = [position EXCEPT !.sufficientlyAllocated =
              Enough(p, amount, ix.position[p].quoteAllocationRaw,
                     ix.side[p].Sell.y, ix.side[p].Buy.y)]
        /\ jx.side[p].Sell = [ix.side[p].Sell EXCEPT !.aquaAllocationRaw = amount]
        /\ jx.side[p].Buy = [ix.side[p].Buy EXCEPT !.aquaAllocationRaw =
                                 ix.position[p].quoteAllocationRaw]
    <2>1. /\ Shaped(jx, Prices) /\ Touches(kx, jx, p) /\ SameCounts(kx, jx)
          /\ jx.known = kx.known
          /\ jx.position[p] = [kx.position[p] EXCEPT !.sufficientlyAllocated =
                Enough(p, kx.position[p].baseAllocationRaw, kx.position[p].quoteAllocationRaw,
                       kx.side[p].Sell.y, kx.side[p].Buy.y)]
          /\ jx.side[p].Sell = [kx.side[p].Sell EXCEPT !.aquaAllocationRaw =
                                    kx.position[p].baseAllocationRaw]
          /\ jx.side[p].Buy = [kx.side[p].Buy EXCEPT !.aquaAllocationRaw =
                                   kx.position[p].quoteAllocationRaw]
      BY <1>1, <1>5, <1>6, RefreshEffect
    <2>2. /\ kx.position[p].baseAllocationRaw = amount
          /\ kx.position[p].quoteAllocationRaw = ix.position[p].quoteAllocationRaw
          /\ kx.side[p] = ix.side[p] /\ kx.position[p] = position
      BY <1>6, <1>7
    <2> QED
      BY ONLY <2>1, <2>2
  <1>9. Quiet(ix, jx, p) /\ jx.position[p].runtimeVersion = ix.position[p].runtimeVersion
    <2>1. SameCounts(ix, jx) /\ jx.known = ix.known
      BY <1>6, <1>8 DEF SameCounts
    <2>2. Touches(ix, jx, p)
      BY <1>6, <1>8 DEF Touches
    <2>3. /\ jx.position[p].active = position.active
          /\ jx.position[p].runtimeVersion = position.runtimeVersion
      BY <1>4, <1>8 DEF PositionEntities
    <2> QED
      BY <1>7, <2>1, <2>2, <2>3 DEF Quiet
  <1>10. ASSUME NEW initialized, NEW runtime, NEW base, NEW quote,
                Shows(ix, p, initialized, runtime, base, quote)
         PROVE  Shows(jx, p, initialized, runtime, UpdateAmount(base, e.amount, increase), quote)
    <2>1. /\ jx.position[p].active = position.active /\ jx.position[p].docked = position.docked
          /\ jx.position[p].initialized = position.initialized
          /\ jx.position[p].runtimeVersion = position.runtimeVersion
          /\ jx.position[p].baseAllocationRaw = position.baseAllocationRaw
          /\ jx.position[p].quoteAllocationRaw = position.quoteAllocationRaw
          /\ jx.position[p].sufficientlyAllocated
               = Enough(p, amount, ix.position[p].quoteAllocationRaw,
                        ix.side[p].Sell.y, ix.side[p].Buy.y)
      BY <1>4, <1>8 DEF PositionEntities
    <2>2. /\ jx.side[p].Sell.y = ix.side[p].Sell.y /\ jx.side[p].Sell.yInt = ix.side[p].Sell.yInt
          /\ jx.side[p].Sell.active = ix.side[p].Sell.active
          /\ jx.side[p].Sell.aquaAllocationRaw = amount
          /\ jx.side[p].Buy.y = ix.side[p].Buy.y /\ jx.side[p].Buy.yInt = ix.side[p].Buy.yInt
          /\ jx.side[p].Buy.active = ix.side[p].Buy.active
          /\ jx.side[p].Buy.aquaAllocationRaw = ix.position[p].quoteAllocationRaw
      BY <1>2, <1>8 DEF SideEntities
    <2>3. amount = UpdateAmount(base, e.amount, increase)
      BY <1>10 DEF Shows, amount
    <2> QED
      BY ZenonT(40), <1>6, <1>7, <1>8, <1>10, <2>1, <2>2, <2>3 DEF Shows
  <1> QED
    BY <1>8, <1>9, <1>10
LEMMA BookedQuote ==
    ASSUME NEW ix, NEW Prices, Shaped(ix, Prices), NEW e, e.position \in ix.known,
           e.position \in Positions,
           e.block \in Nat, e.amount \in Nat, NEW increase \in BOOLEAN,
           e.token = Config[e.position].quote,
           NEW jx, jx = ApplyAllocation(ix, e, increase)
    PROVE  /\ Shaped(jx, Prices) /\ Quiet(ix, jx, e.position)
           /\ jx.position[e.position].runtimeVersion = ix.position[e.position].runtimeVersion
           /\ \A initialized, runtime, base, quote :
                Shows(ix, e.position, initialized, runtime, base, quote) =>
                  Shows(jx, e.position, initialized, runtime,
                        base, UpdateAmount(quote, e.amount, increase))
  <1> DEFINE p == e.position
             amount == UpdateAmount(ix.position[p].quoteAllocationRaw, e.amount, increase)
             position == [ix.position[p] EXCEPT !.quoteAllocationRaw = amount,
                                                !.lastUpdateBlock = e.block]
             kx == Saved(ix, p, position, ix.side[p])
  <1>1. p \in Positions
    OBVIOUS
  <1>2. /\ ix.position[p] \in PositionEntities
        /\ ix.side[p] \in [Sides -> SideEntities(Prices)]
        /\ ix.side = [ix.side EXCEPT ![p] = ix.side[p]]
        /\ ix.side[p].Sell \in SideEntities(Prices)
        /\ ix.side[p].Buy \in SideEntities(Prices)
    BY ZenonT(40), <1>1, EntityFacts
  <1>3. amount \in Nat
    BY <1>2 DEF UpdateAmount, PositionEntities
  <1>5. jx = RefreshAllocation(kx, p)
    <2>1. jx = RefreshAllocation([ix EXCEPT !.position[p].quoteAllocationRaw = amount,
                                            !.position[p].lastUpdateBlock = e.block], p)
      BY <1>1, <1>2, ConfigFacts DEF ApplyAllocation, Shaped
    <2>2. [ix EXCEPT !.position[p].quoteAllocationRaw = amount,
                     !.position[p].lastUpdateBlock = e.block] = kx
      BY ZenonT(40), <1>1, <1>2 DEF Shaped, Saved
    <2> QED
      BY <2>1, <2>2
  <1>7. /\ position.quoteAllocationRaw = amount
        /\ \A field \in {"active", "docked", "initialized", "runtimeVersion", "baseAllocationRaw"} :
              position[field] = ix.position[p][field]
    BY <1>2 DEF PositionEntities
  <1> HIDE DEF amount
  <1>4. position \in PositionEntities
    BY <1>2, <1>3 DEF PositionEntities
  <1> HIDE DEF position
  <1>6. /\ Shaped(kx, Prices) /\ Touches(ix, kx, p) /\ SameCounts(ix, kx)
        /\ kx.known = ix.known
        /\ kx.position[p] = position /\ kx.side[p] = ix.side[p]
    BY <1>1, <1>2, <1>4, EntityUpdate
  <1> HIDE DEF kx
  <1>8. /\ Shaped(jx, Prices) /\ Touches(kx, jx, p) /\ SameCounts(kx, jx)
        /\ jx.known = kx.known
        /\ jx.position[p] = [position EXCEPT !.sufficientlyAllocated =
              Enough(p, ix.position[p].baseAllocationRaw, amount,
                     ix.side[p].Sell.y, ix.side[p].Buy.y)]
        /\ jx.side[p].Sell = [ix.side[p].Sell EXCEPT !.aquaAllocationRaw =
                                  ix.position[p].baseAllocationRaw]
        /\ jx.side[p].Buy = [ix.side[p].Buy EXCEPT !.aquaAllocationRaw = amount]
    <2>1. /\ Shaped(jx, Prices) /\ Touches(kx, jx, p) /\ SameCounts(kx, jx)
          /\ jx.known = kx.known
          /\ jx.position[p] = [kx.position[p] EXCEPT !.sufficientlyAllocated =
                Enough(p, kx.position[p].baseAllocationRaw, kx.position[p].quoteAllocationRaw,
                       kx.side[p].Sell.y, kx.side[p].Buy.y)]
          /\ jx.side[p].Sell = [kx.side[p].Sell EXCEPT !.aquaAllocationRaw =
                                    kx.position[p].baseAllocationRaw]
          /\ jx.side[p].Buy = [kx.side[p].Buy EXCEPT !.aquaAllocationRaw =
                                   kx.position[p].quoteAllocationRaw]
      BY <1>1, <1>5, <1>6, RefreshEffect
    <2>2. /\ kx.position[p].baseAllocationRaw = ix.position[p].baseAllocationRaw
          /\ kx.position[p].quoteAllocationRaw = amount
          /\ kx.side[p] = ix.side[p] /\ kx.position[p] = position
      BY <1>6, <1>7
    <2> QED
      BY ONLY <2>1, <2>2
  <1>9. Quiet(ix, jx, p) /\ jx.position[p].runtimeVersion = ix.position[p].runtimeVersion
    <2>1. SameCounts(ix, jx) /\ jx.known = ix.known
      BY <1>6, <1>8 DEF SameCounts
    <2>2. Touches(ix, jx, p)
      BY <1>6, <1>8 DEF Touches
    <2>3. /\ jx.position[p].active = position.active
          /\ jx.position[p].runtimeVersion = position.runtimeVersion
      BY <1>4, <1>8 DEF PositionEntities
    <2> QED
      BY <1>7, <2>1, <2>2, <2>3 DEF Quiet
  <1>10. ASSUME NEW initialized, NEW runtime, NEW base, NEW quote,
                Shows(ix, p, initialized, runtime, base, quote)
         PROVE  Shows(jx, p, initialized, runtime, base, UpdateAmount(quote, e.amount, increase))
    <2>1. /\ jx.position[p].active = position.active /\ jx.position[p].docked = position.docked
          /\ jx.position[p].initialized = position.initialized
          /\ jx.position[p].runtimeVersion = position.runtimeVersion
          /\ jx.position[p].baseAllocationRaw = position.baseAllocationRaw
          /\ jx.position[p].quoteAllocationRaw = position.quoteAllocationRaw
          /\ jx.position[p].sufficientlyAllocated
               = Enough(p, ix.position[p].baseAllocationRaw, amount,
                        ix.side[p].Sell.y, ix.side[p].Buy.y)
      BY <1>4, <1>8 DEF PositionEntities
    <2>2. /\ jx.side[p].Sell.y = ix.side[p].Sell.y /\ jx.side[p].Sell.yInt = ix.side[p].Sell.yInt
          /\ jx.side[p].Sell.active = ix.side[p].Sell.active
          /\ jx.side[p].Sell.aquaAllocationRaw = ix.position[p].baseAllocationRaw
          /\ jx.side[p].Buy.y = ix.side[p].Buy.y /\ jx.side[p].Buy.yInt = ix.side[p].Buy.yInt
          /\ jx.side[p].Buy.active = ix.side[p].Buy.active
          /\ jx.side[p].Buy.aquaAllocationRaw = amount
      BY <1>2, <1>8 DEF SideEntities
    <2>3. amount = UpdateAmount(quote, e.amount, increase)
      BY <1>10 DEF Shows, amount
    <2> QED
      BY ZenonT(40), <1>6, <1>7, <1>8, <1>10, <2>1, <2>2, <2>3 DEF Shows
  <1> QED
    BY <1>8, <1>9, <1>10

LEMMA RuntimeFacts ==
    ASSUME NEW runtime \in Runtimes
    PROVE  /\ runtime.Sell.y \in Amounts /\ runtime.Sell.yInt \in Amounts
           /\ runtime.Buy.y \in Amounts /\ runtime.Buy.yInt \in Amounts
           /\ runtime.version \in Nat /\ runtime.initialized \in BOOLEAN
           /\ (runtime.Sell.y > 0) \in BOOLEAN /\ (runtime.Buy.y > 0) \in BOOLEAN
  BY TokenAssumption DEF Runtimes, CurveStates

LEMMA RuntimeBooked ==
    ASSUME NEW ix, NEW Prices, Shaped(ix, Prices), NEW e, e.position \in Positions,
           e.block \in Nat, e.runtime \in Runtimes,
           NEW jx, jx = WithRuntime(ix, e)
    PROVE  /\ Shaped(jx, Prices) /\ Quiet(ix, jx, e.position)
           /\ jx.position[e.position].runtimeVersion = e.runtime.version
           /\ \A initialized, runtime, base, quote :
                Shows(ix, e.position, initialized, runtime, base, quote) =>
                  Shows(jx, e.position, TRUE, e.runtime, base, quote)
  <1> DEFINE p == e.position
             position == [ix.position[p] EXCEPT !.initialized = TRUE,
                                                !.runtimeVersion = e.runtime.version,
                                                !.lastUpdateBlock = e.block]
             sell == [ix.side[p].Sell EXCEPT
                        !.y = e.runtime.Sell.y, !.yInt = e.runtime.Sell.yInt,
                        !.active = ix.position[p].active /\ e.runtime.Sell.y > 0]
             buy == [ix.side[p].Buy EXCEPT
                        !.y = e.runtime.Buy.y, !.yInt = e.runtime.Buy.yInt,
                        !.active = ix.position[p].active /\ e.runtime.Buy.y > 0]
             sides == [ix.side[p] EXCEPT !.Sell = sell, !.Buy = buy]
             kx == Saved(ix, p, position, sides)
  <1>1. p \in Positions
    OBVIOUS
  <1>2. /\ ix.position[p] \in PositionEntities
        /\ ix.side[p] \in [Sides -> SideEntities(Prices)]
        /\ ix.side[p].Sell \in SideEntities(Prices)
        /\ ix.side[p].Buy \in SideEntities(Prices)
    BY <1>1, EntityFacts
  <1>3. jx = RefreshAllocation(kx, p)
    <2>1. jx = RefreshAllocation(
                 [ix EXCEPT !.side[p].Sell = sell, !.side[p].Buy = buy,
                            !.position[p].initialized = TRUE,
                            !.position[p].runtimeVersion = e.runtime.version,
                            !.position[p].lastUpdateBlock = e.block], p)
      BY DEF WithRuntime
    <2> HIDE DEF sell, buy
    <2>2. [ix EXCEPT !.side[p].Sell = sell, !.side[p].Buy = buy,
                     !.position[p].initialized = TRUE,
                     !.position[p].runtimeVersion = e.runtime.version,
                     !.position[p].lastUpdateBlock = e.block] = kx
      <3>1. [ix.position EXCEPT ![p].initialized = TRUE,
                                ![p].runtimeVersion = e.runtime.version,
                                ![p].lastUpdateBlock = e.block]
              = [ix.position EXCEPT ![p] = position]
        BY <1>1, <1>2 DEF Shaped
      <3>2. [ix.side EXCEPT ![p].Sell = sell, ![p].Buy = buy]
              = [ix.side EXCEPT ![p] = sides]
        BY <1>1, <1>2 DEF Shaped
      <3> QED
        BY ZenonT(40), <3>1, <3>2 DEF Shaped, Saved
    <2> QED
      BY <2>1, <2>2
  <1>4. position \in PositionEntities
    BY <1>2, RuntimeFacts DEF PositionEntities
  <1>5. /\ position.initialized = TRUE /\ position.runtimeVersion = e.runtime.version
        /\ \A field \in {"active", "docked", "baseAllocationRaw", "quoteAllocationRaw"} :
              position[field] = ix.position[p][field]
    BY <1>2 DEF PositionEntities
  <1>6. /\ sell \in SideEntities(Prices) /\ buy \in SideEntities(Prices)
        /\ sell.y = e.runtime.Sell.y /\ sell.yInt = e.runtime.Sell.yInt
        /\ sell.active = (ix.position[p].active /\ e.runtime.Sell.y > 0)
        /\ buy.y = e.runtime.Buy.y /\ buy.yInt = e.runtime.Buy.yInt
        /\ buy.active = (ix.position[p].active /\ e.runtime.Buy.y > 0)
    BY <1>2, RuntimeFacts DEF SideEntities, PositionEntities
  <1> HIDE DEF sell, buy
  <1>7. sides \in [Sides -> SideEntities(Prices)] /\ sides.Sell = sell /\ sides.Buy = buy
    BY <1>2, <1>6 DEF Sides
  <1> HIDE DEF position, sides
  <1>8. /\ Shaped(kx, Prices) /\ Touches(ix, kx, p) /\ SameCounts(ix, kx)
        /\ kx.known = ix.known
        /\ kx.position[p] = position /\ kx.side[p] = sides
    BY <1>1, <1>4, <1>7, EntityUpdate
  <1> HIDE DEF kx
  <1>9. /\ Shaped(jx, Prices) /\ Touches(kx, jx, p) /\ SameCounts(kx, jx)
        /\ jx.known = kx.known
        /\ jx.position[p] = [position EXCEPT !.sufficientlyAllocated =
              Enough(p, position.baseAllocationRaw, position.quoteAllocationRaw, sell.y, buy.y)]
        /\ jx.side[p].Sell = [sell EXCEPT !.aquaAllocationRaw = position.baseAllocationRaw]
        /\ jx.side[p].Buy = [buy EXCEPT !.aquaAllocationRaw = position.quoteAllocationRaw]
    BY <1>1, <1>3, <1>7, <1>8, RefreshEffect
  <1>10. Quiet(ix, jx, p) /\ jx.position[p].runtimeVersion = e.runtime.version
    BY <1>4, <1>5, <1>8, <1>9 DEF Quiet, Touches, SameCounts, PositionEntities
  <1>11. ASSUME NEW initialized, NEW runtime, NEW base, NEW quote,
                Shows(ix, p, initialized, runtime, base, quote)
         PROVE  Shows(jx, p, TRUE, e.runtime, base, quote)
    BY SMTT(30), <1>2, <1>4, <1>5, <1>6, <1>8, <1>9, <1>11 DEF Shows, PositionEntities, SideEntities
  <1> QED
    BY <1>9, <1>10, <1>11
-----------------------------------------------------------------------------
(* The counters.                                                           *)

Counters == DOMAIN NoCount

LEMMA CounterNames ==
    Counters = {"positions", "active", "fills", "routes", "base", "quote"}
  BY DEF Counters, NoCount

Deltas == [Counters -> Int]

\* The counters of the scopes in S move by delta.
Moves(old, new, S, delta) ==
    /\ new \in [Scopes -> Deltas]
    /\ \A scope \in Scopes, c \in Counters :
         new[scope][c] = old[scope][c] + (IF scope \in S THEN delta[c] ELSE 0)

LEMMA CountEffect ==
    ASSUME NEW ix, NEW Prices, Shaped(ix, Prices), NEW S, NEW delta, NEW jx,
           jx = Count(ix, S, delta)
    PROVE  /\ Shaped(jx, Prices)
           /\ jx.known = ix.known /\ jx.position = ix.position /\ jx.side = ix.side
           /\ jx.fills = ix.fills /\ jx.routes = ix.routes
           /\ ix.count \in [Scopes -> Deltas] /\ delta \in Deltas =>
                Moves(ix.count, jx.count, S, delta)
  <1> DEFINE Plus(c) ==
               [positions |-> c.positions + delta.positions, active |-> c.active + delta.active,
                fills |-> c.fills + delta.fills, routes |-> c.routes + delta.routes,
                base |-> c.base + delta.base, quote |-> c.quote + delta.quote]
             count == [scope \in Scopes |->
                         IF scope \in S THEN Plus(ix.count[scope]) ELSE ix.count[scope]]
  <1>1. jx = [ix EXCEPT !.count = count]
    BY DEF Count, Shaped
  <1>2. /\ jx.known = ix.known /\ jx.position = ix.position /\ jx.side = ix.side
        /\ jx.fills = ix.fills /\ jx.routes = ix.routes /\ jx.count = count
        /\ jx = [known |-> jx.known, position |-> jx.position, side |-> jx.side,
                 fills |-> jx.fills, routes |-> jx.routes, count |-> jx.count]
    <2> HIDE DEF count
    <2> QED
      BY <1>1 DEF Shaped
  <1>3. ASSUME ix.count \in [Scopes -> Deltas], delta \in Deltas
        PROVE  Moves(ix.count, count, S, delta)
    <2>1. ASSUME NEW c \in Deltas
          PROVE  /\ Plus(c) \in Deltas
                 /\ \A n \in Counters : Plus(c)[n] = c[n] + delta[n]
      BY <1>3, CounterNames DEF Deltas
    <2> HIDE DEF Plus
    <2>2. count \in [Scopes -> Deltas]
      BY <1>3, <2>1
    <2>3. ASSUME NEW scope \in Scopes, NEW c \in Counters
          PROVE  count[scope][c] = ix.count[scope][c] + (IF scope \in S THEN delta[c] ELSE 0)
      <3>1. ix.count[scope] \in Deltas /\ ix.count[scope][c] \in Int
        BY <1>3 DEF Deltas
      <3> QED
        BY <2>1, <3>1
    <2> QED
      BY <2>2, <2>3 DEF Moves
  <1> HIDE DEF count
  <1> QED
    BY <1>2, <1>3 DEF Shaped

LEMMA DeltaType ==
    ASSUME NEW positions \in Int, NEW active \in Int, NEW fills \in Int, NEW routes \in Int,
           NEW base \in Int, NEW quote \in Int
    PROVE  [positions |-> positions, active |-> active, fills |-> fills, routes |-> routes,
            base |-> base, quote |-> quote] \in Deltas
  BY CounterNames DEF Deltas

\* What the handlers add, named.
Shipping == [NoCount EXCEPT !.positions = 1, !.active = 1]
Docking == [NoCount EXCEPT !.active = -1]
Filling == [NoCount EXCEPT !.fills = 1]
Routing == [NoCount EXCEPT !.routes = 1]

LEMMA ShipDelta ==
    /\ Shipping \in Deltas
    /\ Shipping.positions = 1 /\ Shipping.active = 1
    /\ \A c \in Counters \ {"positions", "active"} : Shipping[c] = 0
  <1>1. Shipping = [positions |-> 1, active |-> 1, fills |-> 0, routes |-> 0, base |-> 0, quote |-> 0]
    <2> DEFINE first == [NoCount EXCEPT !.positions = 1]
    <2>1. first = [positions |-> 1, active |-> 0, fills |-> 0, routes |-> 0, base |-> 0, quote |-> 0]
      BY DEF NoCount, Shipping
    <2>2. Shipping = [first EXCEPT !.active = 1]
      BY DEF Shipping
    <2> HIDE DEF first
    <2> QED
      BY <2>1, <2>2
  <1>2. Shipping \in Deltas
    BY <1>1, DeltaType
  <1>3. /\ Shipping.positions = 1 /\ Shipping.active = 1
        /\ \A c \in Counters \ {"positions", "active"} : Shipping[c] = 0
    BY <1>1, CounterNames
  <1> QED
    BY <1>2, <1>3

LEMMA DockDelta ==
    /\ Docking \in Deltas
    /\ Docking.active = -1
    /\ \A c \in Counters \ {"active"} : Docking[c] = 0
  <1>1. Docking = [positions |-> 0, active |-> -1, fills |-> 0, routes |-> 0, base |-> 0, quote |-> 0]
    BY DEF NoCount, Docking
  <1>2. Docking \in Deltas
    BY <1>1, DeltaType
  <1>3. Docking.active = -1 /\ \A c \in Counters \ {"active"} : Docking[c] = 0
    BY <1>1, CounterNames
  <1> QED
    BY <1>2, <1>3

LEMMA FillDelta ==
    /\ Filling \in Deltas
    /\ Filling.fills = 1
    /\ \A c \in Counters \ {"fills"} : Filling[c] = 0
  <1>1. Filling = [positions |-> 0, active |-> 0, fills |-> 1, routes |-> 0, base |-> 0, quote |-> 0]
    BY DEF NoCount, Filling
  <1>2. Filling \in Deltas
    BY <1>1, DeltaType
  <1>3. Filling.fills = 1 /\ \A c \in Counters \ {"fills"} : Filling[c] = 0
    BY <1>1, CounterNames
  <1> QED
    BY <1>2, <1>3

LEMMA RouteDelta ==
    /\ Routing \in Deltas
    /\ Routing.routes = 1
    /\ \A c \in Counters \ {"routes"} : Routing[c] = 0
  <1>1. Routing = [positions |-> 0, active |-> 0, fills |-> 0, routes |-> 1, base |-> 0, quote |-> 0]
    BY DEF NoCount, Routing
  <1>2. Routing \in Deltas
    BY <1>1, DeltaType
  <1>3. Routing.routes = 1 /\ \A c \in Counters \ {"routes"} : Routing[c] = 0
    BY <1>1, CounterNames
  <1> QED
    BY <1>2, <1>3

LEMMA VolumeDelta ==
    ASSUME NEW e, e.amountIn \in Nat, e.amountOut \in Nat
    PROVE  /\ Volume(e) \in Deltas
           /\ Volume(e).positions = 0 /\ Volume(e).active = 0
           /\ Volume(e).fills = 1 /\ Volume(e).routes = 0
           /\ Volume(e).base \in Nat /\ Volume(e).quote \in Nat
  <1> DEFINE base == IF e.side = "Sell" THEN e.amountOut ELSE e.amountIn
             quote == IF e.side = "Sell" THEN e.amountIn ELSE e.amountOut
  <1>1. Volume(e) = [positions |-> 0, active |-> 0, fills |-> 1, routes |-> 0,
                     base |-> base, quote |-> quote]
    <2> DEFINE first == [NoCount EXCEPT !.fills = 1]
               second == [first EXCEPT !.base = base]
    <2>1. first = [positions |-> 0, active |-> 0, fills |-> 1, routes |-> 0, base |-> 0, quote |-> 0]
      BY DEF NoCount
    <2>2. Volume(e) = [second EXCEPT !.quote = quote]
      BY DEF Volume
    <2> HIDE DEF first, base, quote
    <2>3. second = [positions |-> 0, active |-> 0, fills |-> 1, routes |-> 0,
                    base |-> base, quote |-> 0]
      BY <2>1
    <2> HIDE DEF second
    <2> QED
      BY <2>2, <2>3
  <1>2. base \in Nat /\ quote \in Nat
    OBVIOUS
  <1> HIDE DEF base, quote
  <1> QED
    BY <1>1, <1>2, DeltaType
-----------------------------------------------------------------------------
(* What every handler does.                                                *)

NewSides(p) == [s \in Sides |-> NewSide(Config[p][s])]

Ships(ix, jx, p) ==
    /\ jx.known = ix.known \cup {p}
    /\ jx.position[p].active = ix.position[p].active
    /\ jx.position[p].runtimeVersion = ix.position[p].runtimeVersion
    /\ jx.fills = ix.fills
    /\ ix.count \in [Scopes -> Deltas] => Moves(ix.count, jx.count, ScopesOf(p), Shipping)

LEMMA ShippedEffect ==
    ASSUME NEW ix, NEW Prices, Shaped(ix, Prices), NEW e, e.position \in Positions,
           e.block \in Nat, e.position \in Ours, e.position \notin ix.known,
           NEW jx, jx = HandleShipped(ix, e)
    PROVE  LET p == e.position
           IN  /\ Shaped(jx, Prices) /\ Touches(ix, jx, p)
               /\ Ships(ix, jx, p)
               /\ ix.position[p] = NewPosition
                     /\ ix.side[p] = NewSides(p) =>
                    Shows(jx, p, FALSE, Initial(Config[p]), 0, 0)
  <1> DEFINE p == e.position
             position == [ix.position[p] EXCEPT !.createdBlock = e.block,
                                                !.lastUpdateBlock = e.block]
             kx == Created(ix, e)
             lx == RefreshAllocation(kx, p)
  <1>1. p \in Positions
    OBVIOUS
  <1>2. /\ ix.position[p] \in PositionEntities
        /\ ix.side[p] \in [Sides -> SideEntities(Prices)]
    BY <1>1, EntityFacts
  <1>3. /\ kx.known = ix.known \cup {p} /\ kx.side = ix.side
        /\ SameCounts(ix, kx)
        /\ kx.position = [ix.position EXCEPT ![p] = position]
        /\ kx = [known |-> kx.known, position |-> kx.position, side |-> kx.side,
                 fills |-> kx.fills, routes |-> kx.routes, count |-> kx.count]
    <2>1. [ix.position EXCEPT ![p].createdBlock = e.block, ![p].lastUpdateBlock = e.block]
            = [ix.position EXCEPT ![p] = position]
      BY <1>1, <1>2 DEF Shaped
    <2>2. kx = [ix EXCEPT !.known = ix.known \cup {p},
                          !.position = [ix.position EXCEPT ![p].createdBlock = e.block,
                                                           ![p].lastUpdateBlock = e.block]]
      BY <1>1 DEF Created, Shaped
    <2>3. kx = [ix EXCEPT !.known = ix.known \cup {p},
                          !.position = [ix.position EXCEPT ![p] = position]]
      BY <2>1, <2>2
    <2> HIDE DEF kx, position
    <2> QED
      BY <2>3 DEF Shaped, SameCounts
  <1>4. position \in PositionEntities
    BY <1>2 DEF PositionEntities
  <1>5. \A field \in {"active", "docked", "initialized", "runtimeVersion",
                      "baseAllocationRaw", "quoteAllocationRaw"} :
            position[field] = ix.position[p][field]
    BY <1>2 DEF PositionEntities
  <1> HIDE DEF position, kx
  <1>6. /\ Shaped(kx, Prices) /\ Touches(ix, kx, p)
        /\ kx.position[p] = position
    BY <1>1, <1>3, <1>4 DEF Shaped, Touches
  <1>7. jx = Count(lx, ScopesOf(p), Shipping)
    BY DEF HandleShipped, kx, Shipping
  <1>8. /\ Shaped(lx, Prices) /\ Touches(kx, lx, p) /\ SameCounts(kx, lx)
        /\ lx.known = kx.known
        /\ lx.position[p] = [position EXCEPT !.sufficientlyAllocated =
              Enough(p, position.baseAllocationRaw, position.quoteAllocationRaw,
                     ix.side[p].Sell.y, ix.side[p].Buy.y)]
        /\ lx.side[p].Sell = [ix.side[p].Sell EXCEPT !.aquaAllocationRaw =
                                 position.baseAllocationRaw]
        /\ lx.side[p].Buy = [ix.side[p].Buy EXCEPT !.aquaAllocationRaw =
                                position.quoteAllocationRaw]
    <2>1. lx = RefreshAllocation(kx, p)
      OBVIOUS
    <2> HIDE DEF lx
    <2>2. /\ Shaped(lx, Prices) /\ Touches(kx, lx, p) /\ SameCounts(kx, lx)
          /\ lx.known = kx.known
          /\ lx.position[p] = [kx.position[p] EXCEPT !.sufficientlyAllocated =
                 Enough(p, kx.position[p].baseAllocationRaw, kx.position[p].quoteAllocationRaw,
                        kx.side[p].Sell.y, kx.side[p].Buy.y)]
          /\ lx.side[p].Sell = [kx.side[p].Sell EXCEPT !.aquaAllocationRaw =
                                    kx.position[p].baseAllocationRaw]
          /\ lx.side[p].Buy = [kx.side[p].Buy EXCEPT !.aquaAllocationRaw =
                                    kx.position[p].quoteAllocationRaw]
      BY <1>1, <1>6, <2>1, RefreshEffect
    <2> QED
      BY <1>3, <1>6, <2>2
  <1> HIDE DEF lx
  <1>9. Shipping \in Deltas
    BY ShipDelta
  <1>10. /\ Shaped(jx, Prices)
         /\ jx.known = lx.known /\ jx.position = lx.position /\ jx.side = lx.side
         /\ jx.fills = lx.fills /\ jx.routes = lx.routes
         /\ lx.count \in [Scopes -> Deltas] =>
              Moves(lx.count, jx.count, ScopesOf(p), Shipping)
    BY <1>7, <1>8, <1>9, CountEffect
  <1>11. Touches(ix, jx, p)
    BY <1>6, <1>8, <1>10 DEF Touches
  <1>12. /\ jx.position[p].active = ix.position[p].active
         /\ jx.position[p].runtimeVersion = ix.position[p].runtimeVersion
    BY <1>4, <1>5, <1>8, <1>10 DEF PositionEntities
  <1>13. ASSUME ix.position[p] = NewPosition,
                ix.side[p] = NewSides(p)
         PROVE  Shows(jx, p, FALSE, Initial(Config[p]), 0, 0)
    <2> DEFINE runtime == Initial(Config[p])
    <2>1. /\ runtime.Sell.y = Config[p].Sell.initialReserve
          /\ runtime.Sell.yInt = Config[p].Sell.initialReserve
          /\ runtime.Buy.y = Config[p].Buy.initialReserve
          /\ runtime.Buy.yInt = Config[p].Buy.initialReserve
          /\ runtime.version = 0
      BY DEF Initial, Unset, FreshState
    <2>2. /\ ix.side[p].Sell = NewSide(Config[p].Sell)
          /\ ix.side[p].Buy = NewSide(Config[p].Buy)
      BY <1>13 DEF Sides, NewSides
    <2>3. /\ position.active /\ ~position.docked /\ ~position.initialized
          /\ position.runtimeVersion = 0
          /\ position.baseAllocationRaw = 0 /\ position.quoteAllocationRaw = 0
      <3>1. /\ NewPosition.active /\ ~NewPosition.docked /\ ~NewPosition.initialized
            /\ NewPosition.runtimeVersion = 0
            /\ NewPosition.baseAllocationRaw = 0 /\ NewPosition.quoteAllocationRaw = 0
        BY DEF NewPosition
      <3> QED
        BY <1>5, <1>13, <3>1
    <2> HIDE DEF runtime
    <2>4. /\ ix.side[p].Sell.y = runtime.Sell.y /\ ix.side[p].Sell.yInt = runtime.Sell.yInt
          /\ ix.side[p].Sell.active = (runtime.Sell.y > 0)
          /\ ix.side[p].Buy.y = runtime.Buy.y /\ ix.side[p].Buy.yInt = runtime.Buy.yInt
          /\ ix.side[p].Buy.active = (runtime.Buy.y > 0)
          /\ ix.side[p].Sell \in SideEntities(Prices) /\ ix.side[p].Buy \in SideEntities(Prices)
      BY <1>2, <2>1, <2>2 DEF NewSide, Sides
    <2>5. /\ p \in jx.known
          /\ jx.position[p] = [position EXCEPT !.sufficientlyAllocated =
                Enough(p, 0, 0, runtime.Sell.y, runtime.Buy.y)]
          /\ jx.side[p].Sell = [ix.side[p].Sell EXCEPT !.aquaAllocationRaw = 0]
          /\ jx.side[p].Buy = [ix.side[p].Buy EXCEPT !.aquaAllocationRaw = 0]
      BY <1>3, <1>8, <1>10, <2>3, <2>4
    <2>6. Shows(jx, p, FALSE, runtime, 0, 0)
      BY <1>4, <2>1, <2>3, <2>4, <2>5 DEF Shows, PositionEntities, SideEntities
    <2> QED
      BY <2>6 DEF runtime
  <1>14. Ships(ix, jx, p)
    BY <1>3, <1>8, <1>10, <1>12 DEF SameCounts, Ships
  <1> QED
    BY <1>10, <1>11, <1>13, <1>14

\* Entities of a position that has been docked.
Gone(ix, p, initialized, runtime) ==
    /\ p \in ix.known
    /\ ~ix.position[p].active /\ ix.position[p].docked
    /\ ix.position[p].initialized = initialized
    /\ ix.position[p].runtimeVersion = runtime.version
    /\ ~ix.position[p].sufficientlyAllocated
    /\ ix.side[p].Sell.y = runtime.Sell.y /\ ix.side[p].Sell.yInt = runtime.Sell.yInt
    /\ ix.side[p].Sell.aquaAllocationRaw = 0 /\ ~ix.side[p].Sell.active
    /\ ix.side[p].Buy.y = runtime.Buy.y /\ ix.side[p].Buy.yInt = runtime.Buy.yInt
    /\ ix.side[p].Buy.aquaAllocationRaw = 0 /\ ~ix.side[p].Buy.active

LEMMA DockedEffect ==
    ASSUME NEW ix, NEW Prices, Shaped(ix, Prices), NEW e, e.position \in Positions,
           e.block \in Nat, e.position \in ix.known, ix.position[e.position].active,
           NEW jx, jx = HandleDocked(ix, e)
    PROVE  LET p == e.position
           IN  /\ Shaped(jx, Prices) /\ Touches(ix, jx, p)
               /\ jx.known = ix.known
               /\ ~jx.position[p].active
               /\ jx.position[p].runtimeVersion = ix.position[p].runtimeVersion
               /\ jx.fills = ix.fills
               /\ ix.count \in [Scopes -> Deltas] =>
                    Moves(ix.count, jx.count, ScopesOf(p), Docking)
               /\ \A initialized, runtime, base, quote :
                    Shows(ix, p, initialized, runtime, base, quote) =>
                      Gone(jx, p, initialized, runtime)
  <1> DEFINE p == e.position
             position == [ix.position[p] EXCEPT !.active = FALSE, !.docked = TRUE,
                                                !.sufficientlyAllocated = FALSE,
                                                !.lastUpdateBlock = e.block]
             gone(s) == [ix.side[p][s] EXCEPT !.active = FALSE, !.aquaAllocationRaw = 0]
             sides == [s \in Sides |-> gone(s)]
             kx == [ix EXCEPT !.position[p].active = FALSE, !.position[p].docked = TRUE,
                              !.position[p].sufficientlyAllocated = FALSE,
                              !.position[p].lastUpdateBlock = e.block, !.side[p] = sides]
  <1>1. p \in Positions
    OBVIOUS
  <1>2. /\ ix.position[p] \in PositionEntities
        /\ ix.side[p] \in [Sides -> SideEntities(Prices)]
        /\ ix.side[p].Sell \in SideEntities(Prices)
        /\ ix.side[p].Buy \in SideEntities(Prices)
    BY <1>1, EntityFacts
  <1>3. kx = Saved(ix, p, position, sides)
    <2> DEFINE positions == [ix.position EXCEPT ![p].active = FALSE, ![p].docked = TRUE,
                                                ![p].sufficientlyAllocated = FALSE,
                                                ![p].lastUpdateBlock = e.block]
               first == [ix EXCEPT !.position[p].active = FALSE, !.position[p].docked = TRUE,
                                   !.position[p].sufficientlyAllocated = FALSE,
                                   !.position[p].lastUpdateBlock = e.block]
    <2>1. first = [ix EXCEPT !.position = positions]
      BY <1>1, <1>2 DEF Shaped
    <2>2. positions = [ix.position EXCEPT ![p] = position]
      BY <1>1, <1>2 DEF Shaped
    <2>3. kx = [first EXCEPT !.side[p] = sides]
      OBVIOUS
    <2> HIDE DEF positions, first, kx, position, sides
    <2> QED
      BY <2>1, <2>2, <2>3 DEF Saved, Shaped
  <1>4. position \in PositionEntities
    BY <1>2 DEF PositionEntities
  <1>5. /\ ~position.active /\ position.docked /\ ~position.sufficientlyAllocated
        /\ position.initialized = ix.position[p].initialized
        /\ position.runtimeVersion = ix.position[p].runtimeVersion
    BY <1>2 DEF PositionEntities
  <1>6. \A s \in Sides : /\ gone(s) \in SideEntities(Prices)
                        /\ gone(s).y = ix.side[p][s].y /\ gone(s).yInt = ix.side[p][s].yInt
                        /\ ~gone(s).active /\ gone(s).aquaAllocationRaw = 0
    BY <1>2 DEF SideEntities
  <1> HIDE DEF gone
  <1>7. /\ sides \in [Sides -> SideEntities(Prices)]
        /\ sides.Sell = gone("Sell") /\ sides.Buy = gone("Buy")
        /\ "Sell" \in Sides /\ "Buy" \in Sides
    BY <1>6 DEF Sides
  <1>8. jx = Count(kx, ScopesOf(p), Docking)
    BY <1>1, <1>2 DEF HandleDocked, gone, Shaped, Docking
  <1> HIDE DEF position, sides, kx
  <1>9. /\ Shaped(kx, Prices) /\ Touches(ix, kx, p) /\ SameCounts(ix, kx)
        /\ kx.known = ix.known
        /\ kx.position[p] = position /\ kx.side[p] = sides
    BY <1>1, <1>3, <1>4, <1>7, EntityUpdate
  <1>10. Docking \in Deltas
    BY DockDelta
  <1>11. /\ Shaped(jx, Prices)
         /\ jx.known = kx.known /\ jx.position = kx.position /\ jx.side = kx.side
         /\ jx.fills = kx.fills /\ jx.routes = kx.routes
         /\ kx.count \in [Scopes -> Deltas] =>
              Moves(kx.count, jx.count, ScopesOf(p), Docking)
    BY <1>8, <1>9, <1>10, CountEffect
  <1>12. Touches(ix, jx, p)
    BY <1>9, <1>11 DEF Touches
  <1>13. ASSUME NEW initialized, NEW runtime, NEW base, NEW quote,
                Shows(ix, p, initialized, runtime, base, quote)
         PROVE  Gone(jx, p, initialized, runtime)
    BY <1>5, <1>6, <1>7, <1>9, <1>11, <1>13 DEF Shows, Gone
  <1> QED
    BY <1>5, <1>9, <1>11, <1>12, <1>13 DEF SameCounts

FillRecord(e) ==
    [position |-> e.position, version |-> e.runtime.version, route |-> e.route, block |-> e.block]

CountsFill(old, new, e) ==
    \E between :
       /\ Moves(old, between,
                {<<"market">>, <<"maker", Config[e.position].maker>>, <<"day", e.day>>}, Volume(e))
       /\ Moves(between, new, {<<"protocol">>}, Filling)

FillsIn(ix, jx, e) ==
    /\ jx.known = ix.known
    /\ jx.position[e.position].active = ix.position[e.position].active
    /\ jx.position[e.position].runtimeVersion = e.runtime.version
    /\ jx.fills = ix.fills \cup {FillRecord(e)}
    /\ ix.count \in [Scopes -> Deltas] => CountsFill(ix.count, jx.count, e)

LEMMA FilledEffect ==
    ASSUME NEW ix, NEW Prices, Shaped(ix, Prices), NEW e, e.position \in Positions,
           e.block \in Nat, e.position \in ix.known, e.runtime \in Runtimes,
           e.side \in Sides, e.amountIn \in Nat, e.amountOut \in Nat,
           NEW jx, jx = HandleCurveFilled(ix, e)
    PROVE  LET p == e.position
           IN  /\ Shaped(jx, Prices \cup {e.price}) /\ Touches(ix, jx, p)
               /\ FillsIn(ix, jx, e)
               /\ \A initialized, runtime, base, quote :
                    Shows(ix, p, initialized, runtime, base, quote) =>
                      Shows(jx, p, TRUE, e.runtime, base, quote)
  <1> DEFINE p == e.position
             More == Prices \cup {e.price}
             kx == WithRuntime(ix, e)
             side == [kx.side[p][e.side] EXCEPT !.currentPrice = e.price]
             sides == [kx.side[p] EXCEPT ![e.side] = side]
             fills == kx.fills \cup {FillRecord(e)}
             lx == [kx EXCEPT !.side[p][e.side].currentPrice = e.price, !.fills = fills]
             S == {<<"market">>, <<"maker", Config[p].maker>>, <<"day", e.day>>}
             mx == Count(lx, S, Volume(e))
  <1>1. p \in Positions
    OBVIOUS
  <1>2. jx = Count(mx, {<<"protocol">>}, Filling)
    BY DEF HandleCurveFilled, CountFill, FillRecord, Filling
  <1>3. /\ Shaped(kx, Prices) /\ Quiet(ix, kx, p)
        /\ kx.position[p].runtimeVersion = e.runtime.version
        /\ \A initialized, runtime, base, quote :
             Shows(ix, p, initialized, runtime, base, quote) =>
               Shows(kx, p, TRUE, e.runtime, base, quote)
    BY <1>1, RuntimeBooked
  <1> HIDE DEF kx
  <1>4. /\ kx.side[p] \in [Sides -> SideEntities(Prices)]
        /\ kx.side[p][e.side] \in SideEntities(Prices)
        /\ \A s \in Sides : kx.side[p][s] \in SideEntities(Prices)
        /\ \A q \in Positions : kx.side[q] \in [Sides -> SideEntities(Prices)]
    BY <1>1, <1>3 DEF Shaped
  <1>5. /\ side \in SideEntities(More)
        /\ \A field \in {"y", "yInt", "aquaAllocationRaw", "active"} :
             side[field] = kx.side[p][e.side][field]
    BY <1>4 DEF SideEntities
  <1>6. SideEntities(Prices) \subseteq SideEntities(More)
    BY DEF SideEntities
  <1> HIDE DEF side, More
  <1>7. /\ sides \in [Sides -> SideEntities(More)]
        /\ sides[e.side] = side /\ \A s \in Sides \ {e.side} : sides[s] = kx.side[p][s]
    BY <1>4, <1>5, <1>6
  <1>8. /\ lx.known = kx.known /\ lx.position = kx.position /\ lx.fills = fills
        /\ lx.routes = kx.routes /\ lx.count = kx.count
        /\ lx.side = [kx.side EXCEPT ![p] = sides]
        /\ lx = [known |-> lx.known, position |-> lx.position, side |-> lx.side,
                 fills |-> lx.fills, routes |-> lx.routes, count |-> lx.count]
    <2>1. [kx.side EXCEPT ![p][e.side].currentPrice = e.price] = [kx.side EXCEPT ![p] = sides]
      BY <1>1, <1>3, <1>4 DEF Shaped, side
    <2>2. lx = [kx EXCEPT !.side = [kx.side EXCEPT ![p] = sides], !.fills = fills]
      BY <1>3, <2>1 DEF Shaped
    <2> HIDE DEF lx, fills, sides
    <2> QED
      BY <1>3, <2>2 DEF Shaped
  <1> HIDE DEF sides, lx
  <1>9. /\ lx.side[p] = sides /\ \A q \in Positions \ {p} : lx.side[q] = kx.side[q]
        /\ lx.side \in [Positions -> [Sides -> SideEntities(More)]]
    <2>1. kx.side \in [Positions -> [Sides -> SideEntities(Prices)]]
      BY <1>3 DEF Shaped
    <2>2. \A q \in Positions : kx.side[q] \in [Sides -> SideEntities(More)]
      BY <1>4, <1>6
    <2> QED
      BY <1>1, <1>7, <1>8, <2>1, <2>2
  <1>10. Shaped(lx, More)
    BY <1>3, <1>8, <1>9 DEF Shaped
  <1>11. Volume(e) \in Deltas /\ Filling \in Deltas
    BY VolumeDelta, FillDelta
  <1>12. /\ Shaped(mx, More)
         /\ mx.known = lx.known /\ mx.position = lx.position /\ mx.side = lx.side
         /\ mx.fills = lx.fills /\ mx.routes = lx.routes
         /\ lx.count \in [Scopes -> Deltas] => Moves(lx.count, mx.count, S, Volume(e))
    BY <1>10, <1>11, CountEffect
  <1> HIDE DEF mx, S
  <1>13. /\ Shaped(jx, More)
         /\ jx.known = mx.known /\ jx.position = mx.position /\ jx.side = mx.side
         /\ jx.fills = mx.fills /\ jx.routes = mx.routes
         /\ mx.count \in [Scopes -> Deltas] =>
              Moves(mx.count, jx.count, {<<"protocol">>}, Filling)
    BY <1>2, <1>11, <1>12, CountEffect
  <1>14. Touches(ix, jx, p)
    BY <1>3, <1>8, <1>9, <1>12, <1>13 DEF Touches, Quiet
  <1>15. /\ jx.position[p].active = ix.position[p].active
         /\ jx.position[p].runtimeVersion = e.runtime.version
         /\ jx.known = ix.known /\ jx.fills = ix.fills \cup {FillRecord(e)}
    BY <1>3, <1>8, <1>12, <1>13 DEF Quiet, SameCounts
  <1>16. ASSUME ix.count \in [Scopes -> Deltas]
         PROVE  /\ Moves(ix.count, mx.count, S, Volume(e))
                /\ Moves(mx.count, jx.count, {<<"protocol">>}, Filling)
    <2>1. Moves(ix.count, mx.count, S, Volume(e))
      BY <1>3, <1>8, <1>12, <1>16 DEF Quiet, SameCounts
    <2> QED
      BY <1>13, <2>1 DEF Moves
  <1>17. ASSUME NEW initialized, NEW runtime, NEW base, NEW quote,
                Shows(ix, p, initialized, runtime, base, quote)
         PROVE  Shows(jx, p, TRUE, e.runtime, base, quote)
    <2>1. Shows(kx, p, TRUE, e.runtime, base, quote)
      BY <1>3, <1>17
    <2>2. \A s \in Sides, field \in {"y", "yInt", "aquaAllocationRaw", "active"} :
             jx.side[p][s][field] = kx.side[p][s][field]
      BY <1>5, <1>7, <1>9, <1>12, <1>13
    <2>3. \A field \in {"y", "yInt", "aquaAllocationRaw", "active"} :
             /\ jx.side[p].Sell[field] = kx.side[p].Sell[field]
             /\ jx.side[p].Buy[field] = kx.side[p].Buy[field]
      BY <2>2 DEF Sides
    <2>4. jx.known = kx.known /\ jx.position = kx.position
      BY <1>8, <1>12, <1>13
    <2> QED
      BY <2>1, <2>3, <2>4 DEF Shows
  <1> QED
    <2>1. ix.count \in [Scopes -> Deltas] => CountsFill(ix.count, jx.count, e)
      BY <1>16 DEF S, CountsFill
    <2>2. FillsIn(ix, jx, e)
      BY <1>15, <2>1 DEF FillsIn
    <2> QED
      BY <1>13, <1>14, <1>17, <2>2 DEF More
-----------------------------------------------------------------------------
(* Sums of counters.                                                       *)

GroupTotal(count, S, c) == SumFunctionOnSet([scope \in S |-> count[scope][c]], S)

MakerScopes == {"maker"} \X Makers
DayScopes == {"day"} \X (0 .. MaxDay)

LEMMA IntervalFinite ==
    ASSUME NEW a \in Int, NEW b \in Int
    PROVE  IsFiniteSet(a .. b)
  BY ONLY FS_Interval, a \in Int, b \in Int

LEMMA GroupsFinite == IsFiniteSet(Makers) /\ IsFiniteSet(MakerScopes) /\ IsFiniteSet(DayScopes)
  <1>1. IsFiniteSet(Makers)
    <2> DEFINE f == [p \in Positions |-> Config[p].maker]
    <2>1. f \in Surjection(Positions, Makers)
      BY DEF Makers, Surjection
    <2> QED
      BY <2>1, SubgraphAssumption, FS_Surjection
  <1>2. IsFiniteSet({"maker"}) /\ IsFiniteSet({"day"})
    BY FS_Singleton
  <1>3. IsFiniteSet(0 .. MaxDay)
    BY SubgraphAssumption, IntervalFinite
  <1> QED
    BY <1>1, <1>2, <1>3, FS_Product DEF MakerScopes, DayScopes

LEMMA ScopeFacts ==
    /\ <<"protocol">> \in Scopes /\ <<"market">> \in Scopes
    /\ MakerScopes \subseteq Scopes /\ DayScopes \subseteq Scopes
    /\ <<"protocol">> # <<"market">>
    /\ \A x \in MakerScopes \cup DayScopes : x # <<"protocol">> /\ x # <<"market">>
    /\ \A x \in MakerScopes, y \in DayScopes : x # y
    /\ \A p \in Positions : <<"maker", Config[p].maker>> \in MakerScopes
    /\ \A m \in Makers : <<"maker", m>> \in MakerScopes
    /\ \A d \in 0 .. MaxDay : <<"day", d>> \in DayScopes
  BY DEF Scopes, MakerScopes, DayScopes, Makers

LEMMA GroupMoves ==
    ASSUME NEW old \in [Scopes -> Deltas], NEW new, NEW S, NEW delta \in Deltas,
           Moves(old, new, S, delta), NEW G, G \subseteq Scopes, IsFiniteSet(G),
           NEW c \in Counters
    PROVE  /\ GroupTotal(old, G, c) \in Int
           /\ \A x \in G : (\A y \in G : y \in S <=> y = x) =>
                GroupTotal(new, G, c) = GroupTotal(old, G, c) + delta[c]
           /\ (\A y \in G : y \notin S) => GroupTotal(new, G, c) = GroupTotal(old, G, c)
  <1> DEFINE f == [scope \in G |-> old[scope][c]]
             g == [scope \in G |-> new[scope][c]]
  <1>1. \A x \in G : f[x] \in Int /\ g[x] = f[x] + (IF x \in S THEN delta[c] ELSE 0)
    BY DEF Moves, Deltas
  <1>2. delta[c] \in Int
    BY DEF Deltas
  <1>3. GroupTotal(old, G, c) = SumFunctionOnSet(f, G) /\ GroupTotal(new, G, c) = SumFunctionOnSet(g, G)
    BY DEF GroupTotal
  <1> HIDE DEF f, g
  <1>4. \A x \in G : f[x] \in Int /\ g[x] \in Int
    BY <1>1, <1>2
  <1>5. SumFunctionOnSet(f, G) \in Int
    BY <1>4, SumInt
  <1>6. ASSUME NEW x \in G, \A y \in G : y \in S <=> y = x
        PROVE  SumFunctionOnSet(g, G) = SumFunctionOnSet(f, G) + delta[c]
    <2>1. /\ SumFunctionOnSet(f, G) = f[x] + SumFunctionOnSet(f, G \ {x})
          /\ SumFunctionOnSet(g, G) = g[x] + SumFunctionOnSet(g, G \ {x})
      BY <1>4, SumRemove
    <2>2. IsFiniteSet(G \ {x})
      BY FS_RemoveElement
    <2>3. \A y \in G \ {x} : f[y] \in Int /\ f[y] = g[y]
      BY <1>1, <1>6
    <2>4. /\ SumFunctionOnSet(f, G \ {x}) = SumFunctionOnSet(g, G \ {x})
          /\ SumFunctionOnSet(f, G \ {x}) \in Int
      BY <2>2, <2>3, SumSame, SumInt
    <2>5. g[x] = f[x] + delta[c]
      BY <1>1, <1>6
    <2> QED
      BY <1>2, <1>4, <2>1, <2>4, <2>5
  <1>7. ASSUME \A y \in G : y \notin S
        PROVE  SumFunctionOnSet(g, G) = SumFunctionOnSet(f, G)
    <2>1. \A y \in G : f[y] \in Int /\ f[y] = g[y]
      BY <1>1, <1>7
    <2> QED
      BY <2>1, SumSame
  <1> QED
    BY <1>3, <1>5, <1>6, <1>7

MakerCounters == {"positions", "active", "fills", "base", "quote"}
DayCounters == {"fills", "routes", "base", "quote"}
ProtocolCounters == {"positions", "active", "fills", "routes"}

AddsUp(count) ==
    /\ \A c \in MakerCounters : count[<<"market">>][c] = GroupTotal(count, MakerScopes, c)
    /\ \A c \in DayCounters : count[<<"market">>][c] = GroupTotal(count, DayScopes, c)
    /\ \A c \in ProtocolCounters : count[<<"market">>][c] = count[<<"protocol">>][c]

LEMMA GroupCounters ==
    /\ MakerCounters \subseteq Counters /\ DayCounters \subseteq Counters
    /\ ProtocolCounters \subseteq Counters
  BY CounterNames DEF MakerCounters, DayCounters, ProtocolCounters

\* A position is shipped or docked: the market, its maker and the protocol.
LEMMA PositionBalance ==
    ASSUME NEW old \in [Scopes -> Deltas], AddsUp(old), NEW new, NEW p \in Positions,
           NEW delta \in Deltas, \A c \in DayCounters : delta[c] = 0,
           Moves(old, new, ScopesOf(p), delta)
    PROVE  AddsUp(new)
  <1> DEFINE x == <<"maker", Config[p].maker>>
             S == ScopesOf(p)
  <1>1. /\ <<"market">> \in S /\ <<"protocol">> \in S
        /\ \A y \in MakerScopes : y \in S <=> y = x
        /\ \A y \in DayScopes : y \notin S
        /\ x \in MakerScopes
    BY ScopeFacts DEF ScopesOf
  <1> HIDE DEF S, x
  <1>2. \A c \in Counters : /\ old[<<"market">>][c] \in Int /\ old[<<"protocol">>][c] \in Int
                            /\ delta[c] \in Int
                            /\ new[<<"market">>][c] = old[<<"market">>][c] + delta[c]
                            /\ new[<<"protocol">>][c] = old[<<"protocol">>][c] + delta[c]
    BY <1>1, ScopeFacts DEF Moves, Deltas, S
  <1>3. Moves(old, new, S, delta)
    BY DEF S
  <1>4. \A c \in MakerCounters : new[<<"market">>][c] = GroupTotal(new, MakerScopes, c)
    <2> TAKE c \in MakerCounters
    <2>1. c \in Counters
      BY GroupCounters
    <2>2. GroupTotal(new, MakerScopes, c) = GroupTotal(old, MakerScopes, c) + delta[c]
      BY <1>1, <1>3, <2>1, GroupMoves, GroupsFinite, ScopeFacts
    <2> QED
      BY <1>2, <2>1, <2>2 DEF AddsUp
  <1>5. \A c \in DayCounters : new[<<"market">>][c] = GroupTotal(new, DayScopes, c)
    <2> TAKE c \in DayCounters
    <2>1. c \in Counters
      BY GroupCounters
    <2>2. GroupTotal(new, DayScopes, c) = GroupTotal(old, DayScopes, c)
      BY <1>1, <1>3, <2>1, GroupMoves, GroupsFinite, ScopeFacts
    <2> QED
      BY <1>2, <2>1, <2>2 DEF AddsUp
  <1>6. \A c \in ProtocolCounters : new[<<"market">>][c] = new[<<"protocol">>][c]
    BY <1>2, GroupCounters DEF AddsUp
  <1> QED
    BY <1>4, <1>5, <1>6 DEF AddsUp

\* A fill: the market, the maker and the day take the volume, the protocol
\* only counts it.
LEMMA FillBalance ==
    ASSUME NEW old \in [Scopes -> Deltas], AddsUp(old), NEW between, NEW new,
           NEW p \in Positions, NEW d \in 0 .. MaxDay,
           NEW volume \in Deltas, NEW delta \in Deltas,
           volume.positions = 0, volume.active = 0, volume.fills = 1, volume.routes = 0,
           delta.fills = 1, \A c \in Counters \ {"fills"} : delta[c] = 0,
           Moves(old, between, {<<"market">>, <<"maker", Config[p].maker>>, <<"day", d>>}, volume),
           Moves(between, new, {<<"protocol">>}, delta)
    PROVE  AddsUp(new)
  <1> DEFINE x == <<"maker", Config[p].maker>>
             z == <<"day", d>>
             S == {<<"market">>, x, z}
             T == {<<"protocol">>}
  <1>1. /\ <<"market">> \in S /\ <<"protocol">> \notin S
        /\ \A y \in MakerScopes : y \in S <=> y = x
        /\ \A y \in DayScopes : y \in S <=> y = z
        /\ x \in MakerScopes /\ z \in DayScopes
        /\ \A y \in MakerScopes \cup DayScopes : y \notin T
        /\ <<"market">> \notin T /\ <<"protocol">> \in T
    BY ScopeFacts
  <1>2. Moves(old, between, S, volume) /\ Moves(between, new, T, delta)
    OBVIOUS
  <1>3. between \in [Scopes -> Deltas]
    BY DEF Moves
  <1> HIDE DEF S, T, x, z
  <1>4. \A c \in Counters : /\ old[<<"market">>][c] \in Int /\ old[<<"protocol">>][c] \in Int
                            /\ volume[c] \in Int /\ delta[c] \in Int
                            /\ new[<<"market">>][c] = old[<<"market">>][c] + volume[c]
                            /\ new[<<"protocol">>][c] = old[<<"protocol">>][c] + delta[c]
    <2> TAKE c \in Counters
    <2>1. /\ old[<<"market">>][c] \in Int /\ old[<<"protocol">>][c] \in Int
          /\ volume[c] \in Int /\ delta[c] \in Int
      BY ScopeFacts DEF Deltas
    <2>2. /\ between[<<"market">>][c] = old[<<"market">>][c] + volume[c]
          /\ between[<<"protocol">>][c] = old[<<"protocol">>][c] + 0
          /\ new[<<"market">>][c] = between[<<"market">>][c] + 0
          /\ new[<<"protocol">>][c] = between[<<"protocol">>][c] + delta[c]
      BY <1>1, <1>2, ScopeFacts DEF Moves
    <2> QED
      BY <2>1, <2>2
  <1>5. ASSUME NEW c \in Counters
        PROVE  /\ GroupTotal(new, MakerScopes, c) = GroupTotal(old, MakerScopes, c) + volume[c]
               /\ GroupTotal(new, DayScopes, c) = GroupTotal(old, DayScopes, c) + volume[c]
    <2>1. /\ GroupTotal(between, MakerScopes, c) = GroupTotal(old, MakerScopes, c) + volume[c]
          /\ GroupTotal(between, DayScopes, c) = GroupTotal(old, DayScopes, c) + volume[c]
      BY <1>1, <1>2, GroupMoves, GroupsFinite, ScopeFacts
    <2>2. /\ GroupTotal(new, MakerScopes, c) = GroupTotal(between, MakerScopes, c)
          /\ GroupTotal(new, DayScopes, c) = GroupTotal(between, DayScopes, c)
      BY <1>1, <1>2, <1>3, GroupMoves, GroupsFinite, ScopeFacts
    <2> QED
      BY <2>1, <2>2
  <1>6. \A c \in MakerCounters : new[<<"market">>][c] = GroupTotal(new, MakerScopes, c)
    BY <1>4, <1>5, GroupCounters DEF AddsUp
  <1>7. \A c \in DayCounters : new[<<"market">>][c] = GroupTotal(new, DayScopes, c)
    BY <1>4, <1>5, GroupCounters DEF AddsUp
  <1>8. \A c \in ProtocolCounters : volume[c] = delta[c]
    BY CounterNames DEF ProtocolCounters
  <1>9. \A c \in ProtocolCounters : new[<<"market">>][c] = new[<<"protocol">>][c]
    BY <1>4, <1>8, GroupCounters DEF AddsUp
  <1> QED
    BY <1>6, <1>7, <1>9 DEF AddsUp

LEMMA RouteBalance ==
    ASSUME NEW old \in [Scopes -> Deltas], AddsUp(old), NEW new, NEW d \in 0 .. MaxDay,
           NEW delta \in Deltas, \A c \in Counters \ {"routes"} : delta[c] = 0,
           Moves(old, new, {<<"protocol">>, <<"market">>, <<"day", d>>}, delta)
    PROVE  AddsUp(new)
  <1> DEFINE z == <<"day", d>>
             S == {<<"protocol">>, <<"market">>, z}
  <1>1. /\ <<"market">> \in S /\ <<"protocol">> \in S
        /\ \A y \in MakerScopes : y \notin S
        /\ \A y \in DayScopes : y \in S <=> y = z
        /\ z \in DayScopes
    BY ScopeFacts
  <1>2. Moves(old, new, S, delta)
    OBVIOUS
  <1> HIDE DEF S, z
  <1>3. \A c \in Counters : /\ old[<<"market">>][c] \in Int /\ old[<<"protocol">>][c] \in Int
                            /\ delta[c] \in Int
                            /\ new[<<"market">>][c] = old[<<"market">>][c] + delta[c]
                            /\ new[<<"protocol">>][c] = old[<<"protocol">>][c] + delta[c]
    BY <1>1, <1>2, ScopeFacts DEF Moves, Deltas
  <1>4. ASSUME NEW c \in Counters
        PROVE  /\ GroupTotal(new, MakerScopes, c) = GroupTotal(old, MakerScopes, c)
               /\ GroupTotal(new, DayScopes, c) = GroupTotal(old, DayScopes, c) + delta[c]
    BY <1>1, <1>2, GroupMoves, GroupsFinite, ScopeFacts
  <1>5. \A c \in MakerCounters : delta[c] = 0
    BY GroupCounters DEF MakerCounters
  <1>6. \A c \in MakerCounters : new[<<"market">>][c] = GroupTotal(new, MakerScopes, c)
    BY <1>3, <1>4, <1>5, GroupCounters DEF AddsUp
  <1>7. \A c \in DayCounters : new[<<"market">>][c] = GroupTotal(new, DayScopes, c)
    BY <1>3, <1>4, GroupCounters DEF AddsUp
  <1>8. \A c \in ProtocolCounters : new[<<"market">>][c] = new[<<"protocol">>][c]
    BY <1>3, GroupCounters DEF AddsUp
  <1> QED
    BY <1>6, <1>7, <1>8 DEF AddsUp
-----------------------------------------------------------------------------
(* The index is sound after every event.                                   *)

Handle(ix, e) ==
    CASE e.type = "Shipped" -> HandleShipped(ix, e)
      [] e.type = "Pushed" -> HandlePushed(ix, e)
      [] e.type = "Pulled" -> HandlePulled(ix, e)
      [] e.type = "Docked" -> HandleDocked(ix, e)
      [] e.type = "PositionRuntimeInitialized" -> HandlePositionRuntimeInitialized(ix, e)
      [] e.type = "CurveFilled" -> HandleCurveFilled(ix, e)
      [] e.type = "RouteExecuted" -> HandleRouteExecuted(ix, e)

\* An event as the chain emits it, for an index that has handled all before it.
Covered(ix, e) ==
    e.position \in ix.known =>
        e.amount <= IF e.token = Config[e.position].base
                    THEN ix.position[e.position].baseAllocationRaw
                    ELSE ix.position[e.position].quoteAllocationRaw

GoodLifecycle(ix, e) ==
    e.type \in {"Shipped", "Docked"} /\ e.position \in Positions

GoodTransfer(ix, e) ==
    /\ e.type \in {"Pushed", "Pulled"} /\ e.position \in Positions /\ e.amount \in Nat
    /\ e.type = "Pulled" => Covered(ix, e)

GoodRuntime(ix, e) ==
    /\ e.type = "PositionRuntimeInitialized"
    /\ e.position \in Positions /\ e.runtime \in Runtimes
    /\ e.runtime.version = ix.position[e.position].runtimeVersion

GoodFill(ix, e) ==
    /\ e.type = "CurveFilled"
    /\ e.position \in Positions /\ e.runtime \in Runtimes
    /\ e.runtime.version = ix.position[e.position].runtimeVersion + 1
    /\ e.side \in Sides /\ e.amountIn \in Nat /\ e.amountOut \in Nat
    /\ e.day \in 0 .. MaxDay

GoodRoute(ix, e) == e.type = "RouteExecuted" /\ e.day \in 0 .. MaxDay

Good(ix, e) ==
    /\ e.block \in Nat
    /\ \/ GoodLifecycle(ix, e) \/ GoodTransfer(ix, e) \/ GoodRuntime(ix, e)
       \/ GoodFill(ix, e) \/ GoodRoute(ix, e)

Listed(ix) == {p \in ix.known : ix.position[p].active}
ListedOf(ix, m) == {p \in Listed(ix) : Config[p].maker = m}
FillsOf(ix, p) == {f \in ix.fills : f.position = p}

\* The counters of listed positions count them.
ActiveAdds(ix) ==
    /\ ix.count[<<"market">>].active = Cardinality(Listed(ix))
    /\ \A m \in Makers : ix.count[<<"maker", m>>].active = Cardinality(ListedOf(ix, m))

\* Every version of a runtime has one fill.
FillsAdd(ix) ==
    /\ IsFiniteSet(ix.fills)
    /\ \A p \in Positions :
         /\ ix.position[p].runtimeVersion = Cardinality(FillsOf(ix, p))
         /\ \A f \in FillsOf(ix, p) :
              f.version \in Nat /\ f.version <= ix.position[p].runtimeVersion

Sound(ix) ==
    /\ Shape(ix)
    /\ ix.count \in [Scopes -> Counts]
    /\ AddsUp(ix.count)
    /\ ActiveAdds(ix)
    /\ FillsAdd(ix)
    /\ \A p \in Positions \ ix.known : ix.position[p].active

LEMMA CountsAreDeltas ==
    ASSUME NEW count \in [Scopes -> Counts]
    PROVE  /\ count \in [Scopes -> Deltas]
           /\ \A scope \in Scopes, c \in Counters : count[scope][c] \in Nat
  BY DEF Counts, Deltas, Counters

LEMMA NaturalCounts ==
    ASSUME NEW count \in [Scopes -> Deltas],
           \A scope \in Scopes, c \in Counters : count[scope][c] \in Nat
    PROVE  count \in [Scopes -> Counts]
  BY DEF Counts, Deltas, Counters

LEMMA MoreCounts ==
    ASSUME NEW old \in [Scopes -> Counts], NEW new, NEW S, NEW delta \in Deltas,
           \A c \in Counters : delta[c] \in Nat, Moves(old, new, S, delta)
    PROVE  new \in [Scopes -> Counts]
  <1>1. new \in [Scopes -> Deltas]
    BY DEF Moves
  <1>2. \A scope \in Scopes, c \in Counters : new[scope][c] \in Nat
    BY CountsAreDeltas DEF Moves
  <1> QED
    BY <1>1, <1>2, NaturalCounts

LEMMA KnownFinite ==
    ASSUME NEW ix, Shape(ix)
    PROVE  /\ ix.known \subseteq Positions
           /\ IsFiniteSet(Listed(ix)) /\ Cardinality(Listed(ix)) \in Nat
           /\ \A m : IsFiniteSet(ListedOf(ix, m)) /\ Cardinality(ListedOf(ix, m)) \in Nat
  <1>1. ix.known \subseteq Positions
    BY SubgraphAssumption DEF Shape, Shaped
  <1>2. Listed(ix) \subseteq Positions /\ \A m : ListedOf(ix, m) \subseteq Positions
    BY <1>1 DEF Listed, ListedOf
  <1> QED
    BY <1>1, <1>2, SubgraphAssumption, FS_Subset, FS_CardinalityType

\* A handler that only books, or moves a runtime without a fill.
LEMMA QuietIsSound ==
    ASSUME NEW ix, Sound(ix), NEW jx, Shape(jx), NEW p \in Positions, Quiet(ix, jx, p),
           jx.position[p].runtimeVersion = ix.position[p].runtimeVersion
    PROVE  Sound(jx)
  <1>1. /\ jx.count = ix.count /\ jx.fills = ix.fills /\ jx.known = ix.known
    BY DEF Quiet, SameCounts
  <1>2. \A q \in Positions : /\ jx.position[q].active = ix.position[q].active
                             /\ jx.position[q].runtimeVersion = ix.position[q].runtimeVersion
    BY DEF Quiet, Touches
  <1>3. Listed(jx) = Listed(ix)
    BY <1>1, <1>2, KnownFinite DEF Listed, Sound
  <1>4. \A m : ListedOf(jx, m) = ListedOf(ix, m)
    BY <1>3 DEF ListedOf
  <1>5. ActiveAdds(jx)
    BY <1>1, <1>3, <1>4 DEF Sound, ActiveAdds
  <1>6. FillsAdd(jx)
    BY <1>1, <1>2 DEF Sound, FillsAdd, FillsOf
  <1> QED
    BY <1>1, <1>2, <1>5, <1>6 DEF Sound

LEMMA ScopesOfFacts ==
    ASSUME NEW p \in Positions
    PROVE  /\ <<"market">> \in ScopesOf(p) /\ <<"protocol">> \in ScopesOf(p)
           /\ Config[p].maker \in Makers
           /\ \A m \in Makers : <<"maker", m>> \in ScopesOf(p) <=> m = Config[p].maker
           /\ \A scope \in ScopesOf(p) :
                \/ scope = <<"market">> \/ scope = <<"protocol">>
                \/ scope = <<"maker", Config[p].maker>>
  BY ScopeFacts DEF ScopesOf, Makers

LEMMA ShippedIsSound ==
    ASSUME NEW ix, Sound(ix), NEW e, e.position \in Positions, e.block \in Nat,
           e.position \in Ours, e.position \notin ix.known,
           NEW jx, jx = HandleShipped(ix, e)
    PROVE  Sound(jx)
  <1> DEFINE p == e.position
  <1>1. PICK Prices : Shaped(ix, Prices)
    BY DEF Sound, Shape
  <1>2. ix.count \in [Scopes -> Deltas]
    BY CountsAreDeltas DEF Sound
  <1>3. /\ Shaped(jx, Prices) /\ Touches(ix, jx, p)
        /\ jx.known = ix.known \cup {p}
        /\ jx.position[p].active = ix.position[p].active
        /\ jx.position[p].runtimeVersion = ix.position[p].runtimeVersion
        /\ jx.fills = ix.fills
        /\ Moves(ix.count, jx.count, ScopesOf(p), Shipping)
    <2>1. Shaped(jx, Prices) /\ Touches(ix, jx, p) /\ Ships(ix, jx, p)
      BY <1>1, ShippedEffect
    <2> QED
      BY <1>2, <2>1 DEF Ships
  <1>4. /\ Shipping \in Deltas /\ Shipping.positions = 1 /\ Shipping.active = 1
        /\ \A c \in Counters \ {"positions", "active"} : Shipping[c] = 0
    BY ShipDelta
  <1>5. Shape(jx)
    BY <1>3 DEF Shape
  <1>6. jx.count \in [Scopes -> Counts]
    <2>1. \A c \in Counters : Shipping[c] \in Nat
      BY <1>4
    <2> QED
      BY <1>3, <1>4, <2>1, MoreCounts DEF Sound
  <1>7. AddsUp(jx.count)
    <2>1. \A c \in DayCounters : Shipping[c] = 0
      BY <1>4, GroupCounters DEF DayCounters
    <2> QED
      BY <1>2, <1>3, <1>4, <2>1, PositionBalance DEF Sound
  <1>8. \A q \in Positions : /\ jx.position[q].active = ix.position[q].active
                             /\ jx.position[q].runtimeVersion = ix.position[q].runtimeVersion
    BY <1>3 DEF Touches
  <1>9. ActiveAdds(jx)
    <2>1. ix.position[p].active
      BY DEF Sound
    <2>2. Listed(jx) = Listed(ix) \cup {p} /\ p \notin Listed(ix)
      <3>1. ix.known \subseteq Positions /\ p \notin ix.known
        BY KnownFinite DEF Sound
      <3> QED
        BY <1>3, <1>8, <2>1, <3>1 DEF Listed
    <2>3. /\ IsFiniteSet(Listed(ix)) /\ Cardinality(Listed(ix)) \in Nat
          /\ \A m : IsFiniteSet(ListedOf(ix, m)) /\ Cardinality(ListedOf(ix, m)) \in Nat
      BY KnownFinite DEF Sound
    <2>4. Cardinality(Listed(jx)) = Cardinality(Listed(ix)) + 1
      BY <2>2, <2>3, FS_AddElement
    <2>5. ASSUME NEW m \in Makers
          PROVE  Cardinality(ListedOf(jx, m))
                   = Cardinality(ListedOf(ix, m)) + (IF m = Config[p].maker THEN 1 ELSE 0)
      <3>1. CASE m = Config[p].maker
        <4>1. ListedOf(jx, m) = ListedOf(ix, m) \cup {p} /\ p \notin ListedOf(ix, m)
          BY <2>2, <3>1 DEF ListedOf
        <4> QED
          BY <2>3, <3>1, <4>1, FS_AddElement
      <3>2. CASE m # Config[p].maker
        <4>1. ListedOf(jx, m) = ListedOf(ix, m)
          BY <2>2, <3>2 DEF ListedOf
        <4> QED
          BY <2>3, <3>2, <4>1
      <3> QED
        BY <3>1, <3>2
    <2>6. "active" \in Counters
      BY CounterNames
    <2>7. jx.count[<<"market">>].active = ix.count[<<"market">>].active + 1
      BY <1>3, <1>4, <2>6, ScopesOfFacts, ScopeFacts DEF Moves
    <2>8. \A m \in Makers :
            jx.count[<<"maker", m>>].active
              = ix.count[<<"maker", m>>].active + (IF m = Config[p].maker THEN 1 ELSE 0)
      <3> TAKE m \in Makers
      <3>1. <<"maker", m>> \in Scopes
        BY ScopeFacts
      <3>2. <<"maker", m>> \in ScopesOf(p) <=> m = Config[p].maker
        BY ScopesOfFacts
      <3> QED
        BY <1>3, <1>4, <2>6, <3>1, <3>2 DEF Moves
    <2> QED
      BY <2>4, <2>5, <2>7, <2>8 DEF ActiveAdds, Sound
  <1>10. FillsAdd(jx)
    BY <1>3, <1>8 DEF Sound, FillsAdd, FillsOf
  <1>11. \A q \in Positions \ jx.known : jx.position[q].active
    BY <1>3, <1>8 DEF Sound
  <1> QED
    BY <1>5, <1>6, <1>7, <1>9, <1>10, <1>11 DEF Sound

LEMMA DockedIsSound ==
    ASSUME NEW ix, Sound(ix), NEW e, e.position \in Positions, e.block \in Nat,
           e.position \in ix.known, ix.position[e.position].active,
           NEW jx, jx = HandleDocked(ix, e)
    PROVE  Sound(jx)
  <1> DEFINE p == e.position
  <1>1. PICK Prices : Shaped(ix, Prices)
    BY DEF Sound, Shape
  <1>2. ix.count \in [Scopes -> Deltas]
    BY CountsAreDeltas DEF Sound
  <1>3. /\ Shaped(jx, Prices) /\ Touches(ix, jx, p)
        /\ jx.known = ix.known
        /\ ~jx.position[p].active
        /\ jx.position[p].runtimeVersion = ix.position[p].runtimeVersion
        /\ jx.fills = ix.fills
        /\ Moves(ix.count, jx.count, ScopesOf(p), Docking)
    BY <1>1, <1>2, DockedEffect
  <1>4. /\ Docking \in Deltas /\ Docking.active = -1
        /\ \A c \in Counters \ {"active"} : Docking[c] = 0
    BY DockDelta
  <1>5. Shape(jx)
    BY <1>3 DEF Shape
  <1>6. AddsUp(jx.count)
    <2>1. \A c \in DayCounters : Docking[c] = 0
      BY <1>4, GroupCounters DEF DayCounters
    <2> QED
      BY <1>2, <1>3, <1>4, <2>1, PositionBalance DEF Sound
  <1>7. \A q \in Positions : jx.position[q].runtimeVersion = ix.position[q].runtimeVersion
    BY <1>3 DEF Touches
  <1>8. /\ Listed(jx) = Listed(ix) \ {p} /\ p \in Listed(ix)
        /\ p \in ListedOf(ix, Config[p].maker)
    <2>1. ix.known \subseteq Positions
      BY KnownFinite DEF Sound
    <2>2. \A q \in Positions \ {p} : jx.position[q].active = ix.position[q].active
      BY <1>3 DEF Touches
    <2> QED
      BY <1>3, <2>1, <2>2 DEF Listed, ListedOf
  <1>9. /\ IsFiniteSet(Listed(ix)) /\ Cardinality(Listed(ix)) \in Nat
        /\ \A m : IsFiniteSet(ListedOf(ix, m)) /\ Cardinality(ListedOf(ix, m)) \in Nat
        /\ IsFiniteSet(Listed(jx)) /\ Cardinality(Listed(jx)) \in Nat
        /\ \A m : IsFiniteSet(ListedOf(jx, m)) /\ Cardinality(ListedOf(jx, m)) \in Nat
    BY <1>5, KnownFinite DEF Sound
  <1>10. Cardinality(Listed(jx)) = Cardinality(Listed(ix)) - 1
    BY <1>8, <1>9, FS_RemoveElement
  <1>11. ASSUME NEW m \in Makers
         PROVE  Cardinality(ListedOf(jx, m))
                  = Cardinality(ListedOf(ix, m)) + (IF m = Config[p].maker THEN -1 ELSE 0)
    <2>1. CASE m = Config[p].maker
      <3>1. ListedOf(jx, m) = ListedOf(ix, m) \ {p} /\ p \in ListedOf(ix, m)
        BY <1>8, <2>1 DEF ListedOf
      <3>2. IsFiniteSet(ListedOf(ix, m)) /\ Cardinality(ListedOf(ix, m)) \in Nat
        BY <1>9
      <3>3. Cardinality(ListedOf(ix, m) \ {p}) = Cardinality(ListedOf(ix, m)) - 1
        BY ONLY <3>1, <3>2, FS_RemoveElement
      <3> QED
        BY <2>1, <3>1, <3>2, <3>3
    <2>2. CASE m # Config[p].maker
      <3>1. ListedOf(jx, m) = ListedOf(ix, m)
        BY <1>8, <2>2 DEF ListedOf
      <3> QED
        BY <1>9, <2>2, <3>1
    <2> QED
      BY <2>1, <2>2
  <1>12. "active" \in Counters
    BY CounterNames
  <1>13. jx.count[<<"market">>].active = ix.count[<<"market">>].active - 1
    <2>1. ix.count[<<"market">>].active \in Int
      BY <1>2, <1>12, ScopeFacts DEF Deltas
    <2> QED
      BY <1>3, <1>4, <1>12, <2>1, ScopesOfFacts, ScopeFacts DEF Moves
  <1>14. \A m \in Makers :
           jx.count[<<"maker", m>>].active
             = ix.count[<<"maker", m>>].active + (IF m = Config[p].maker THEN -1 ELSE 0)
    <2> TAKE m \in Makers
    <2>1. <<"maker", m>> \in Scopes
      BY ScopeFacts
    <2>2. <<"maker", m>> \in ScopesOf(p) <=> m = Config[p].maker
      BY ScopesOfFacts
    <2> QED
      BY <1>3, <1>4, <1>12, <2>1, <2>2 DEF Moves
  <1>15. ActiveAdds(jx)
    BY <1>9, <1>10, <1>11, <1>13, <1>14 DEF ActiveAdds, Sound
  <1>16. jx.count \in [Scopes -> Counts]
    <2>1. jx.count \in [Scopes -> Deltas]
      BY <1>3 DEF Moves
    <2>2. ASSUME NEW scope \in Scopes, NEW c \in Counters
          PROVE  jx.count[scope][c] \in Nat
      <3>1. /\ jx.count[scope][c] = ix.count[scope][c] + (IF scope \in ScopesOf(p) THEN Docking[c] ELSE 0)
            /\ ix.count[scope][c] \in Nat
        BY <1>3, CountsAreDeltas DEF Moves, Sound
      <3>2. CASE c = "active" /\ scope \in ScopesOf(p)
        <4>1. jx.count[<<"market">>].active \in Nat
          BY <1>9, <1>15 DEF ActiveAdds
        <4>2. jx.count[<<"protocol">>].active \in Nat
          BY <1>6, <4>1 DEF AddsUp, ProtocolCounters
        <4>3. jx.count[<<"maker", Config[p].maker>>].active \in Nat
          BY <1>9, <1>15, ScopesOfFacts DEF ActiveAdds
        <4> QED
          BY <3>2, <4>1, <4>2, <4>3, ScopesOfFacts
      <3>3. CASE ~(c = "active" /\ scope \in ScopesOf(p))
        BY <1>4, <3>1, <3>3
      <3> QED
        BY <3>2, <3>3
    <2> QED
      BY <2>1, <2>2, NaturalCounts
  <1>17. FillsAdd(jx)
    BY <1>3, <1>7 DEF Sound, FillsAdd, FillsOf
  <1>18. \A q \in Positions \ jx.known : jx.position[q].active
    BY <1>3 DEF Sound, Touches
  <1> QED
    BY <1>5, <1>6, <1>15, <1>16, <1>17, <1>18 DEF Sound

LEMMA FilledIsSound ==
    ASSUME NEW ix, Sound(ix), NEW e, GoodFill(ix, e), e.block \in Nat,
           e.position \in ix.known, NEW jx, jx = HandleCurveFilled(ix, e)
    PROVE  Sound(jx)
  <1> DEFINE p == e.position
             volume == Volume(e)
             S == {<<"market">>, <<"maker", Config[p].maker>>, <<"day", e.day>>}
             fill == FillRecord(e)
  <1>1. PICK Prices : Shaped(ix, Prices)
    BY DEF Sound, Shape
  <1>2. ix.count \in [Scopes -> Deltas]
    BY CountsAreDeltas DEF Sound
  <1>3. /\ p \in Positions /\ e.runtime \in Runtimes /\ e.side \in Sides
        /\ e.amountIn \in Nat /\ e.amountOut \in Nat /\ e.day \in 0 .. MaxDay
        /\ e.runtime.version = ix.position[p].runtimeVersion + 1
    BY DEF GoodFill
  <1>4. /\ Shaped(jx, Prices \cup {e.price}) /\ Touches(ix, jx, p)
        /\ jx.known = ix.known
        /\ jx.position[p].active = ix.position[p].active
        /\ jx.position[p].runtimeVersion = e.runtime.version
        /\ jx.fills = ix.fills \cup {fill}
        /\ CountsFill(ix.count, jx.count, e)
    <2>1. Shaped(jx, Prices \cup {e.price}) /\ Touches(ix, jx, p) /\ FillsIn(ix, jx, e)
      BY <1>1, <1>3, FilledEffect
    <2> QED
      BY <1>2, <2>1 DEF FillsIn
  <1>5. /\ volume \in Deltas /\ volume.positions = 0 /\ volume.active = 0
        /\ volume.fills = 1 /\ volume.routes = 0
        /\ volume.base \in Nat /\ volume.quote \in Nat
    BY <1>3, VolumeDelta
  <1>6. Filling \in Deltas /\ Filling.fills = 1 /\ \A c \in Counters \ {"fills"} : Filling[c] = 0
    BY FillDelta
  <1>7. fill.position = p /\ fill.version = e.runtime.version
    BY DEF FillRecord
  <1> HIDE DEF volume, fill
  <1>8. PICK between : /\ Moves(ix.count, between, S, volume)
                       /\ Moves(between, jx.count, {<<"protocol">>}, Filling)
    BY <1>4 DEF CountsFill, volume
  <1>9. AddsUp(jx.count)
    BY <1>2, <1>3, <1>5, <1>6, <1>8, FillBalance DEF Sound
  <1> HIDE DEF S
  <1>10. jx.count \in [Scopes -> Counts]
    <2>1. \A c \in Counters : volume[c] \in Nat /\ Filling[c] \in Nat
      BY <1>5, <1>6, CounterNames
    <2>2. between \in [Scopes -> Counts]
      BY <1>5, <1>8, <2>1, MoreCounts DEF Sound
    <2> QED
      BY <1>6, <1>8, <2>1, <2>2, MoreCounts
  <1>11. \A q \in Positions : jx.position[q].active = ix.position[q].active
    BY <1>4 DEF Touches
  <1>12. Listed(jx) = Listed(ix)
    <2>1. ix.known \subseteq Positions
      BY KnownFinite DEF Sound
    <2> QED
      BY <1>4, <1>11, <2>1 DEF Listed
  <1>13. ActiveAdds(jx)
    <2>1. "active" \in Counters
      BY CounterNames
    <2>2. ASSUME NEW scope \in Scopes
          PROVE  jx.count[scope].active = ix.count[scope].active
      <3>1. ix.count[scope].active \in Int
        BY <1>2, <2>1 DEF Deltas
      <3>2. /\ between[scope].active = ix.count[scope].active + 0
            /\ jx.count[scope].active = between[scope].active + 0
        BY <1>5, <1>6, <1>8, <2>1 DEF Moves
      <3> QED
        BY <3>1, <3>2
    <2>3. \A m \in Makers : ListedOf(jx, m) = ListedOf(ix, m)
      BY <1>12 DEF ListedOf
    <2> QED
      BY <1>12, <2>2, <2>3, ScopeFacts DEF ActiveAdds, Sound
  <1>14. FillsAdd(jx)
    <2>1. IsFiniteSet(jx.fills)
      BY <1>4, FS_AddElement DEF Sound, FillsAdd
    <2>2. ASSUME NEW q \in Positions, q # p
          PROVE  FillsOf(jx, q) = FillsOf(ix, q) /\ jx.position[q] = ix.position[q]
      BY <1>4, <1>7, <2>2 DEF FillsOf, Touches
    <2>3. /\ ix.position[p].runtimeVersion = Cardinality(FillsOf(ix, p))
          /\ \A f \in FillsOf(ix, p) :
                f.version \in Nat /\ f.version <= ix.position[p].runtimeVersion
      BY <1>3 DEF Sound, FillsAdd
    <2>4. IsFiniteSet(FillsOf(ix, p)) /\ Cardinality(FillsOf(ix, p)) \in Nat
      <3>1. FillsOf(ix, p) \subseteq ix.fills
        BY DEF FillsOf
      <3> QED
        BY <3>1, FS_Subset, FS_CardinalityType DEF Sound, FillsAdd
    <2>5. FillsOf(jx, p) = FillsOf(ix, p) \cup {fill} /\ fill \notin FillsOf(ix, p)
      <3>1. FillsOf(jx, p) = FillsOf(ix, p) \cup {fill}
        BY <1>4, <1>7 DEF FillsOf
      <3>2. ~(fill.version <= ix.position[p].runtimeVersion)
        BY <1>3, <1>7, <2>3, <2>4
      <3> QED
        BY <2>3, <3>1, <3>2
    <2>6. jx.position[p].runtimeVersion = Cardinality(FillsOf(jx, p))
      <3>1. Cardinality(FillsOf(jx, p)) = Cardinality(FillsOf(ix, p)) + 1
        BY <2>4, <2>5, FS_AddElement
      <3> QED
        BY <1>3, <1>4, <2>3, <3>1
    <2>7. \A f \in FillsOf(jx, p) :
             f.version \in Nat /\ f.version <= jx.position[p].runtimeVersion
      BY <1>3, <1>4, <1>7, <2>3, <2>4, <2>5
    <2>8. \A q \in Positions :
            /\ jx.position[q].runtimeVersion = Cardinality(FillsOf(jx, q))
            /\ \A f \in FillsOf(jx, q) :
                 f.version \in Nat /\ f.version <= jx.position[q].runtimeVersion
      <3> TAKE q \in Positions
      <3>1. CASE q = p
        BY <2>6, <2>7, <3>1
      <3>2. CASE q # p
        BY <2>2, <3>2 DEF Sound, FillsAdd
      <3> QED
        BY <3>1, <3>2
    <2> QED
      BY <2>1, <2>8 DEF FillsAdd
  <1>15. Shape(jx)
    BY <1>4 DEF Shape
  <1>16. \A q \in Positions \ jx.known : jx.position[q].active
    BY <1>4, <1>11 DEF Sound
  <1> QED
    BY <1>9, <1>10, <1>13, <1>14, <1>15, <1>16 DEF Sound

LEMMA RouteEffect ==
    ASSUME NEW ix, NEW Prices, Shaped(ix, Prices), NEW e,
           NEW jx, jx = HandleRouteExecuted(ix, e)
    PROVE  /\ Shaped(jx, Prices)
           /\ jx.known = ix.known /\ jx.position = ix.position /\ jx.side = ix.side
           /\ jx.fills = ix.fills
           /\ ix.count \in [Scopes -> Deltas] =>
                \/ jx.count = ix.count
                \/ Moves(ix.count, jx.count, {<<"protocol">>, <<"market">>, <<"day", e.day>>},
                         Routing)
  <1> DEFINE route == [id |-> e.route, fillCount |-> e.fillCount, block |-> e.block]
             kx == [ix EXCEPT !.routes = @ \cup {route}]
             S == {<<"protocol">>, <<"market">>, <<"day", e.day>>}
  <1>1. CASE \E r \in ix.routes : r.id = e.route
    BY <1>1 DEF HandleRouteExecuted
  <1>2. CASE ~(\E r \in ix.routes : r.id = e.route)
    <2>1. jx = Count(kx, S, Routing)
      BY <1>2 DEF HandleRouteExecuted, Routing
    <2>2. /\ kx.known = ix.known /\ kx.position = ix.position /\ kx.side = ix.side
          /\ kx.fills = ix.fills /\ kx.count = ix.count
          /\ Shaped(kx, Prices)
      <3> DEFINE routes == ix.routes \cup {route}
      <3>1. kx = [ix EXCEPT !.routes = routes]
        BY DEF Shaped
      <3> HIDE DEF routes, kx
      <3> QED
        BY <3>1 DEF Shaped
    <2> HIDE DEF kx, S
    <2>3. Routing \in Deltas
      BY RouteDelta
    <2>4. /\ Shaped(jx, Prices)
          /\ jx.known = kx.known /\ jx.position = kx.position /\ jx.side = kx.side
          /\ jx.fills = kx.fills
          /\ kx.count \in [Scopes -> Deltas] => Moves(kx.count, jx.count, S, Routing)
      BY <2>1, <2>2, <2>3, CountEffect
    <2> QED
      BY <2>2, <2>4 DEF S
  <1> QED
    BY <1>1, <1>2

LEMMA RouteIsSound ==
    ASSUME NEW ix, Sound(ix), NEW e, e.day \in 0 .. MaxDay,
           NEW jx, jx = HandleRouteExecuted(ix, e)
    PROVE  Sound(jx)
  <1> DEFINE S == {<<"protocol">>, <<"market">>, <<"day", e.day>>}
  <1>1. PICK Prices : Shaped(ix, Prices)
    BY DEF Sound, Shape
  <1>2. ix.count \in [Scopes -> Deltas]
    BY CountsAreDeltas DEF Sound
  <1>3. /\ Shaped(jx, Prices)
        /\ jx.known = ix.known /\ jx.position = ix.position /\ jx.side = ix.side
        /\ jx.fills = ix.fills
        /\ jx.count = ix.count \/ Moves(ix.count, jx.count, S, Routing)
    BY ZenonT(40), <1>1, <1>2, RouteEffect
  <1>4. Routing \in Deltas /\ Routing.routes = 1 /\ \A c \in Counters \ {"routes"} : Routing[c] = 0
    BY RouteDelta
  <1>5. Listed(jx) = Listed(ix) /\ \A m : ListedOf(jx, m) = ListedOf(ix, m)
    BY <1>3 DEF Listed, ListedOf
  <1>6. AddsUp(jx.count) /\ jx.count \in [Scopes -> Counts]
    <2>1. CASE jx.count = ix.count
      BY <2>1 DEF Sound
    <2>2. CASE Moves(ix.count, jx.count, S, Routing)
      <3>1. AddsUp(jx.count)
        BY <1>2, <1>4, <2>2, RouteBalance DEF Sound
      <3>2. \A c \in Counters : Routing[c] \in Nat
        BY <1>4
      <3> HIDE DEF S
      <3> QED
        BY <1>4, <2>2, <3>1, <3>2, MoreCounts DEF Sound
    <2> QED
      BY <1>3, <2>1, <2>2
  <1>7. ActiveAdds(jx)
    <2>1. "active" \in Counters
      BY CounterNames
    <2>2. \A scope \in Scopes : jx.count[scope].active = ix.count[scope].active
      <3> TAKE scope \in Scopes
      <3>1. ix.count[scope].active \in Int
        BY <1>2, <2>1 DEF Deltas
      <3>2. Moves(ix.count, jx.count, S, Routing) =>
              jx.count[scope].active = ix.count[scope].active + 0
        BY <1>4, <2>1 DEF Moves
      <3> QED
        BY <1>3, <3>1, <3>2
    <2> QED
      BY <1>5, <2>2, ScopeFacts DEF ActiveAdds, Sound
  <1>8. FillsAdd(jx)
    BY <1>3 DEF Sound, FillsAdd, FillsOf
  <1>9. Shape(jx) /\ \A q \in Positions \ jx.known : jx.position[q].active
    BY <1>3 DEF Shape, Sound
  <1> QED
    BY <1>6, <1>7, <1>8, <1>9 DEF Sound
LEMMA TransferIsSound ==
    ASSUME NEW ix, Sound(ix), NEW e, e.position \in Positions, e.amount \in Nat, e.block \in Nat,
           NEW increase \in BOOLEAN, NEW jx, jx = ApplyAllocation(ix, e, increase)
    PROVE  Sound(jx)
  <1> DEFINE p == e.position
  <1>1. PICK Prices : Shaped(ix, Prices)
    BY DEF Sound, Shape
  <1>2. CASE p \in ix.known /\ e.token = Config[p].base
    <2>1. /\ Shaped(jx, Prices) /\ Quiet(ix, jx, p)
          /\ jx.position[p].runtimeVersion = ix.position[p].runtimeVersion
      BY <1>1, <1>2, BookedBase
    <2>2. Shape(jx)
      BY <2>1 DEF Shape
    <2> QED
      BY <2>1, <2>2, QuietIsSound
  <1>3. CASE p \in ix.known /\ e.token = Config[p].quote
    <2>1. /\ Shaped(jx, Prices) /\ Quiet(ix, jx, p)
          /\ jx.position[p].runtimeVersion = ix.position[p].runtimeVersion
      BY <1>1, <1>3, BookedQuote
    <2>2. Shape(jx)
      BY <2>1 DEF Shape
    <2> QED
      BY <2>1, <2>2, QuietIsSound
  <1>4. CASE p \notin ix.known \/ e.token \notin {Config[p].base, Config[p].quote}
    <2>1. jx = ix
      BY <1>4 DEF ApplyAllocation
    <2> QED
      BY <2>1
  <1> QED
    BY <1>2, <1>3, <1>4

LEMMA RuntimeIsSound ==
    ASSUME NEW ix, Sound(ix), NEW e, GoodRuntime(ix, e), e.block \in Nat,
           NEW jx, jx = HandlePositionRuntimeInitialized(ix, e)
    PROVE  Sound(jx)
  <1> DEFINE p == e.position
  <1>1. PICK Prices : Shaped(ix, Prices)
    BY DEF Sound, Shape
  <1>2. CASE p \in ix.known
    <2>1. jx = WithRuntime(ix, e)
      BY <1>2 DEF HandlePositionRuntimeInitialized
    <2>2. /\ p \in Positions /\ e.runtime \in Runtimes
          /\ e.runtime.version = ix.position[p].runtimeVersion
      BY DEF GoodRuntime
    <2>3. /\ Shaped(jx, Prices) /\ Quiet(ix, jx, p)
          /\ jx.position[p].runtimeVersion = e.runtime.version
      BY <1>1, <2>1, <2>2, RuntimeBooked
    <2>4. Shape(jx)
      BY <2>3 DEF Shape
    <2> QED
      BY <2>2, <2>3, <2>4, QuietIsSound
  <1>3. CASE p \notin ix.known
    <2>1. jx = ix
      BY <1>3 DEF HandlePositionRuntimeInitialized
    <2> QED
      BY <2>1
  <1> QED
    BY <1>2, <1>3

LEMMA HandleIsSound ==
    ASSUME NEW ix, Sound(ix), NEW e, Good(ix, e), NEW jx, jx = Handle(ix, e)
    PROVE  Sound(jx)
  <1> DEFINE p == e.position
  <1>1. e.block \in Nat
    BY DEF Good
  <1>2. CASE GoodLifecycle(ix, e) /\ e.type = "Shipped"
    <2>1. jx = HandleShipped(ix, e) /\ p \in Positions
      BY <1>2 DEF Handle, GoodLifecycle
    <2>2. CASE p \notin Ours \/ p \in ix.known
      <3>1. jx = ix
        BY <2>1, <2>2 DEF HandleShipped
      <3> QED
        BY <3>1
    <2>3. CASE p \in Ours /\ p \notin ix.known
      BY <1>1, <2>1, <2>3, ShippedIsSound
    <2> QED
      BY <2>2, <2>3
  <1>3. CASE GoodLifecycle(ix, e) /\ e.type = "Docked"
    <2>1. jx = HandleDocked(ix, e) /\ p \in Positions
      BY <1>3 DEF Handle, GoodLifecycle
    <2>2. CASE p \notin ix.known \/ ~ix.position[p].active
      <3>1. jx = ix
        BY <2>1, <2>2 DEF HandleDocked
      <3> QED
        BY <3>1
    <2>3. CASE p \in ix.known /\ ix.position[p].active
      BY <1>1, <2>1, <2>3, DockedIsSound
    <2> QED
      BY <2>2, <2>3
  <1>4. CASE GoodTransfer(ix, e)
    <2>1. p \in Positions /\ e.amount \in Nat /\ e.type \in {"Pushed", "Pulled"}
      BY <1>4 DEF GoodTransfer
    <2>2. jx = ApplyAllocation(ix, e, TRUE) \/ jx = ApplyAllocation(ix, e, FALSE)
      BY <2>1 DEF Handle, HandlePushed, HandlePulled
    <2> QED
      BY <1>1, <2>1, <2>2, TransferIsSound
  <1>5. CASE GoodRuntime(ix, e)
    <2>1. jx = HandlePositionRuntimeInitialized(ix, e)
      BY <1>5 DEF Handle, GoodRuntime
    <2> QED
      BY <1>1, <1>5, <2>1, RuntimeIsSound
  <1>6. CASE GoodFill(ix, e)
    <2>1. jx = HandleCurveFilled(ix, e)
      BY <1>6 DEF Handle, GoodFill
    <2>2. CASE p \in ix.known
      BY <1>1, <1>6, <2>1, <2>2, FilledIsSound
    <2>3. CASE p \notin ix.known
      <3>1. jx = ix
        BY <2>1, <2>3 DEF HandleCurveFilled
      <3> QED
        BY <3>1
    <2> QED
      BY <2>2, <2>3
  <1>7. CASE GoodRoute(ix, e)
    <2>1. jx = HandleRouteExecuted(ix, e) /\ e.day \in 0 .. MaxDay
      BY <1>7 DEF Handle, GoodRoute
    <2> QED
      BY <2>1, RouteIsSound
  <1> QED
    BY <1>2, <1>3, <1>4, <1>5, <1>6, <1>7 DEF Good, GoodLifecycle
-----------------------------------------------------------------------------
(* The events that have not been handled yet lead the index to the chain.   *)

\* Handling events leads from ix to jx, and each is as the chain emits it.
Runs(run, ix, events, jx) ==
    /\ run[0] = ix /\ run[Len(events)] = jx
    /\ \A k \in 1 .. Len(events) :
         Good(run[k - 1], events[k]) /\ run[k] = Handle(run[k - 1], events[k])

Leads(ix, events, jx) == \E run : Runs(run, ix, events, jx)

LEMMA ConcatFacts ==
    ASSUME NEW S, NEW first \in Seq(S), NEW second \in Seq(S)
    PROVE  /\ first \o second \in Seq(S) /\ Len(first) \in Nat /\ Len(second) \in Nat
           /\ Len(first \o second) = Len(first) + Len(second)
  OBVIOUS

LEMMA LeadsNone ==
    ASSUME NEW ix
    PROVE  Leads(ix, <<>>, ix)
  <1> DEFINE run == [k \in {0} |-> ix]
  <1>1. Runs(run, ix, <<>>, ix)
    BY DEF Runs
  <1> QED
    BY <1>1 DEF Leads

LEMMA LeadsOne ==
    ASSUME NEW ix, NEW e, Good(ix, e)
    PROVE  Leads(ix, <<e>>, Handle(ix, e))
  <1> DEFINE run == [k \in 0 .. 1 |-> IF k = 0 THEN ix ELSE Handle(ix, e)]
  <1>1. run[0] = ix /\ run[1] = Handle(ix, e)
    OBVIOUS
  <1> HIDE DEF run
  <1>2. Runs(run, ix, <<e>>, Handle(ix, e))
    BY <1>1 DEF Runs
  <1> QED
    BY <1>2 DEF Leads

LEMMA LeadsThrough ==
    ASSUME NEW S, NEW first \in Seq(S), NEW second \in Seq(S), NEW ix, NEW jx, NEW kx,
           Leads(ix, first, jx), Leads(jx, second, kx)
    PROVE  Leads(ix, first \o second, kx)
  <1> DEFINE m == Len(first)
             n == Len(second)
  <1>1. PICK f : Runs(f, ix, first, jx)
    BY DEF Leads
  <1>2. PICK g : Runs(g, jx, second, kx)
    BY DEF Leads
  <1> DEFINE run == [k \in 0 .. m + n |-> IF k <= m THEN f[k] ELSE g[k - m]]
  <1>3. /\ m \in Nat /\ n \in Nat /\ Len(first \o second) = m + n
        /\ \A k \in 1 .. m : (first \o second)[k] = first[k]
        /\ \A k \in m + 1 .. m + n : (first \o second)[k] = second[k - m]
    OBVIOUS
  <1>4. /\ f[0] = ix /\ f[m] = jx /\ g[0] = jx /\ g[n] = kx
        /\ \A k \in 1 .. m : Good(f[k - 1], first[k]) /\ f[k] = Handle(f[k - 1], first[k])
        /\ \A k \in 1 .. n : Good(g[k - 1], second[k]) /\ g[k] = Handle(g[k - 1], second[k])
    BY <1>1, <1>2 DEF Runs
  <1> HIDE DEF m, n
  <1>5. /\ \A k \in 0 .. m : run[k] = f[k]
        /\ \A k \in m .. m + n : run[k] = g[k - m]
    <2>1. \A k \in 0 .. m + n : run[k] = IF k <= m THEN f[k] ELSE g[k - m]
      OBVIOUS
    <2> HIDE DEF run
    <2>2. \A k \in 0 .. m : run[k] = f[k]
      BY <1>3, <2>1
    <2>3. ASSUME NEW k \in m .. m + n
          PROVE  run[k] = g[k - m]
      <3>1. k \in 0 .. m + n /\ (k = m \/ ~(k <= m))
        BY <1>3
      <3>2. CASE k = m
        <4>1. k <= m /\ k - m = 0
          BY <1>3, <3>2
        <4> QED
          BY <1>4, <2>1, <3>1, <3>2, <4>1
      <3> QED
        BY <2>1, <3>1, <3>2
    <2> QED
      BY <2>2, <2>3
  <1> HIDE DEF run
  <1>6. ASSUME NEW k \in 1 .. m + n
        PROVE  /\ Good(run[k - 1], (first \o second)[k])
               /\ run[k] = Handle(run[k - 1], (first \o second)[k])
    <2>1. CASE k <= m
      <3>1. k \in 1 .. m /\ k - 1 \in 0 .. m /\ k \in 0 .. m
        BY <1>3, <2>1
      <3> QED
        BY <1>3, <1>4, <1>5, <3>1
    <2>2. CASE k > m
      <3>1. /\ k \in m + 1 .. m + n /\ k - 1 \in m .. m + n /\ k \in m .. m + n
            /\ k - m \in 1 .. n /\ (k - 1) - m = (k - m) - 1
        BY <1>3, <2>2
      <3> QED
        BY <1>3, <1>4, <1>5, <3>1
    <2> QED
      BY <1>3, <2>1, <2>2
  <1>7. run[0] = ix /\ run[m + n] = kx
    <2>1. 0 \in 0 .. m /\ m + n \in m .. m + n /\ (m + n) - m = n
      BY <1>3
    <2> QED
      BY <1>4, <1>5, <2>1
  <1>8. Runs(run, ix, first \o second, kx)
    BY <1>3, <1>6, <1>7 DEF Runs
  <1> QED
    BY <1>8 DEF Leads

\* The first event is handled: the rest leads on.
LEMMA LeadsOn ==
    ASSUME NEW S, NEW events \in Seq(S), events # <<>>, NEW ix, NEW jx, Leads(ix, events, jx)
    PROVE  /\ Good(ix, Head(events))
           /\ Leads(Handle(ix, Head(events)), Tail(events), jx)
           /\ Len(events) = 1 => jx = Handle(ix, Head(events))
  <1> DEFINE n == Len(events)
  <1>1. PICK run : Runs(run, ix, events, jx)
    BY DEF Leads
  <1>2. /\ n \in Nat /\ n >= 1 /\ Head(events) = events[1] /\ Len(Tail(events)) = n - 1
        /\ \A k \in 1 .. n - 1 : Tail(events)[k] = events[k + 1]
    OBVIOUS
  <1>3. /\ run[0] = ix /\ run[n] = jx
        /\ \A k \in 1 .. n : Good(run[k - 1], events[k]) /\ run[k] = Handle(run[k - 1], events[k])
    BY <1>1 DEF Runs
  <1> HIDE DEF n
  <1>4. Good(ix, events[1]) /\ run[1] = Handle(ix, events[1])
    <2>1. 1 \in 1 .. n /\ 1 - 1 = 0
      BY <1>2
    <2> QED
      BY <1>3, <2>1
  <1> DEFINE next == [k \in 0 .. n - 1 |-> run[k + 1]]
  <1>5. \A k \in 0 .. n - 1 : next[k] = run[k + 1]
    OBVIOUS
  <1> HIDE DEF next
  <1>6. ASSUME NEW k \in 1 .. n - 1
        PROVE  /\ Good(next[k - 1], Tail(events)[k])
               /\ next[k] = Handle(next[k - 1], Tail(events)[k])
    <2>1. k + 1 \in 1 .. n /\ (k + 1) - 1 = k /\ (k - 1) + 1 = k /\ k - 1 \in 0 .. n - 1
          /\ k \in 0 .. n - 1
      BY <1>2
    <2>2. Good(run[k], events[k + 1]) /\ run[k + 1] = Handle(run[k], events[k + 1])
      BY <1>3, <2>1
    <2>3. next[k - 1] = run[k] /\ next[k] = run[k + 1] /\ Tail(events)[k] = events[k + 1]
      BY <1>2, <1>5, <2>1
    <2> QED
      BY <2>2, <2>3
  <1>7. next[0] = run[1] /\ next[n - 1] = run[n]
    <2>1. 0 \in 0 .. n - 1 /\ n - 1 \in 0 .. n - 1 /\ 0 + 1 = 1 /\ (n - 1) + 1 = n
      BY <1>2
    <2> QED
      BY <1>5, <2>1
  <1>8. Runs(next, run[1], Tail(events), jx)
    BY <1>2, <1>3, <1>6, <1>7 DEF Runs
  <1> QED
    BY <1>2, <1>3, <1>4, <1>8 DEF Leads
LEMMA LeadsThrice ==
    ASSUME NEW ix, NEW d, NEW e, NEW f, NEW jx, NEW kx,
           Good(ix, d), jx = Handle(ix, d), Good(jx, e), kx = Handle(jx, e), Good(kx, f)
    PROVE  Leads(ix, <<d, e, f>>, Handle(kx, f))
  <1> DEFINE run == [k \in 0 .. 3 |-> IF k = 0 THEN ix ELSE IF k = 1 THEN jx
                                      ELSE IF k = 2 THEN kx ELSE Handle(kx, f)]
             events == <<d, e, f>>
  <1>1. run[0] = ix /\ run[1] = jx /\ run[2] = kx /\ run[3] = Handle(kx, f)
    OBVIOUS
  <1>2. Len(events) = 3 /\ events[1] = d /\ events[2] = e /\ events[3] = f
    OBVIOUS
  <1> HIDE DEF run, events
  <1>3. ASSUME NEW k \in 1 .. 3
        PROVE  Good(run[k - 1], events[k]) /\ run[k] = Handle(run[k - 1], events[k])
    <2>1. \/ k = 1 /\ k - 1 = 0
          \/ k = 2 /\ k - 1 = 1
          \/ k = 3 /\ k - 1 = 2
      OBVIOUS
    <2> QED
      BY <1>1, <1>2, <2>1
  <1>4. Runs(run, ix, events, Handle(kx, f))
    BY <1>1, <1>2, <1>3 DEF Runs
  <1> QED
    BY <1>4 DEF Leads, events
-----------------------------------------------------------------------------
(* What an index shows of a position of the chain.                          *)

ChainStates ==
    [lifecycle : {"Unknown", "Active", "Docked"}, stored : Runtimes, allocation : [Tokens -> Nat]]

Sees(ix, p, initialized, runtime, allocation) ==
    Shows(ix, p, initialized, runtime, allocation[Config[p].base], allocation[Config[p].quote])

SeesActive(ix, state, p) ==
    Sees(ix, p, state.stored.initialized, Resolve(Config[p], state.stored), state.allocation)

SeesDocked(ix, state, p) ==
    Gone(ix, p, state.stored.initialized, Resolve(Config[p], state.stored))

Fresh(ix, p) ==
    p \notin ix.known /\ ix.position[p] = NewPosition /\ ix.side[p] = NewSides(p)

Follow(ix, state, p) ==
    \/ (p \notin Ours \/ state.lifecycle = "Unknown") /\ Fresh(ix, p)
    \/ p \in Ours /\ state.lifecycle = "Active" /\ SeesActive(ix, state, p)
    \/ p \in Ours /\ state.lifecycle = "Docked" /\ SeesDocked(ix, state, p)

\* The index that has handled every event of the chain.
Mirror(ix, ch) == Shape(ix) /\ \A p \in Positions : Follow(ix, ch[p], p)

LEMMA OtherFollows ==
    ASSUME NEW ix, NEW jx, NEW p \in Positions, NEW q \in Positions \ {p}, Touches(ix, jx, p),
           NEW state, Follow(ix, state, q)
    PROVE  Follow(jx, state, q)
  <1>1. /\ q \in jx.known <=> q \in ix.known
        /\ jx.position[q] = ix.position[q] /\ jx.side[q] = ix.side[q]
    BY DEF Touches
  <1>2. CASE Fresh(ix, q)
    BY <1>1, <1>2 DEF Follow, Fresh, SeesActive, SeesDocked, Sees, Shows, Gone
  <1>3. CASE p \in Positions /\ ~Fresh(ix, q) /\ state.lifecycle = "Active"
    BY <1>1, <1>3 DEF Follow, SeesActive, Sees, Shows
  <1>4. CASE p \in Positions /\ ~Fresh(ix, q) /\ state.lifecycle = "Docked"
    BY <1>1, <1>4 DEF Follow, SeesDocked, Gone
  <1> QED
    BY <1>2, <1>3, <1>4 DEF Follow

LEMMA ShippedEvent ==
    ASSUME NEW ix, Shape(ix), NEW e, e.type = "Shipped", e.block \in Nat,
           e.position \in Positions, e.position \in Ours, Fresh(ix, e.position),
           NEW jx, jx = Handle(ix, e)
    PROVE  /\ Good(ix, e) /\ Shape(jx) /\ Touches(ix, jx, e.position)
           /\ Sees(jx, e.position, FALSE, Initial(Config[e.position]), [t \in Tokens |-> 0])
  <1> DEFINE p == e.position
  <1>1. PICK Prices : Shaped(ix, Prices)
    BY DEF Shape
  <1>2. jx = HandleShipped(ix, e)
    BY DEF Handle
  <1>3. Shaped(jx, Prices) /\ Touches(ix, jx, p) /\ Shows(jx, p, FALSE, Initial(Config[p]), 0, 0)
    BY <1>1, <1>2, ShippedEffect DEF Fresh
  <1>4. Good(ix, e)
    BY DEF Good, GoodLifecycle
  <1> QED
    BY <1>3, <1>4, ConfigFacts DEF Shape, Sees

Transferred(allocation, e) ==
    [allocation EXCEPT ![e.token] = IF e.type = "Pushed" THEN @ + e.amount ELSE @ - e.amount]

\* A transfer moves what the index shows of the allocation, when it is covered.
LEMMA TransferEvent ==
    ASSUME NEW ix, Shape(ix), NEW e, e.type \in {"Pushed", "Pulled"}, e.block \in Nat,
           e.position \in Positions, e.amount \in Nat,
           e.token \in {Config[e.position].base, Config[e.position].quote},
           NEW initialized, NEW runtime, NEW allocation \in [Tokens -> Nat],
           Sees(ix, e.position, initialized, runtime, allocation),
           e.type = "Pulled" => e.amount <= allocation[e.token],
           NEW jx, jx = Handle(ix, e)
    PROVE  /\ Good(ix, e) /\ Shape(jx) /\ Touches(ix, jx, e.position)
           /\ Sees(jx, e.position, initialized, runtime, Transferred(allocation, e))
  <1> DEFINE p == e.position
             increase == (e.type = "Pushed")
             base == allocation[Config[p].base]
             quote == allocation[Config[p].quote]
             after == Transferred(allocation, e)
  <1>1. PICK Prices : Shaped(ix, Prices)
    BY DEF Shape
  <1>2. jx = ApplyAllocation(ix, e, increase)
    BY DEF Handle, HandlePushed, HandlePulled
  <1>3. /\ Config[p].base \in Tokens /\ Config[p].quote \in Tokens
        /\ Config[p].base # Config[p].quote
        /\ base \in Nat /\ quote \in Nat
    BY ConfigFacts
  <1>4. /\ p \in ix.known
        /\ ix.position[p].baseAllocationRaw = base /\ ix.position[p].quoteAllocationRaw = quote
        /\ Shows(ix, p, initialized, runtime, base, quote)
    BY DEF Sees, Shows
  <1>5. Good(ix, e)
    BY <1>3, <1>4 DEF Good, GoodTransfer, Covered
  <1>6. CASE e.token = Config[p].base
    <2>1. after[Config[p].base] = UpdateAmount(base, e.amount, increase) /\ after[Config[p].quote] = quote
      BY <1>3, <1>6 DEF UpdateAmount, Transferred
    <2> HIDE DEF base, quote, after, increase
    <2>2. increase \in BOOLEAN
      BY DEF increase
    <2>3. /\ Shaped(jx, Prices) /\ Quiet(ix, jx, p)
          /\ Shows(jx, p, initialized, runtime, UpdateAmount(base, e.amount, increase), quote)
      BY <1>1, <1>2, <1>4, <1>6, <2>2, BookedBase
    <2>4. Shape(jx) /\ Touches(ix, jx, p)
      BY <2>3 DEF Shape, Quiet
    <2>5. Sees(jx, p, initialized, runtime, after)
      BY <2>1, <2>3 DEF Sees
    <2> QED
      BY <1>5, <2>4, <2>5 DEF after
  <1>7. CASE e.token = Config[p].quote
    <2>1. after[Config[p].quote] = UpdateAmount(quote, e.amount, increase) /\ after[Config[p].base] = base
      BY <1>3, <1>7 DEF UpdateAmount, Transferred
    <2> HIDE DEF base, quote, after, increase
    <2>2. increase \in BOOLEAN
      BY DEF increase
    <2>3. /\ Shaped(jx, Prices) /\ Quiet(ix, jx, p)
          /\ Shows(jx, p, initialized, runtime, base, UpdateAmount(quote, e.amount, increase))
      BY <1>1, <1>2, <1>4, <1>7, <2>2, BookedQuote
    <2>4. Shape(jx) /\ Touches(ix, jx, p)
      BY <2>3 DEF Shape, Quiet
    <2>5. Sees(jx, p, initialized, runtime, after)
      BY <2>1, <2>3 DEF Sees
    <2> QED
      BY <1>5, <2>4, <2>5 DEF after
  <1> QED
    BY <1>6, <1>7

\* The index has no entity to book on.
LEMMA IgnoredEvent ==
    ASSUME NEW ix, NEW e, e.block \in Nat, e.position \in Positions, e.position \notin ix.known,
           \/ e.type = "Shipped" /\ e.position \notin Ours
           \/ e.type = "Docked"
           \/ e.type = "Pushed" /\ e.amount \in Nat
    PROVE  Good(ix, e) /\ Handle(ix, e) = ix
  <1>1. Good(ix, e)
    BY DEF Good, GoodLifecycle, GoodTransfer
  <1>2. Handle(ix, e) = ix
    BY DEF Handle, HandleShipped, HandleDocked, HandlePushed, ApplyAllocation
  <1> QED
    BY <1>1, <1>2

LEMMA DockedEvent ==
    ASSUME NEW ix, Shape(ix), NEW e, e.type = "Docked", e.block \in Nat, e.position \in Positions,
           NEW initialized, NEW runtime, NEW allocation,
           Sees(ix, e.position, initialized, runtime, allocation),
           NEW jx, jx = Handle(ix, e)
    PROVE  /\ Good(ix, e) /\ Shape(jx) /\ Touches(ix, jx, e.position)
           /\ Gone(jx, e.position, initialized, runtime)
  <1> DEFINE p == e.position
  <1>1. PICK Prices : Shaped(ix, Prices)
    BY DEF Shape
  <1>2. jx = HandleDocked(ix, e)
    BY DEF Handle
  <1>3. p \in ix.known /\ ix.position[p].active
    BY DEF Sees, Shows
  <1>4. /\ Shaped(jx, Prices) /\ Touches(ix, jx, p)
        /\ \A i, r, base, quote : Shows(ix, p, i, r, base, quote) => Gone(jx, p, i, r)
    BY <1>1, <1>2, <1>3, DockedEffect
  <1>5. Good(ix, e)
    BY DEF Good, GoodLifecycle
  <1> QED
    BY <1>4, <1>5 DEF Shape, Sees

LEMMA InitializedEvent ==
    ASSUME NEW ix, Shape(ix), NEW e, e.type = "PositionRuntimeInitialized", e.block \in Nat,
           e.position \in Positions, e.runtime \in Runtimes,
           NEW initialized, NEW allocation,
           Sees(ix, e.position, initialized, e.runtime, allocation),
           NEW jx, jx = Handle(ix, e)
    PROVE  /\ Good(ix, e) /\ Shape(jx) /\ Touches(ix, jx, e.position)
           /\ Sees(jx, e.position, TRUE, e.runtime, allocation)
  <1> DEFINE p == e.position
  <1>1. PICK Prices : Shaped(ix, Prices)
    BY DEF Shape
  <1>2. p \in ix.known /\ ix.position[p].runtimeVersion = e.runtime.version
    BY DEF Sees, Shows
  <1>3. jx = WithRuntime(ix, e)
    BY <1>2 DEF Handle, HandlePositionRuntimeInitialized
  <1>4. /\ Shaped(jx, Prices) /\ Quiet(ix, jx, p)
        /\ \A i, r, base, quote :
             Shows(ix, p, i, r, base, quote) => Shows(jx, p, TRUE, e.runtime, base, quote)
    BY <1>1, <1>3, RuntimeBooked
  <1>5. Good(ix, e)
    BY <1>2 DEF Good, GoodRuntime
  <1> QED
    BY <1>4, <1>5 DEF Shape, Sees, Quiet

LEMMA FilledEvent ==
    ASSUME NEW ix, Shape(ix), NEW e, e.type = "CurveFilled", e.block \in Nat,
           e.position \in Positions, e.runtime \in Runtimes, e.side \in Sides,
           e.amountIn \in Nat, e.amountOut \in Nat, e.day \in 0 .. MaxDay,
           NEW initialized, NEW runtime, NEW allocation,
           e.runtime.version = runtime.version + 1,
           Sees(ix, e.position, initialized, runtime, allocation),
           NEW jx, jx = Handle(ix, e)
    PROVE  /\ Good(ix, e) /\ Shape(jx) /\ Touches(ix, jx, e.position)
           /\ Sees(jx, e.position, TRUE, e.runtime, allocation)
  <1> DEFINE p == e.position
  <1>1. PICK Prices : Shaped(ix, Prices)
    BY DEF Shape
  <1>2. p \in ix.known /\ ix.position[p].runtimeVersion = runtime.version
    BY DEF Sees, Shows
  <1>3. jx = HandleCurveFilled(ix, e)
    BY DEF Handle
  <1>4. /\ Shaped(jx, Prices \cup {e.price}) /\ Touches(ix, jx, p)
        /\ \A i, r, base, quote :
             Shows(ix, p, i, r, base, quote) => Shows(jx, p, TRUE, e.runtime, base, quote)
    BY <1>1, <1>2, <1>3, FilledEffect
  <1>5. Good(ix, e)
    BY <1>2 DEF Good, GoodFill
  <1> QED
    BY <1>4, <1>5 DEF Shape, Sees
-----------------------------------------------------------------------------
(* Every transaction leaves the events that lead from its chain to the next.*)

ChainOK(ch) ==
    /\ ch \in [Positions -> ChainStates]
    /\ \A p \in Positions :
         /\ ch[p].lifecycle = "Unknown" => ch[p].stored = Unset
         /\ ch[p].lifecycle = "Docked" => ch[p].allocation = [t \in Tokens |-> 0]

Tells(ch, events, newch) ==
    \A ix : Mirror(ix, ch) => \E jx : Leads(ix, events, jx) /\ Mirror(jx, newch)

\* What a transaction must be for the index to be able to follow it.
Emits(ch, events, newch) ==
    /\ ChainOK(newch)
    /\ events # <<>> /\ \E S : events \in Seq(S)
    /\ Tells(ch, events, newch)

LEMMA StateFacts ==
    ASSUME NEW state \in ChainStates
    PROVE  /\ state = [lifecycle |-> state.lifecycle, stored |-> state.stored,
                       allocation |-> state.allocation]
           /\ state.lifecycle \in {"Unknown", "Active", "Docked"}
           /\ state.stored \in Runtimes /\ state.allocation \in [Tokens -> Nat]
  BY DEF ChainStates

LEMMA StateUpdates ==
    ASSUME NEW l, NEW r, NEW a, NEW s, s = [lifecycle |-> l, stored |-> r, allocation |-> a]
    PROVE  /\ \A x : [s EXCEPT !.lifecycle = x] = [lifecycle |-> x, stored |-> r, allocation |-> a]
           /\ \A x : [s EXCEPT !.stored = x] = [lifecycle |-> l, stored |-> x, allocation |-> a]
           /\ \A x : [s EXCEPT !.allocation = x] = [lifecycle |-> l, stored |-> r, allocation |-> x]
  OBVIOUS

LEMMA MirrorOne ==
    ASSUME NEW ch, NEW newch, NEW p \in Positions,
           \A q \in Positions \ {p} : newch[q] = ch[q],
           NEW ix, Mirror(ix, ch), NEW jx, Shape(jx), Touches(ix, jx, p), Follow(jx, newch[p], p)
    PROVE  Mirror(jx, newch)
  <1>1. ASSUME NEW q \in Positions \ {p}
        PROVE  Follow(jx, newch[q], q)
    BY OtherFollows DEF Mirror
  <1> QED
    BY <1>1 DEF Mirror

LEMMA TouchesTwice ==
    ASSUME NEW p, NEW ix, NEW jx, NEW kx, Touches(ix, jx, p), Touches(jx, kx, p)
    PROVE  Touches(ix, kx, p)
  BY DEF Touches

\* The event of a fresh runtime that a position starts from.
LEMMA UnsetFacts ==
    /\ Unset \in Runtimes /\ Unset.initialized = FALSE
    /\ \A p \in Positions : Resolve(Config[p], Unset) = Initial(Config[p])
  <1>1. 0 \in Amounts /\ 0 \in 0 .. MaxVersion
    BY WireDomain, PositionAssumption DEF Amounts
  <1> QED
    BY <1>1 DEF Unset, Runtimes, CurveStates, FreshState, Resolve

LEMMA ShipEmits ==
    ASSUME ChainOK(chain), transactions \in Nat, NEW p \in Positions,
           NEW b \in ShipAmounts, NEW q \in ShipAmounts, Ship(p, b, q)
    PROVE  \E events : Record(events) /\ Emits(chain, events, chain')
  <1> DEFINE base == Config[p].base
             quote == Config[p].quote
             d == Shipped(p)
             e == Pushed(p, base, b)
             f == Pushed(p, quote, q)
             events == <<d, e, f>>
             state == [lifecycle |-> "Active", stored |-> chain[p].stored,
                       allocation |-> [chain[p].allocation EXCEPT ![base] = b, ![quote] = q]]
  <1>1. /\ base \in Tokens /\ quote \in Tokens /\ base # quote
        /\ b \in Nat /\ q \in Nat
    BY ConfigFacts, SubgraphAssumption
  <1>2. chain[p] \in ChainStates /\ chain \in [Positions -> ChainStates]
    BY DEF ChainOK
  <1>3. /\ Record(events) /\ chain[p].lifecycle = "Unknown"
        /\ chain' = [chain EXCEPT ![p].lifecycle = "Active", ![p].allocation[base] = b,
                                  ![p].allocation[quote] = q]
    BY DEF Ship
  <1>4. chain' = [chain EXCEPT ![p] = state]
    <2> DEFINE s == chain[p]
               a == s.allocation
               s1 == [s EXCEPT !.lifecycle = "Active"]
               s2 == [s1 EXCEPT !.allocation[base] = b]
               s3 == [s2 EXCEPT !.allocation[quote] = q]
    <2>1. s = [lifecycle |-> s.lifecycle, stored |-> s.stored, allocation |-> a]
      BY <1>2, StateFacts
    <2>2. s1 = [lifecycle |-> "Active", stored |-> s.stored, allocation |-> a]
      BY <2>1, StateUpdates
    <2>3. s2 = [lifecycle |-> "Active", stored |-> s.stored, allocation |-> [a EXCEPT ![base] = b]]
      <3> HIDE DEF s1, a, s, base
      <3> QED
        BY <2>2
    <2>4. s3 = state
      <3> HIDE DEF s2
      <3> QED
        BY <2>3
    <2>5. chain' = [chain EXCEPT ![p] = s3]
      BY <1>2, <1>3
    <2> QED
      BY <2>4, <2>5
  <1>5. /\ state.allocation \in [Tokens -> Nat]
        /\ state.allocation[base] = b /\ state.allocation[quote] = q
    BY <1>1, <1>2 DEF ChainStates
  <1>6. state \in ChainStates
    BY <1>2, <1>5 DEF ChainStates
  <1>7. /\ d.type = "Shipped" /\ d.block \in Nat /\ d.position = p
        /\ e.type = "Pushed" /\ e.block \in Nat /\ e.position = p /\ e.token = base /\ e.amount = b
        /\ f.type = "Pushed" /\ f.block \in Nat /\ f.position = p /\ f.token = quote /\ f.amount = q
    BY DEF Shipped, Pushed, Block
  <1>8. events # <<>> /\ events \in Seq({d, e, f})
    OBVIOUS
  <1>9. state.stored = Unset /\ state.lifecycle = "Active"
    BY <1>3 DEF ChainOK
  <1> HIDE DEF d, e, f, state
  <1>10. chain'[p] = state /\ \A r \in Positions \ {p} : chain'[r] = chain[r]
    BY <1>2, <1>4
  <1>11. ChainOK(chain')
    BY <1>2, <1>4, <1>6, <1>9, <1>10 DEF ChainOK
  <1>12. ASSUME NEW ix, Mirror(ix, chain)
         PROVE  \E jx : Leads(ix, events, jx) /\ Mirror(jx, chain')
    <2> DEFINE jx == Handle(ix, d)
               kx == Handle(jx, e)
               lx == Handle(kx, f)
               none == [t \in Tokens |-> 0]
               initialized == Unset.initialized
               runtime == Initial(Config[p])
    <2>1. Shape(ix) /\ Fresh(ix, p)
      BY <1>3, <1>12 DEF Mirror, Follow
    <2>2. CASE p \in Ours
      <3>1. /\ Good(ix, d) /\ Shape(jx) /\ Touches(ix, jx, p)
            /\ Sees(jx, p, initialized, runtime, none)
        BY <1>7, <2>1, <2>2, ShippedEvent, UnsetFacts
      <3>2. none \in [Tokens -> Nat] /\ none[base] = 0 /\ none[quote] = 0
        BY <1>1
      <3> HIDE DEF none, jx, initialized, runtime
      <3> DEFINE some == [none EXCEPT ![base] = 0 + b]
      <3>3. /\ Good(jx, e) /\ Shape(kx) /\ Touches(jx, kx, p)
            /\ Sees(kx, p, initialized, runtime, some)
        <4>1. /\ Good(jx, e) /\ Shape(kx) /\ Touches(jx, kx, p)
              /\ Sees(kx, p, initialized, runtime, Transferred(none, e))
          BY <1>1, <1>7, <3>1, <3>2, TransferEvent
        <4> QED
          BY <1>7, <3>2, <4>1 DEF Transferred
      <3>4. some \in [Tokens -> Nat] /\ some[base] = b /\ some[quote] = 0
        BY <1>1, <3>2
      <3> HIDE DEF kx, some
      <3> DEFINE all == [some EXCEPT ![quote] = 0 + q]
      <3>5. /\ Good(kx, f) /\ Shape(lx) /\ Touches(kx, lx, p)
            /\ Sees(lx, p, initialized, runtime, all)
        <4>1. /\ Good(kx, f) /\ Shape(lx) /\ Touches(kx, lx, p)
              /\ Sees(lx, p, initialized, runtime, Transferred(some, f))
          BY <1>1, <1>7, <3>3, <3>4, TransferEvent
        <4> QED
          BY <1>7, <3>4, <4>1 DEF Transferred
      <3>6. all[base] = b /\ all[quote] = q
        BY <1>1, <3>4
      <3> HIDE DEF lx, all
      <3>7. SeesActive(lx, state, p)
        BY <1>5, <1>9, <3>5, <3>6, UnsetFacts DEF SeesActive, Sees, initialized, runtime
      <3>8. Follow(lx, chain'[p], p)
        BY <1>9, <1>10, <2>2, <3>7 DEF Follow
      <3>9. Mirror(lx, chain')
        BY <1>10, <1>12, <3>1, <3>3, <3>5, <3>8, TouchesTwice, MirrorOne
      <3>10. Leads(ix, events, lx)
        BY <3>1, <3>3, <3>5, LeadsThrice DEF jx, kx, lx
      <3> QED
        BY <3>9, <3>10
    <2>3. CASE p \notin Ours
      <3>1. p \notin ix.known
        BY <2>1 DEF Fresh
      <3>2. /\ Good(ix, d) /\ Handle(ix, d) = ix
            /\ Good(ix, e) /\ Handle(ix, e) = ix
            /\ Good(ix, f) /\ Handle(ix, f) = ix
        BY <1>1, <1>7, <2>3, <3>1, IgnoredEvent
      <3>3. Leads(ix, events, ix)
        BY <3>2, LeadsThrice
      <3>4. Mirror(ix, chain')
        BY <1>10, <1>12, <2>1, <2>3 DEF Mirror, Follow
      <3> QED
        BY <3>3, <3>4
    <2> QED
      BY <2>2, <2>3
  <1> QED
    BY <1>3, <1>8, <1>11, <1>12 DEF Emits, Tells

LEMMA GiftEmits ==
    ASSUME ChainOK(chain), transactions \in Nat, NEW p \in Positions, NEW amount \in Gifts,
           NEW token \in {Config[p].base, Config[p].quote}, Gift(p, token, amount)
    PROVE  \E events : Record(events) /\ Emits(chain, events, chain')
  <1> DEFINE e == Pushed(p, token, amount)
             events == <<e>>
             state == [lifecycle |-> "Active", stored |-> chain[p].stored,
                       allocation |-> [chain[p].allocation EXCEPT ![token] = @ + amount]]
  <1>1. token \in Tokens /\ amount \in Nat
    BY ConfigFacts, SubgraphAssumption
  <1>2. chain[p] \in ChainStates /\ chain \in [Positions -> ChainStates]
    BY DEF ChainOK
  <1>3. /\ Record(events) /\ chain[p].lifecycle = "Active"
        /\ chain' = [chain EXCEPT ![p].allocation[token] = @ + amount]
    BY DEF Gift
  <1>4. chain' = [chain EXCEPT ![p] = state]
    <2>1. [chain[p] EXCEPT !.allocation[token] = @ + amount] = state
      <3> DEFINE s == chain[p]
      <3>1. s = [lifecycle |-> "Active", stored |-> s.stored, allocation |-> s.allocation]
        BY <1>2, <1>3, StateFacts
      <3> QED
        BY <3>1
    <2>2. chain' = [chain EXCEPT ![p] = [chain[p] EXCEPT !.allocation[token] = @ + amount]]
      BY <1>2, <1>3
    <2> QED
      BY <2>1, <2>2
  <1>5. state.allocation \in [Tokens -> Nat]
    BY <1>1, <1>2 DEF ChainStates
  <1>6. state \in ChainStates /\ state.lifecycle = "Active"
    BY <1>2, <1>5 DEF ChainStates
  <1>7. /\ e.type = "Pushed" /\ e.block \in Nat /\ e.position = p
        /\ e.token = token /\ e.amount = amount
    BY DEF Pushed, Block
  <1>8. events # <<>> /\ events \in Seq({e})
    OBVIOUS
  <1>9. /\ state.stored = chain[p].stored
        /\ state.allocation = [chain[p].allocation EXCEPT ![token] = @ + amount]
    OBVIOUS
  <1> HIDE DEF e, state
  <1>10. chain'[p] = state /\ \A r \in Positions \ {p} : chain'[r] = chain[r]
    BY <1>2, <1>4
  <1>11. ChainOK(chain')
    BY <1>2, <1>4, <1>6, <1>10 DEF ChainOK
  <1>12. ASSUME NEW ix, Mirror(ix, chain)
         PROVE  \E jx : Leads(ix, events, jx) /\ Mirror(jx, chain')
    <2> DEFINE jx == Handle(ix, e)
    <2>1. Shape(ix) /\ Follow(ix, chain[p], p)
      BY <1>12 DEF Mirror
    <2>2. CASE p \in Ours
      <3> DEFINE allocation == chain[p].allocation
                 runtime == Resolve(Config[p], chain[p].stored)
      <3>1. Sees(ix, p, chain[p].stored.initialized, runtime, allocation)
        BY <1>3, <2>1, <2>2 DEF Follow, SeesActive
      <3>2. allocation \in [Tokens -> Nat]
        BY <1>2 DEF ChainStates
      <3> HIDE DEF allocation, runtime
      <3>3. /\ Good(ix, e) /\ Shape(jx) /\ Touches(ix, jx, p)
            /\ Sees(jx, p, chain[p].stored.initialized, runtime, Transferred(allocation, e))
        BY <1>1, <1>7, <2>1, <3>1, <3>2, TransferEvent
      <3>4. Sees(jx, p, chain[p].stored.initialized, runtime, state.allocation)
        BY <1>7, <1>9, <3>3 DEF allocation, Transferred
      <3>5. Follow(jx, chain'[p], p)
        BY <1>6, <1>9, <1>10, <2>2, <3>4 DEF Follow, SeesActive, runtime
      <3>6. Mirror(jx, chain')
        BY <1>10, <1>12, <3>3, <3>5, MirrorOne
      <3>7. Leads(ix, events, jx)
        BY <3>3, LeadsOne
      <3> QED
        BY <3>6, <3>7
    <2>3. CASE p \notin Ours
      <3>1. Fresh(ix, p) /\ p \notin ix.known
        BY <2>1, <2>3 DEF Follow, Fresh
      <3>2. Good(ix, e) /\ jx = ix
        BY <1>1, <1>7, <2>3, <3>1, IgnoredEvent
      <3>3. Leads(ix, events, ix)
        BY <3>2, LeadsOne
      <3>4. Mirror(ix, chain')
        BY <1>10, <1>12, <2>3, <3>1 DEF Mirror, Follow
      <3> QED
        BY <3>3, <3>4
    <2> QED
      BY <2>2, <2>3
  <1> QED
    BY <1>3, <1>8, <1>11, <1>12 DEF Emits, Tells

LEMMA DockEmits ==
    ASSUME ChainOK(chain), transactions \in Nat, NEW p \in Positions, Dock(p)
    PROVE  \E events : Record(events) /\ Emits(chain, events, chain')
  <1> DEFINE e == Docked(p)
             events == <<e>>
             state == [lifecycle |-> "Docked", stored |-> chain[p].stored,
                       allocation |-> [t \in Tokens |-> 0]]
  <1>1. chain[p] \in ChainStates /\ chain \in [Positions -> ChainStates]
    BY DEF ChainOK
  <1>2. /\ Record(events) /\ chain[p].lifecycle = "Active"
        /\ chain' = [chain EXCEPT ![p].lifecycle = "Docked",
                                  ![p].allocation = [t \in Tokens |-> 0]]
    BY DEF Dock
  <1>3. chain' = [chain EXCEPT ![p] = state]
    <2>1. [[chain[p] EXCEPT !.lifecycle = "Docked"] EXCEPT !.allocation = [t \in Tokens |-> 0]]
            = state
      <3> DEFINE s == chain[p]
      <3>1. s = [lifecycle |-> s.lifecycle, stored |-> s.stored, allocation |-> s.allocation]
        BY <1>1, StateFacts
      <3>2. [s EXCEPT !.lifecycle = "Docked"]
              = [lifecycle |-> "Docked", stored |-> s.stored, allocation |-> s.allocation]
        BY <3>1, StateUpdates
      <3> DEFINE s1 == [s EXCEPT !.lifecycle = "Docked"]
                 none == [t \in Tokens |-> 0]
      <3>3. state = [lifecycle |-> "Docked", stored |-> s.stored, allocation |-> none]
        OBVIOUS
      <3>4. s1 = [lifecycle |-> "Docked", stored |-> s.stored, allocation |-> s.allocation]
        BY <3>2
      <3> HIDE DEF s1, none, s, state
      <3>5. [s1 EXCEPT !.allocation = none] = state
        BY <3>3, <3>4, StateUpdates
      <3> QED
        BY <3>5 DEF s1, none, s
    <2>2. chain' = [chain EXCEPT ![p] = [[chain[p] EXCEPT !.lifecycle = "Docked"]
                                            EXCEPT !.allocation = [t \in Tokens |-> 0]]]
      BY <1>1, <1>2
    <2> QED
      BY <2>1, <2>2
  <1>4. /\ state \in ChainStates /\ state.lifecycle = "Docked" /\ state.stored = chain[p].stored
        /\ state.allocation = [t \in Tokens |-> 0]
    BY <1>1 DEF ChainStates
  <1>5. e.type = "Docked" /\ e.block \in Nat /\ e.position = p
    BY DEF Docked, Block
  <1>6. events # <<>> /\ events \in Seq({e})
    OBVIOUS
  <1> HIDE DEF e, state
  <1>7. chain'[p] = state /\ \A r \in Positions \ {p} : chain'[r] = chain[r]
    BY <1>1, <1>3
  <1>8. ChainOK(chain')
    BY <1>1, <1>3, <1>4, <1>7 DEF ChainOK
  <1>9. ASSUME NEW ix, Mirror(ix, chain)
        PROVE  \E jx : Leads(ix, events, jx) /\ Mirror(jx, chain')
    <2> DEFINE jx == Handle(ix, e)
    <2>1. Shape(ix) /\ Follow(ix, chain[p], p)
      BY <1>9 DEF Mirror
    <2>2. CASE p \in Ours
      <3>1. Sees(ix, p, chain[p].stored.initialized, Resolve(Config[p], chain[p].stored),
                 chain[p].allocation)
        BY <1>2, <2>1, <2>2 DEF Follow, SeesActive
      <3>2. /\ Good(ix, e) /\ Shape(jx) /\ Touches(ix, jx, p)
            /\ Gone(jx, p, chain[p].stored.initialized, Resolve(Config[p], chain[p].stored))
        BY <1>5, <2>1, <3>1, DockedEvent
      <3>3. Follow(jx, chain'[p], p)
        BY <1>4, <1>7, <2>2, <3>2 DEF Follow, SeesDocked
      <3>4. Mirror(jx, chain')
        BY <1>7, <1>9, <3>2, <3>3, MirrorOne
      <3>5. Leads(ix, events, jx)
        BY <3>2, LeadsOne
      <3> QED
        BY <3>4, <3>5
    <2>3. CASE p \notin Ours
      <3>1. Fresh(ix, p) /\ p \notin ix.known
        BY <2>1, <2>3 DEF Follow, Fresh
      <3>2. Good(ix, e) /\ jx = ix
        BY <1>5, <2>3, <3>1, IgnoredEvent
      <3>3. Leads(ix, events, ix)
        BY <3>2, LeadsOne
      <3>4. Mirror(ix, chain')
        BY <1>7, <1>9, <2>3, <3>1 DEF Mirror, Follow
      <3> QED
        BY <3>3, <3>4
    <2> QED
      BY <2>2, <2>3
  <1> QED
    BY <1>2, <1>6, <1>8, <1>9 DEF Emits, Tells
\* What a fill of position p makes of it, and its events.
FillState(p, side, fill) ==
    [lifecycle |-> "Active", stored |-> Transition(Runtime(p), side, fill),
     allocation |-> [chain[p].allocation EXCEPT
                       ![SideIn(Config[p], side)] = @ + fill.amountIn,
                       ![SideOut(Config[p], side)] = @ - fill.amountOut]]

LEMMA FillFacts ==
    ASSUME ChainOK(chain), NEW p \in Positions, chain[p].lifecycle = "Active",
           NEW side \in Sides, NEW kind \in Kinds, NEW raw \in Nat,
           CanFill(Config[p], Runtime(p), side, kind, raw, Runtime(p).version,
                   chain[p].allocation[SideOut(Config[p], side)]),
           NEW fill, fill = FillOf(p, side, kind, raw)
    PROVE  /\ Runtime(p) \in Runtimes
           /\ Transition(Runtime(p), side, fill) \in Runtimes
           /\ Transition(Runtime(p), side, fill).initialized = TRUE
           /\ Transition(Runtime(p), side, fill).version = Runtime(p).version + 1
           /\ fill.amountIn \in Nat /\ fill.amountOut \in Nat
           /\ fill.amountOut <= chain[p].allocation[SideOut(Config[p], side)]
           /\ After(p, side, fill) = FillState(p, side, fill)
           /\ FillState(p, side, fill) \in ChainStates
  <1> DEFINE runtime == Runtime(p)
             next == Transition(runtime, side, fill)
             in == SideIn(Config[p], side)
             out == SideOut(Config[p], side)
             s == chain[p]
             a == s.allocation
  <1>1. s \in ChainStates /\ s.stored \in Runtimes /\ a \in [Tokens -> Nat]
    BY StateFacts DEF ChainOK
  <1>2. runtime \in Runtimes
    BY <1>1, ConfigFacts, ResolveType DEF Runtime
  <1>3. /\ Quotable(Config[p], runtime, side, kind, raw)
        /\ fill = PositionFill(Config[p], runtime, side, kind, raw)
        /\ fill.amountOut <= a[out]
        /\ CanTransition(runtime, side, fill)
    BY DEF CanFill, FillOf
  <1> HIDE DEF runtime
  <1>4. FillType(fill, runtime[side])
    BY <1>2, <1>3, ConfigFacts, AcceptedFill
  <1>5. next \in Runtimes
    BY <1>2, <1>3, <1>4, TransitionType
  <1>6. next.initialized = TRUE /\ next.version = runtime.version + 1
    <2>1. next.initialized /\ next.version = runtime.version + 1
      BY <1>2, TransitionMarks
    <2>2. next.initialized \in BOOLEAN
      BY <1>5, RuntimeFacts
    <2> QED
      BY <2>1, <2>2
  <1>7. fill.amountIn \in Nat /\ fill.amountOut \in Nat
    BY <1>4 DEF FillType
  <1> HIDE DEF next, in, out, a
  <1>8. in \in Tokens /\ out \in Tokens /\ in # out
    BY ConfigFacts DEF in, out, SideIn, SideOut, TokenIn, TokenOut
  <1> DEFINE b == [a EXCEPT ![in] = @ + fill.amountIn, ![out] = @ - fill.amountOut]
  <1>9. b \in [Tokens -> Nat]
    <2>1. a[out] - fill.amountOut \in Nat /\ a[in] + fill.amountIn \in Nat
      BY <1>1, <1>3, <1>7, <1>8
    <2>2. b = [[a EXCEPT ![in] = a[in] + fill.amountIn] EXCEPT ![out] = a[out] - fill.amountOut]
      BY <1>1, <1>8
    <2> QED
      BY <1>1, <1>8, <2>1, <2>2
  <1>10. FillState(p, side, fill) = [lifecycle |-> "Active", stored |-> next, allocation |-> b]
    BY DEF FillState, next, runtime, in, out, a
  <1>11. After(p, side, fill) = FillState(p, side, fill)
    <2> DEFINE s1 == [s EXCEPT !.stored = next]
    <2>1. s = [lifecycle |-> "Active", stored |-> s.stored, allocation |-> a]
      BY <1>1, StateFacts DEF a
    <2> DEFINE u == a[in] + fill.amountIn
               v == a[out] - fill.amountOut
               s2 == [s1 EXCEPT !.allocation[in] = u]
               s3 == [s2 EXCEPT !.allocation[out] = v]
    <2>2. After(p, side, fill) = [s EXCEPT !.stored = next, !.allocation[in] = s.allocation[in] + fill.amountIn,
                                           !.allocation[out] = s.allocation[out] - fill.amountOut]
      BY DEF After, next, runtime, in, out
    <2> HIDE DEF s
    <2>3. s1 = [lifecycle |-> "Active", stored |-> next, allocation |-> a]
      BY <2>1
    <2>4. s2 = [lifecycle |-> "Active", stored |-> next, allocation |-> [a EXCEPT ![in] = u]]
      <3> HIDE DEF s1, u
      <3> QED
        BY <2>3
    <2>5. s3 = [lifecycle |-> "Active", stored |-> next,
                allocation |-> [[a EXCEPT ![in] = u] EXCEPT ![out] = v]]
      <3> HIDE DEF s2, u, v
      <3> QED
        BY <2>4
    <2>6. After(p, side, fill) = s3
      <3>1. s.allocation = a
        BY DEF a, s
      <3>2. After(p, side, fill)
              = [s EXCEPT !.stored = next, !.allocation[in] = u, !.allocation[out] = v]
        BY <2>2, <3>1
      <3> HIDE DEF u, v
      <3> QED
        BY <3>2
    <2>7. b = [[a EXCEPT ![in] = u] EXCEPT ![out] = v]
      BY <1>1, <1>8 DEF a, s
    <2> HIDE DEF s3, b
    <2> QED
      BY <1>10, <2>5, <2>6, <2>7
  <1> HIDE DEF b
  <1>12. FillState(p, side, fill) \in ChainStates
    BY <1>5, <1>9, <1>10 DEF ChainStates
  <1> QED
    BY <1>2, <1>3, <1>5, <1>6, <1>7, <1>11, <1>12 DEF runtime, next, a, out

FillTells(p, state, events) ==
    \A ix : Shape(ix) /\ SeesActive(ix, chain[p], p) =>
      \E jx : /\ Leads(ix, events, jx) /\ Shape(jx) /\ Touches(ix, jx, p)
              /\ SeesActive(jx, state, p)

LEMMA FillIsTold ==
    ASSUME ChainOK(chain), transactions \in Nat, day \in 0 .. MaxDay,
           NEW p \in Positions, chain[p].lifecycle = "Active",
           NEW side \in Sides, NEW kind \in Kinds, NEW raw \in Nat,
           CanFill(Config[p], Runtime(p), side, kind, raw, Runtime(p).version,
                   chain[p].allocation[SideOut(Config[p], side)]),
           NEW fill, fill = FillOf(p, side, kind, raw),
           NEW state, state = FillState(p, side, fill), NEW route,
           NEW events, events = FillEvents(p, side, fill, state.stored, route)
    PROVE  /\ events # <<>> /\ \E S : events \in Seq(S)
           /\ FillTells(p, state, events)
  <1> DEFINE runtime == Runtime(p)
             next == Transition(runtime, side, fill)
             in == SideIn(Config[p], side)
             out == SideOut(Config[p], side)
             a == chain[p].allocation
             i == RuntimeInitialized(p)
             c == CurveFilled(p, side, fill, next, route)
             d == Pulled(p, out, fill.amountOut)
             e == Pushed(p, in, fill.amountIn)
             prefix == IF chain[p].stored.initialized THEN <<>> ELSE <<i>>
             rest == <<c, d, e>>
  <1>1. /\ runtime \in Runtimes /\ next \in Runtimes
        /\ next.initialized = TRUE /\ next.version = runtime.version + 1
        /\ fill.amountIn \in Nat /\ fill.amountOut \in Nat
        /\ fill.amountOut <= a[out]
    BY FillFacts
  <1>2. chain[p] \in ChainStates /\ a \in [Tokens -> Nat] /\ chain[p].stored \in Runtimes
    BY StateFacts DEF ChainOK
  <1>3. /\ in \in {Config[p].base, Config[p].quote} /\ out \in {Config[p].base, Config[p].quote}
        /\ in \in Tokens /\ out \in Tokens /\ in # out
        /\ Config[p].base \in Tokens /\ Config[p].quote \in Tokens
    BY ConfigFacts DEF SideIn, SideOut, TokenIn, TokenOut
  <1>4. /\ state.stored = next
        /\ state.allocation = [a EXCEPT ![in] = @ + fill.amountIn, ![out] = @ - fill.amountOut]
    BY DEF FillState
  <1>5. /\ i.type = "PositionRuntimeInitialized" /\ i.block \in Nat /\ i.position = p
        /\ i.runtime = Initial(Config[p])
        /\ c.type = "CurveFilled" /\ c.block \in Nat /\ c.position = p /\ c.side = side
        /\ c.runtime = next /\ c.amountIn = fill.amountIn /\ c.amountOut = fill.amountOut
        /\ c.day = day
        /\ d.type = "Pulled" /\ d.block \in Nat /\ d.position = p /\ d.token = out
        /\ d.amount = fill.amountOut
        /\ e.type = "Pushed" /\ e.block \in Nat /\ e.position = p /\ e.token = in
        /\ e.amount = fill.amountIn
    BY DEF RuntimeInitialized, CurveFilled, Pulled, Pushed, Block
  <1>6. runtime = IF chain[p].stored.initialized THEN chain[p].stored ELSE Initial(Config[p])
    BY DEF Runtime, Resolve
  <1>7. events = prefix \o rest
    BY <1>4 DEF FillEvents
  <1> HIDE DEF i, c, d, e, runtime, next, in, out
  <1> DEFINE E == {i, c, d, e}
  <1>9. prefix \in Seq(E) /\ rest \in Seq(E) /\ Len(rest) = 3
    <2>1. i \in E /\ c \in E /\ d \in E /\ e \in E
      OBVIOUS
    <2> HIDE DEF E
    <2>2. <<i>> \in Seq(E) /\ <<>> \in Seq(E) /\ <<c, d, e>> \in Seq(E) /\ Len(<<c, d, e>>) = 3
      BY <2>1
    <2> QED
      BY <2>2
  <1> HIDE DEF prefix, rest, E
  <1>10. events \in Seq(E) /\ events # <<>>
    <2>1. events \in Seq(E) /\ Len(events) = Len(prefix) + 3 /\ Len(prefix) \in Nat
      BY <1>7, <1>9, ConcatFacts
    <2>2. Len(events) # 0
      BY <2>1
    <2> QED
      BY <2>1, <2>2
  <1>11. ASSUME NEW ix, Shape(ix), SeesActive(ix, chain[p], p)
         PROVE  \E jx : /\ Leads(ix, events, jx) /\ Shape(jx) /\ Touches(ix, jx, p)
                        /\ SeesActive(jx, state, p)
    <2> HIDE DEF a
    <2>1. Sees(ix, p, chain[p].stored.initialized, runtime, a)
      BY <1>11 DEF SeesActive, runtime, Runtime, a
    <2>2. \E jx : /\ Leads(ix, prefix, jx) /\ Shape(jx) /\ Touches(ix, jx, p)
                  /\ \E initialized : Sees(jx, p, initialized, runtime, a)
      <3>1. CASE chain[p].stored.initialized
        <4>1. Leads(ix, prefix, ix)
          BY <3>1, LeadsNone DEF prefix
        <4>2. Touches(ix, ix, p)
          BY DEF Touches
        <4> QED
          BY <1>11, <2>1, <4>1, <4>2
      <3>2. CASE ~chain[p].stored.initialized
        <4> DEFINE jx == Handle(ix, i)
        <4>1. i.runtime = runtime
          BY <1>5, <1>6, <3>2
        <4>2. /\ Good(ix, i) /\ Shape(jx) /\ Touches(ix, jx, p)
              /\ Sees(jx, p, TRUE, runtime, a)
          BY <1>1, <1>5, <1>11, <2>1, <4>1, InitializedEvent
        <4>3. Leads(ix, prefix, jx)
          BY <3>2, <4>2, LeadsOne DEF prefix
        <4> QED
          BY <4>2, <4>3
      <3> QED
        BY <3>1, <3>2
    <2>3. PICK jx, initialized :
             /\ Leads(ix, prefix, jx) /\ Shape(jx) /\ Touches(ix, jx, p)
             /\ Sees(jx, p, initialized, runtime, a)
      BY <2>2
    <2> DEFINE kx == Handle(jx, c)
               lx == Handle(kx, d)
               mx == Handle(lx, e)
               b == Transferred(a, d)
               z == Transferred(b, e)
    <2>4. /\ Good(jx, c) /\ Shape(kx) /\ Touches(jx, kx, p)
          /\ Sees(kx, p, TRUE, next, a)
      BY <1>1, <1>5, <2>3, FilledEvent
    <2> DEFINE yes == TRUE
    <2>5. Sees(kx, p, yes, next, a)
      BY <2>4
    <2> HIDE DEF kx, yes
    <2>6. /\ Good(kx, d) /\ Shape(lx) /\ Touches(kx, lx, p)
          /\ Sees(lx, p, yes, next, b)
      BY <1>1, <1>2, <1>3, <1>5, <2>4, <2>5, TransferEvent DEF a
    <2>7. /\ b = [a EXCEPT ![out] = @ - fill.amountOut]
          /\ b \in [Tokens -> Nat]
      <3>1. b = [a EXCEPT ![out] = @ - fill.amountOut]
        BY <1>5 DEF Transferred
      <3>2. a[out] - fill.amountOut \in Nat
        BY <1>1, <1>2, <1>3 DEF a
      <3> QED
        BY <1>2, <3>1, <3>2 DEF a
    <2> HIDE DEF lx, b
    <2>8. /\ Good(lx, e) /\ Shape(mx) /\ Touches(lx, mx, p)
          /\ Sees(mx, p, yes, next, z)
      <3>1. b \in [Tokens -> Nat] /\ Shape(lx) /\ Sees(lx, p, yes, next, b)
        BY <2>6, <2>7
      <3>2. /\ e.type = "Pushed" /\ e.block \in Nat /\ e.position = p
            /\ e.amount \in Nat
            /\ e.token \in {Config[e.position].base, Config[e.position].quote}
        BY <1>1, <1>3, <1>5
      <3> QED
        BY <3>1, <3>2, TransferEvent
    <2>9. z[in] = state.allocation[in] /\ z[out] = state.allocation[out]
      <3>1. z = [b EXCEPT ![in] = @ + fill.amountIn]
        BY <1>5 DEF Transferred
      <3>2. a \in [Tokens -> Nat]
        BY <1>2 DEF a
      <3>3. state.allocation = [a EXCEPT ![in] = @ + fill.amountIn, ![out] = @ - fill.amountOut]
        BY <1>4 DEF a
      <3> HIDE DEF z
      <3> QED
        BY <1>3, <2>7, <3>1, <3>2, <3>3
    <2>10. /\ z[Config[p].base] = state.allocation[Config[p].base]
           /\ z[Config[p].quote] = state.allocation[Config[p].quote]
      BY <1>3, <2>9 DEF in, out, SideIn, SideOut, TokenIn, TokenOut
    <2> HIDE DEF mx, z
    <2>11. SeesActive(mx, state, p)
      <3>1. Resolve(Config[p], next) = next /\ next.initialized = yes
        BY <1>1 DEF Resolve, yes
      <3> QED
        BY <1>4, <2>8, <2>10, <3>1 DEF SeesActive, Sees
    <2>12. Leads(jx, rest, mx)
      BY <2>4, <2>6, <2>8, LeadsThrice DEF rest, kx, lx, mx
    <2>13. Leads(ix, events, mx)
      BY <1>7, <1>9, <2>3, <2>12, LeadsThrough
    <2>14. Touches(ix, mx, p)
      BY <2>3, <2>4, <2>6, <2>8, TouchesTwice
    <2> QED
      BY <2>8, <2>11, <2>13, <2>14
  <1> QED
    BY <1>10, <1>11 DEF FillTells
\* SetToSeq lists every member of a finite set once.
LEMMA ListFacts ==
    ASSUME NEW P, IsFiniteSet(P), NEW n, n = Cardinality(P), NEW list, list = SetToSeq(P)
    PROVE  /\ n \in Nat
           /\ list \in [1 .. n -> P]
           /\ \A i, j \in 1 .. n : list[i] = list[j] => i = j
           /\ \A p \in P : \E i \in 1 .. n : list[i] = p
  <1>1. n \in Nat /\ ExistsBijection(1 .. n, P)
    BY FS_CardinalityType
  <1>2. \E f : f \in Bijection(1 .. n, P)
    BY <1>1 DEF ExistsBijection
  <1>3. \E f \in [1 .. n -> P] : IsInjective(f)
    BY <1>2 DEF Bijection, Injection
  <1>4. list \in [1 .. n -> P] /\ IsInjective(list)
    BY <1>3 DEF SetToSeq
  <1>5. \A i, j \in 1 .. n : list[i] = list[j] => i = j
    BY <1>4 DEF IsInjective
  <1>6. list \in Injection(1 .. n, P)
    BY <1>4 DEF Injection
  <1>7. Cardinality(1 .. n) = n
    <2>1. PICK a \in Int, b \in Int : a = 1 /\ b = n
      BY <1>1
    <2>2. Cardinality(a .. b) = IF a > b THEN 0 ELSE b - a + 1
      BY ONLY FS_Interval, a \in Int, b \in Int
    <2> QED
      BY <1>1, <2>1, <2>2
  <1>8. list \in Surjection(1 .. n, P)
    BY ONLY <1>6, <1>7, FS_Injection, n = Cardinality(P), IsFiniteSet(P)
  <1>9. \A p \in P : \E i \in 1 .. n : list[i] = p
    BY <1>8 DEF Surjection
  <1> QED
    BY <1>1, <1>4, <1>5, <1>9

\* The partial results of FlattenSeq.
Flat(g, seqs, k) ==
    /\ g = [i \in 1 .. Len(seqs) |-> g[i]]
    /\ \A i \in 1 .. k : g[i] = IF i = 1 THEN seqs[i] ELSE g[i - 1] \o seqs[i]

LEMMA FlatExists ==
    ASSUME NEW seqs, Len(seqs) \in Nat
    PROVE  \E g : Flat(g, seqs, Len(seqs))
  <1> DEFINE n == Len(seqs)
             T == {k \in 0 .. n : \E g : Flat(g, seqs, k)}
  <1>1. 0 \in T
    <2> DEFINE g == [i \in 1 .. n |-> seqs[i]]
    <2>1. Flat(g, seqs, 0)
      BY DEF Flat
    <2> QED
      BY <2>1
  <1>2. ASSUME NEW k \in 0 .. n - 1, k \in T
        PROVE  k + 1 \in T
    <2>1. PICK g : Flat(g, seqs, k)
      BY <1>2
    <2> DEFINE h == [i \in 1 .. n |-> IF i = k + 1
                       THEN IF i = 1 THEN seqs[i] ELSE g[i - 1] \o seqs[i]
                       ELSE g[i]]
    <2>2. /\ h = [i \in 1 .. n |-> h[i]]
          /\ \A i \in 1 .. n : i # k + 1 => h[i] = g[i]
          /\ h[k + 1] = IF k + 1 = 1 THEN seqs[k + 1] ELSE g[k] \o seqs[k + 1]
      <3>1. k + 1 \in 1 .. n /\ (k + 1) - 1 = k
        OBVIOUS
      <3> QED
        BY <3>1
    <2> HIDE DEF h
    <2>3. ASSUME NEW i \in 1 .. k + 1
          PROVE  h[i] = IF i = 1 THEN seqs[i] ELSE h[i - 1] \o seqs[i]
      <3>1. CASE i = k + 1
        <4>1. k # 0 => k \in 1 .. n /\ k # k + 1
          OBVIOUS
        <4> QED
          BY <2>2, <3>1, <4>1
      <3>2. CASE i # k + 1
        <4>1. /\ i \in 1 .. k /\ i \in 1 .. n
              /\ i # 1 => i - 1 \in 1 .. n /\ i - 1 # k + 1
          BY <3>2
        <4> QED
          BY <2>1, <2>2, <3>2, <4>1 DEF Flat
      <3> QED
        BY <3>1, <3>2
    <2>4. Flat(h, seqs, k + 1)
      BY <2>2, <2>3 DEF Flat
    <2> QED
      BY <2>4
  <1> HIDE DEF T
  <1>3. n \in T
    BY <1>1, <1>2, RangeInduction
  <1> QED
    BY <1>3 DEF T

LEMMA FlattenFacts ==
    ASSUME NEW seqs, Len(seqs) \in Nat \ {0}
    PROVE  \E g : Flat(g, seqs, Len(seqs)) /\ FlattenSeq(seqs) = g[Len(seqs)]
  <1> DEFINE n == Len(seqs)
             Is(g) == g = [i \in 1 .. n |-> IF i = 1 THEN seqs[i] ELSE g[i - 1] \o seqs[i]]
             flat == CHOOSE g : Is(g)
  <1>1. PICK g : Flat(g, seqs, n)
    BY FlatExists
  <1>2. Is(g)
    BY <1>1 DEF Flat
  <1>3. Is(flat)
    BY <1>2
  <1>4. FlattenSeq(seqs) = flat[n]
    BY DEF FlattenSeq
  <1> HIDE DEF flat
  <1>5. Flat(flat, seqs, n)
    BY <1>3 DEF Flat
  <1> QED
    BY <1>4, <1>5

LEMMA TellsThrough ==
    ASSUME NEW a, NEW b, NEW c, NEW S, NEW first \in Seq(S), NEW second \in Seq(S),
           Tells(a, first, b), Tells(b, second, c)
    PROVE  Tells(a, first \o second, c)
  <1> SUFFICES ASSUME NEW ix, Mirror(ix, a)
               PROVE  \E kx : Leads(ix, first \o second, kx) /\ Mirror(kx, c)
    BY DEF Tells
  <1>1. PICK jx : Leads(ix, first, jx) /\ Mirror(jx, b)
    BY DEF Tells
  <1>2. PICK kx : Leads(jx, second, kx) /\ Mirror(kx, c)
    BY <1>1 DEF Tells
  <1>3. Leads(ix, first \o second, kx)
    BY <1>1, <1>2, LeadsThrough
  <1> QED
    BY <1>2, <1>3

Stages(state, seqs, n, S) ==
    \A k \in 1 .. n : /\ seqs[k] \in Seq(S) /\ seqs[k] # <<>>
                      /\ Tells(state[k - 1], seqs[k], state[k])

\* Event sequences that each tell the next state tell, one after the other,
\* the last.
LEMMA FlatTells ==
    ASSUME NEW n \in Nat \ {0}, NEW S, NEW seqs, Len(seqs) = n, NEW state,
           Stages(state, seqs, n, S)
    PROVE  /\ FlattenSeq(seqs) \in Seq(S) /\ FlattenSeq(seqs) # <<>>
           /\ Tells(state[0], FlattenSeq(seqs), state[n])
  <1>1. PICK g : Flat(g, seqs, n) /\ FlattenSeq(seqs) = g[n]
    BY FlattenFacts
  <1> DEFINE Told(k) == g[k] \in Seq(S) /\ g[k] # <<>> /\ Tells(state[0], g[k], state[k])
             T == {k \in 0 .. n : k = 0 \/ Told(k)}
  <1>2. 0 \in T
    OBVIOUS
  <1>3. ASSUME NEW k \in 0 .. n - 1, k \in T
        PROVE  k + 1 \in T
    <2> DEFINE m == k + 1
    <2>1. m \in 1 .. n /\ m - 1 = k
      OBVIOUS
    <2>2. seqs[m] \in Seq(S) /\ seqs[m] # <<>> /\ Tells(state[k], seqs[m], state[m])
      BY <2>1 DEF Stages
    <2>3. g[m] = IF m = 1 THEN seqs[m] ELSE g[m - 1] \o seqs[m]
      BY <1>1, <2>1 DEF Flat
    <2>4. CASE k = 0
      <3>1. m = 1
        BY <2>4
      <3> HIDE DEF m
      <3>2. g[m] = seqs[m]
        BY <2>3, <3>1
      <3>3. Told(m)
        BY <2>2, <2>4, <3>2
      <3> QED
        BY <2>1, <3>3 DEF m
    <2>5. CASE k # 0
      <3>1. Told(k) /\ m # 1
        BY <1>3, <2>5
      <3> HIDE DEF m
      <3>2. g[m] = g[k] \o seqs[m]
        BY <2>1, <2>3, <3>1
      <3>3. Tells(state[0], g[k] \o seqs[m], state[m])
        BY <2>2, <3>1, TellsThrough
      <3>4. g[k] \o seqs[m] \in Seq(S) /\ g[k] \o seqs[m] # <<>>
        <4> DEFINE a == g[k]
                   b == seqs[m]
        <4>1. a \in Seq(S) /\ b \in Seq(S) /\ b # <<>>
          BY <2>2, <3>1
        <4> HIDE DEF a, b
        <4>2. a \o b \in Seq(S) /\ Len(a \o b) = Len(a) + Len(b) /\ Len(a) \in Nat
          BY <4>1, ConcatFacts
        <4>3. Len(b) \in Nat \ {0}
          BY <4>1
        <4>4. Len(a \o b) # 0
          BY <4>2, <4>3
        <4>5. a \o b # <<>>
          BY <4>4
        <4> QED
          BY <4>2, <4>5 DEF a, b
      <3>5. Told(m)
        BY <3>2, <3>3, <3>4
      <3> QED
        BY <2>1, <3>5 DEF m
    <2> QED
      BY <2>4, <2>5
  <1> HIDE DEF T
  <1>4. n \in T
    BY <1>2, <1>3, RangeInduction
  <1> QED
    BY <1>1, <1>4 DEF T
LEMMA SeqGrows ==
    ASSUME NEW A, NEW B, A \subseteq B, NEW s \in Seq(A)
    PROVE  s \in Seq(B)
  OBVIOUS

LEMMA RouteTells ==
    ASSUME NEW ch, NEW e, e.type = "RouteExecuted", e.block \in Nat, e.day \in 0 .. MaxDay
    PROVE  Tells(ch, <<e>>, ch)
  <1> SUFFICES ASSUME NEW ix, Mirror(ix, ch)
               PROVE  \E jx : Leads(ix, <<e>>, jx) /\ Mirror(jx, ch)
    BY DEF Tells
  <1> DEFINE jx == Handle(ix, e)
  <1>1. PICK Prices : Shaped(ix, Prices)
    BY DEF Mirror, Shape
  <1>2. jx = HandleRouteExecuted(ix, e)
    BY DEF Handle
  <1>3. Good(ix, e)
    BY DEF Good, GoodRoute
  <1> HIDE DEF jx
  <1>4. /\ Shaped(jx, Prices)
        /\ jx.known = ix.known /\ jx.position = ix.position /\ jx.side = ix.side
    BY ZenonT(40), <1>1, <1>2, RouteEffect
  <1>5. ASSUME NEW p \in Positions
        PROVE  Follow(jx, ch[p], p)
    BY <1>4 DEF Mirror, Follow, Fresh, SeesActive, SeesDocked, Sees, Shows, Gone
  <1>6. Mirror(jx, ch)
    BY <1>4, <1>5 DEF Mirror, Shape
  <1>7. Leads(ix, <<e>>, jx)
    BY <1>3, LeadsOne DEF jx
  <1> QED
    BY <1>6, <1>7

LEMMA TradeEmits ==
    ASSUME ChainOK(chain), transactions \in Nat, day \in 0 .. MaxDay,
           NEW route, NEW P \in SUBSET Ours, NEW side \in Sides, NEW kind \in Kinds,
           NEW raw \in FillAmounts, Trade(route, P, side, kind, raw)
    PROVE  \E events : Record(events) /\ Emits(chain, events, chain')
  <1> DEFINE n == Cardinality(P)
             list == SetToSeq(P)
             fill == [p \in P |-> FillOf(p, side, kind, raw)]
             after == [p \in P |-> After(p, side, fill[p])]
             E(p) == FillEvents(p, side, fill[p], after[p].stored, route)
             fills == [i \in 1 .. n |-> E(list[i])]
             tail == IF route = Direct THEN <<>> ELSE <<RouteExecuted(route, n)>>
             events == FlattenSeq(fills) \o tail
  <1>1. /\ P \subseteq Positions /\ IsFiniteSet(P) /\ raw \in Nat
        /\ \A p \in P : p \in Positions /\ p \in Ours
    BY SubgraphAssumption, FS_Subset
  <1>2. /\ n \in IF route = Direct THEN {1} ELSE RouteSizes
        /\ Fillable(P, side, kind, raw)
        /\ chain' = [p \in Positions |-> IF p \in P THEN after[p] ELSE chain[p]]
        /\ Record(events)
    BY ZenonT(40) DEF Trade
  <1>3. /\ n \in Nat \ {0}
        /\ list \in [1 .. n -> P]
        /\ \A i, j \in 1 .. n : list[i] = list[j] => i = j
        /\ \A p \in P : \E i \in 1 .. n : list[i] = p
    <2>1. n # 0
      BY <1>2, SubgraphAssumption
    <2> HIDE DEF n, list
    <2> QED
      BY <1>1, <2>1, ListFacts DEF n, list
  <1>4. ASSUME NEW p \in P
        PROVE  /\ after[p] \in ChainStates /\ after[p].lifecycle = "Active"
               /\ E(p) # <<>> /\ \E S : E(p) \in Seq(S)
               /\ FillTells(p, after[p], E(p))
               /\ chain[p].lifecycle = "Active"
    <2> DEFINE f == fill[p]
    <2>1. f = FillOf(p, side, kind, raw) /\ after[p] = After(p, side, f) /\ p \in Positions
      BY <1>1
    <2>2. /\ chain[p].lifecycle = "Active"
          /\ CanFill(Config[p], Runtime(p), side, kind, raw, Runtime(p).version,
                     chain[p].allocation[SideOut(Config[p], side)])
      BY <1>2 DEF Fillable
    <2>3. E(p) = FillEvents(p, side, f, after[p].stored, route)
      OBVIOUS
    <2> HIDE DEF E, f, fill, after
    <2>4. after[p] = FillState(p, side, f) /\ after[p] \in ChainStates
      <3>1. raw \in Nat
        BY <1>1
      <3>2. After(p, side, f) = FillState(p, side, f) /\ FillState(p, side, f) \in ChainStates
        BY <2>1, <2>2, <3>1, FillFacts
      <3> QED
        BY <2>1, <3>2
    <2>5. E(p) # <<>> /\ (\E S : E(p) \in Seq(S)) /\ FillTells(p, after[p], E(p))
      BY <1>1, <2>1, <2>2, <2>3, <2>4, FillIsTold
    <2>6. after[p].lifecycle = "Active"
      BY <2>4 DEF FillState
    <2> QED
      BY <2>2, <2>4, <2>5, <2>6
  <1> HIDE DEF E, after, fill
  <1> DEFINE SetOf(p) == CHOOSE S : E(p) \in Seq(S)
             V == UNION {SetOf(p) : p \in P}
             U == V \cup {RouteExecuted(route, n)}
             Done(k) == {list[i] : i \in 1 .. k}
             state == [k \in 0 .. n |->
                         [p \in Positions |-> IF p \in Done(k) THEN after[p] ELSE chain[p]]]
  <1>5. \A p \in P : E(p) \in Seq(U)
    <2> TAKE p \in P
    <2>1. E(p) \in Seq(SetOf(p))
      BY <1>4
    <2>2. SetOf(p) \subseteq U
      OBVIOUS
    <2> HIDE DEF U, SetOf
    <2> QED
      BY <2>1, <2>2, SeqGrows
  <1>6. tail \in Seq(U)
    <2> HIDE DEF V
    <2>1. RouteExecuted(route, n) \in U
      OBVIOUS
    <2> HIDE DEF U
    <2> QED
      BY <2>1
  <1>7. Len(fills) = n /\ \A i \in 1 .. n : fills[i] = E(list[i])
    BY <1>3
  <1> HIDE DEF U, V, SetOf, tail, fills
  <1>8. state[0] = chain /\ state[n] = chain'
    <2>1. Done(0) = {} /\ Done(n) = P
      BY <1>3
    <2>2. chain = [p \in Positions |-> chain[p]]
      BY DEF ChainOK
    <2>3. 0 \in 0 .. n /\ n \in 0 .. n
      BY <1>3
    <2> HIDE DEF Done, n
    <2> QED
      BY <1>2, <2>1, <2>2, <2>3
  <1>9. ASSUME NEW k \in 1 .. n
        PROVE  Tells(state[k - 1], fills[k], state[k])
    <2> DEFINE p == list[k]
               j == k - 1
    <2>1. p \in P /\ p \in Positions /\ p \in Ours /\ fills[k] = E(p)
      BY <1>1, <1>3, <1>7
    <2>2. Done(k) = Done(j) \cup {p} /\ p \notin Done(j)
      <3>1. /\ \A i \in 1 .. k : i \in 1 .. j \/ i = k
            /\ \A i \in 1 .. j : i \in 1 .. k /\ i # k /\ i \in 1 .. n
            /\ k \in 1 .. k
        BY <1>3
      <3> HIDE DEF j
      <3> QED
        BY <1>3, <3>1
    <2>3. /\ \A q \in Positions \ {p} : state[k][q] = state[j][q]
          /\ state[j][p] = chain[p] /\ state[k][p] = after[p]
      <3>1. k \in 0 .. n /\ j \in 0 .. n
        BY <1>3
      <3>2. /\ \A q \in Positions : state[k][q] = IF q \in Done(k) THEN after[q] ELSE chain[q]
            /\ \A q \in Positions : state[j][q] = IF q \in Done(j) THEN after[q] ELSE chain[q]
        BY <3>1
      <3> HIDE DEF state, Done, p, j
      <3> QED
        BY <2>1, <2>2, <3>2
    <2> HIDE DEF state, p, j
    <2> SUFFICES ASSUME NEW ix, Mirror(ix, state[j])
                 PROVE  \E jx : Leads(ix, fills[k], jx) /\ Mirror(jx, state[k])
      BY DEF Tells, j
    <2>4. Shape(ix) /\ SeesActive(ix, chain[p], p)
      <3>1. Follow(ix, chain[p], p)
        BY <2>1, <2>3 DEF Mirror
      <3>2. chain[p].lifecycle = "Active"
        BY <1>4, <2>1
      <3> QED
        BY <2>1, <3>1, <3>2 DEF Mirror, Follow
    <2>5. PICK jx : /\ Leads(ix, E(p), jx) /\ Shape(jx) /\ Touches(ix, jx, p)
                    /\ SeesActive(jx, after[p], p)
      BY <1>4, <2>1, <2>4 DEF FillTells
    <2>6. Follow(jx, state[k][p], p)
      BY <1>4, <2>1, <2>3, <2>5 DEF Follow
    <2>7. Mirror(jx, state[k])
      BY <2>1, <2>3, <2>5, <2>6, MirrorOne
    <2> QED
      BY <2>1, <2>5, <2>7
  <1> HIDE DEF state, n, list, Done
  <1>10. Stages(state, fills, n, U)
    <2>1. ASSUME NEW k \in 1 .. n
          PROVE  fills[k] \in Seq(U) /\ fills[k] # <<>>
      <3>1. list[k] \in P /\ fills[k] = E(list[k])
        BY <1>3, <1>7
      <3> QED
        BY <1>4, <1>5, <3>1
    <2> QED
      BY <1>9, <2>1 DEF Stages
  <1>11. /\ FlattenSeq(fills) \in Seq(U) /\ FlattenSeq(fills) # <<>>
         /\ Tells(state[0], FlattenSeq(fills), state[n])
    BY <1>3, <1>7, <1>10, FlatTells
  <1>12. Tells(chain', tail, chain')
    <2> DEFINE e == RouteExecuted(route, n)
    <2>1. e.type = "RouteExecuted" /\ e.block \in Nat /\ e.day = day
      BY DEF RouteExecuted, Block
    <2> HIDE DEF e
    <2>2. Tells(chain', <<e>>, chain')
      BY <2>1, RouteTells
    <2>3. Tells(chain', <<>>, chain')
      BY LeadsNone DEF Tells
    <2> QED
      BY <2>2, <2>3 DEF tail, e
  <1>13. Tells(chain, events, chain')
    BY <1>6, <1>8, <1>11, <1>12, TellsThrough
  <1>14. events \in Seq(U) /\ events # <<>>
    <2> DEFINE a == FlattenSeq(fills)
    <2>1. a \in Seq(U) /\ a # <<>> /\ tail \in Seq(U)
      BY <1>6, <1>11
    <2> HIDE DEF a
    <2>2. a \o tail \in Seq(U) /\ Len(a \o tail) = Len(a) + Len(tail) /\ Len(tail) \in Nat
      BY <2>1, ConcatFacts
    <2>3. Len(a) \in Nat \ {0}
      BY <2>1
    <2>4. Len(a \o tail) # 0
      BY <2>2, <2>3
    <2>5. a \o tail # <<>>
      BY <2>4
    <2> QED
      BY <2>2, <2>5 DEF a
  <1>15. ChainOK(chain')
    <2>1. \A p \in Positions : chain[p] \in ChainStates
      BY DEF ChainOK
    <2>2. chain' \in [Positions -> ChainStates]
      BY <1>2, <1>4, <2>1
    <2>3. ASSUME NEW p \in Positions
          PROVE  /\ chain'[p].lifecycle = "Unknown" => chain'[p].stored = Unset
                 /\ chain'[p].lifecycle = "Docked" => chain'[p].allocation = [t \in Tokens |-> 0]
      <3>1. CASE p \in P
        <4>1. chain'[p].lifecycle = "Active"
          BY <1>2, <1>4, <3>1
        <4> QED
          BY <4>1
      <3>2. CASE p \notin P
        <4>1. chain'[p] = chain[p]
          BY <1>2, <3>2
        <4> QED
          BY <4>1 DEF ChainOK
      <3> QED
        BY <3>1, <3>2
    <2> QED
      BY <2>2, <2>3 DEF ChainOK
  <1> HIDE DEF events
  <1> QED
    BY <1>2, <1>13, <1>14, <1>15 DEF Emits
-----------------------------------------------------------------------------
(* The invariant: the index is sound, and the log leads from it to the      *)
(* chain, transaction by transaction.                                       *)

TrailOf(at, ix, n, pending, ch) ==
    /\ at[1] = ix
    /\ \A i \in 1 .. n : Leads(at[i], pending[i], at[i + 1])
    /\ Mirror(at[n + 1], ch)

Trail(at) == TrailOf(at, index, Len(log), log, chain)

Backlog ==
    /\ \E E : log \in Seq(Seq(E))
    /\ Len(log) <= MaxBacklog
    /\ \A i \in 1 .. Len(log) : log[i] # <<>>

IInv ==
    /\ ChainOK(chain)
    /\ day \in 0 .. MaxDay /\ transactions \in 0 .. MaxTransactions
    /\ Backlog
    /\ Sound(index)
    /\ \E at : Trail(at)

LEMMA NoTotal ==
    ASSUME NEW count, NEW G, IsFiniteSet(G), NEW c, \A x \in G : count[x][c] = 0
    PROVE  GroupTotal(count, G, c) = 0
  <1> DEFINE f == [x \in G |-> count[x][c]]
  <1>1. \A x \in G : f[x] = 0
    OBVIOUS
  <1> HIDE DEF f
  <1>2. SumFunctionOnSet(f, G) = Cardinality({x \in G : f[x] = 1})
    BY <1>1, SumOfMarks
  <1>3. {x \in G : f[x] = 1} = {}
    BY <1>1
  <1> QED
    BY <1>2, <1>3, FS_EmptySet DEF GroupTotal, f

LEMMA InitIsSound ==
    ASSUME Init
    PROVE  Sound(index)
  <1> DEFINE Prices == {Config[p][s].startPrice : p \in Positions, s \in Sides}
             count == index.count
  <1>1. /\ index.known = {} /\ index.fills = {} /\ index.count = [scope \in Scopes |-> NoCount]
        /\ index.position = [p \in Positions |-> NewPosition]
        /\ index.side = [p \in Positions |-> [s \in Sides |-> NewSide(Config[p][s])]]
        /\ index = [known |-> index.known, position |-> index.position, side |-> index.side,
                    fills |-> index.fills, routes |-> index.routes, count |-> index.count]
    BY DEF Init
  <1>2. /\ NewPosition \in PositionEntities /\ NewPosition.active
        /\ NewPosition.runtimeVersion = 0
    BY DEF NewPosition, PositionEntities
  <1>3. ASSUME NEW p \in Positions, NEW s \in Sides
        PROVE  NewSide(Config[p][s]) \in SideEntities(Prices)
    <2>1. /\ Config[p][s].initialReserve \in Amounts
          /\ (Config[p][s].initialReserve > 0) \in BOOLEAN
          /\ Config[p][s].startPrice \in Prices
      BY SubgraphAssumption
    <2> HIDE DEF Prices
    <2> QED
      BY <2>1 DEF NewSide, SideEntities
  <1> HIDE DEF Prices
  <1>4. Shaped(index, Prices)
    BY <1>1, <1>2, <1>3 DEF Shaped
  <1>5. NoCount \in Counts /\ \A c \in Counters : NoCount[c] = 0
    BY DEF NoCount, Counts, Counters
  <1>6. index.count \in [Scopes -> Counts] /\ \A scope \in Scopes, c \in Counters : count[scope][c] = 0
    BY <1>1, <1>5
  <1>7. ASSUME NEW c \in Counters
        PROVE  /\ GroupTotal(count, MakerScopes, c) = 0 /\ GroupTotal(count, DayScopes, c) = 0
               /\ count[<<"market">>][c] = 0 /\ count[<<"protocol">>][c] = 0
    <2> HIDE DEF count
    <2> QED
      BY <1>6, NoTotal, GroupsFinite, ScopeFacts
  <1>8. AddsUp(count)
    BY <1>7, GroupCounters DEF AddsUp
  <1>9. ActiveAdds(index)
    <2>1. Listed(index) = {} /\ \A m : ListedOf(index, m) = {}
      BY <1>1 DEF Listed, ListedOf
    <2>2. "active" \in Counters
      BY CounterNames
    <2>3. /\ index.count[<<"market">>].active = 0
          /\ \A m \in Makers : index.count[<<"maker", m>>].active = 0
      BY <1>6, <2>2, ScopeFacts
    <2> QED
      BY <2>1, <2>3, FS_EmptySet DEF ActiveAdds
  <1>10. FillsAdd(index)
    <2>1. \A p \in Positions : FillsOf(index, p) = {} /\ index.position[p].runtimeVersion = 0
      BY <1>1, <1>2 DEF FillsOf
    <2> QED
      BY <1>1, <2>1, FS_EmptySet DEF FillsAdd
  <1> QED
    BY <1>1, <1>2, <1>4, <1>6, <1>8, <1>9, <1>10 DEF Sound, Shape

LEMMA InitIInv == Init => IInv
  <1> SUFFICES ASSUME Init PROVE IInv
    OBVIOUS
  <1>1. Sound(index)
    BY InitIsSound
  <1>2. ChainOK(chain)
    <2> DEFINE state == [lifecycle |-> "Unknown", stored |-> Unset,
                         allocation |-> [t \in Tokens |-> 0]]
    <2>1. state \in ChainStates
      BY UnsetFacts DEF ChainStates
    <2>2. chain = [p \in Positions |-> state]
      BY DEF Init
    <2>3. state.lifecycle = "Unknown" /\ state.stored = Unset
      OBVIOUS
    <2> HIDE DEF state
    <2> QED
      BY <2>1, <2>2, <2>3 DEF ChainOK
  <1>3. Mirror(index, chain)
    <2>1. ASSUME NEW p \in Positions
          PROVE  Follow(index, chain[p], p)
      BY DEF Init, Follow, Fresh, NewSides
    <2> QED
      BY <1>1, <2>1 DEF Mirror, Sound
  <1>4. \E at : Trail(at)
    <2> DEFINE at == [i \in {1} |-> index]
    <2>1. Trail(at)
      BY <1>3 DEF Trail, TrailOf, Init
    <2> QED
      BY <2>1
  <1>5. Backlog
    <2>1. log = <<>> /\ Len(log) = 0
      BY DEF Init
    <2>2. log \in Seq(Seq({}))
      BY <2>1
    <2> QED
      BY <2>1, <2>2, SubgraphAssumption DEF Backlog
  <1> QED
    BY <1>1, <1>2, <1>4, <1>5, SubgraphAssumption DEF IInv, Init

\* What is left of a transaction after its first event.
LEMMA NextEvent ==
    ASSUME IInv, log # <<>>
    PROVE  /\ Good(index, Event)
           /\ \E at, E :
                /\ Trail(at) /\ log \in Seq(Seq(E)) /\ Len(log) >= 1
                /\ Head(log) = log[1] /\ log[1] \in Seq(E) /\ log[1] # <<>>
                /\ Leads(Handle(index, Event), Tail(log[1]), at[2])
                /\ Len(log[1]) = 1 => at[2] = Handle(index, Event)
  <1>1. PICK at : Trail(at)
    BY DEF IInv
  <1>2. PICK E : log \in Seq(Seq(E))
    BY DEF IInv, Backlog
  <1>3. Len(log) \in Nat /\ Len(log) >= 1 /\ Head(log) = log[1] /\ log[1] \in Seq(E)
    BY <1>2
  <1>4. log[1] # <<>>
    BY <1>3 DEF IInv, Backlog
  <1>5. Leads(index, log[1], at[2])
    <2>1. 1 \in 1 .. Len(log) /\ 1 + 1 = 2
      BY <1>3
    <2> QED
      BY <1>1, <2>1 DEF Trail, TrailOf
  <1>6. /\ Good(index, Head(log[1]))
        /\ Leads(Handle(index, Head(log[1])), Tail(log[1]), at[2])
        /\ Len(log[1]) = 1 => at[2] = Handle(index, Head(log[1]))
    BY <1>3, <1>4, <1>5, LeadsOn
  <1>7. Event = Head(log[1])
    BY <1>3 DEF Event
  <1> QED
    BY <1>1, <1>2, <1>3, <1>4, <1>6, <1>7

Consumed == IF Len(Head(log)) = 1 THEN Tail(log) ELSE [log EXCEPT ![1] = Tail(@)]

LEMMA IndexerHandles ==
    ASSUME Indexer
    PROVE  /\ log # <<>> /\ index' = Handle(index, Event) /\ log' = Consumed
           /\ UNCHANGED <<chain, day, transactions>>
  BY DEF Indexer, IndexShipped, IndexPushed, IndexPulled, IndexDocked, IndexRuntimeInitialized,
         IndexCurveFilled, IndexRouteExecuted, Indexes, Handle, Consumed

LEMMA IndexerStep == IInv /\ Indexer => IInv'
  <1> SUFFICES ASSUME IInv, Indexer PROVE IInv'
    OBVIOUS
  <1>1. /\ log # <<>> /\ index' = Handle(index, Event) /\ log' = Consumed
        /\ chain' = chain /\ day' = day /\ transactions' = transactions
    BY IndexerHandles
  <1> DEFINE jx == Handle(index, Event)
             n == Len(log)
  <1>2. PICK at, E :
          /\ Good(index, Event)
          /\ Trail(at) /\ log \in Seq(Seq(E)) /\ n >= 1
          /\ Head(log) = log[1] /\ log[1] \in Seq(E) /\ log[1] # <<>>
          /\ Leads(jx, Tail(log[1]), at[2])
          /\ Len(log[1]) = 1 => at[2] = jx
    BY <1>1, NextEvent
  <1>3. Sound(jx)
    BY <1>2, HandleIsSound DEF IInv
  <1>4. /\ n \in Nat /\ n <= MaxBacklog /\ \A i \in 1 .. n : log[i] # <<>>
        /\ \A i \in 1 .. n : log[i] \in Seq(E)
    BY <1>2 DEF IInv, Backlog
  <1>5. /\ at[1] = index /\ (\A i \in 1 .. n : Leads(at[i], log[i], at[i + 1]))
        /\ Mirror(at[n + 1], chain)
    BY <1>2 DEF Trail, TrailOf, n
  <1>8. ASSUME NEW to, TrailOf(to, jx, Len(log'), log', chain), Backlog'
        PROVE  IInv'
    <2>1. \E t : TrailOf(t, index', Len(log'), log', chain')
      BY <1>1, <1>8
    <2>2. (\E t : Trail(t))'
      BY <2>1 DEF Trail
    <2> QED
      BY <1>1, <1>3, <1>8, <2>2 DEF IInv
  <1> HIDE DEF jx, n
  <1>6. CASE Len(log[1]) = 1
    <2> DEFINE to == [i \in 1 .. n |-> at[i + 1]]
               new == Tail(log)
    <2>1. log' = new
      BY <1>1, <1>2, <1>6 DEF Consumed
    <2>2. new \in Seq(Seq(E)) /\ Len(new) = n - 1 /\ \A i \in 1 .. n - 1 : new[i] = log[i + 1]
      BY <1>2 DEF n
    <2>3. \A i \in 1 .. n : to[i] = at[i + 1]
      OBVIOUS
    <2> HIDE DEF to, new
    <2>4. TrailOf(to, jx, n - 1, new, chain)
      <3>1. to[1] = jx
        BY <1>2, <1>4, <1>6, <2>3
      <3>2. ASSUME NEW i \in 1 .. n - 1
            PROVE  Leads(to[i], new[i], to[i + 1])
        <4>1. i \in 1 .. n /\ i + 1 \in 1 .. n
          BY <1>4
        <4> QED
          BY <1>5, <2>2, <2>3, <4>1
      <3>3. Mirror(to[n], chain)
        BY <1>2, <1>4, <1>5, <2>3
      <3>4. (n - 1) + 1 = n
        BY <1>4
      <3> QED
        BY <3>1, <3>2, <3>3, <3>4 DEF TrailOf
    <2>5. Backlog'
      <3>1. \A i \in 1 .. n - 1 : new[i] # <<>>
        <4> TAKE i \in 1 .. n - 1
        <4>1. i + 1 \in 1 .. n
          BY <1>4
        <4> QED
          BY <1>4, <2>2, <4>1
      <3>2. n - 1 <= MaxBacklog
        BY <1>4, SubgraphAssumption
      <3> QED
        BY <2>1, <2>2, <3>1, <3>2 DEF Backlog
    <2> QED
      BY <1>8, <2>1, <2>2, <2>4, <2>5
  <1>7. CASE Len(log[1]) # 1
    <2> DEFINE to == [i \in 1 .. n + 1 |-> IF i = 1 THEN jx ELSE at[i]]
               new == [log EXCEPT ![1] = Tail(log[1])]
               rest == Tail(log[1])
    <2>1. log' = new
      BY <1>1, <1>2, <1>7 DEF Consumed
    <2>2. rest \in Seq(E) /\ rest # <<>>
      <3>1. rest \in Seq(E) /\ Len(rest) = Len(log[1]) - 1 /\ Len(log[1]) \in Nat
        BY <1>2
      <3> HIDE DEF rest
      <3>2. Len(rest) # 0
        BY <1>7, <3>1
      <3>3. rest # <<>>
        BY <3>2
      <3> QED
        BY <3>1, <3>3
    <2>3. /\ new \in Seq(Seq(E)) /\ Len(new) = n /\ new[1] = rest
          /\ \A i \in 2 .. n : new[i] = log[i]
      <3> HIDE DEF rest
      <3>1. new = [log EXCEPT ![1] = rest]
        BY DEF rest
      <3> HIDE DEF new
      <3> QED
        BY <1>2, <2>2, <3>1 DEF n
    <2>4. to[1] = jx /\ \A i \in 2 .. n + 1 : to[i] = at[i]
      BY <1>4
    <2> HIDE DEF to, new, rest
    <2>5. TrailOf(to, jx, n, new, chain)
      <3>1. to[1] = jx
        BY <2>4
      <3>2. ASSUME NEW i \in 1 .. n
            PROVE  Leads(to[i], new[i], to[i + 1])
        <4>1. i + 1 \in 2 .. n + 1
          BY <1>4
        <4>2. CASE i = 1
          <5>1. to[i] = jx /\ new[i] = rest /\ to[i + 1] = at[2]
            BY <2>3, <2>4, <4>1, <4>2
          <5>2. Leads(jx, rest, at[2])
            BY <1>2 DEF rest
          <5> QED
            BY <5>1, <5>2
        <4>3. CASE i # 1
          <5>1. i \in 2 .. n /\ i \in 2 .. n + 1
            BY <1>4, <4>3
          <5> QED
            BY <1>5, <2>3, <2>4, <4>1, <5>1
        <4> QED
          BY <4>2, <4>3
      <3>3. Mirror(to[n + 1], chain)
        BY <1>2, <1>4, <1>5, <2>4
      <3> QED
        BY <3>1, <3>2, <3>3 DEF TrailOf
    <2>6. Backlog'
      <3>1. \A i \in 1 .. n : new[i] # <<>>
        <4> TAKE i \in 1 .. n
        <4>1. i = 1 \/ i \in 2 .. n
          BY <1>4
        <4> QED
          BY <1>4, <2>2, <2>3, <4>1
      <3> QED
        BY <1>4, <2>1, <2>3, <3>1 DEF Backlog
    <2> QED
      BY <1>8, <2>1, <2>3, <2>5, <2>6
  <1> QED
    BY <1>6, <1>7

LEMMA RecordStep ==
    ASSUME IInv, Room, NEW events, Record(events), Emits(chain, events, chain'),
           UNCHANGED <<day, index>>
    PROVE  IInv'
  <1> DEFINE n == Len(log)
  <1>1. PICK at : Trail(at)
    BY DEF IInv
  <1>2. PICK E : log \in Seq(Seq(E))
    BY DEF IInv, Backlog
  <1>3. PICK S : events \in Seq(S)
    BY DEF Emits
  <1>4. /\ ChainOK(chain') /\ events # <<>> /\ Tells(chain, events, chain')
        /\ log' = Append(log, events) /\ transactions' = transactions + 1
        /\ day' = day /\ index' = index
        /\ transactions < MaxTransactions /\ n < MaxBacklog
    BY DEF Emits, Record, Room
  <1>5. /\ at[1] = index /\ (\A i \in 1 .. n : Leads(at[i], log[i], at[i + 1]))
        /\ Mirror(at[n + 1], chain)
    BY <1>1 DEF Trail, TrailOf
  <1>6. PICK jx : Leads(at[n + 1], events, jx) /\ Mirror(jx, chain')
    BY <1>4, <1>5 DEF Tells
  <1> DEFINE new == Append(log, events)
             to == [i \in 1 .. n + 2 |-> IF i = n + 2 THEN jx ELSE at[i]]
  <1>7. /\ n \in Nat /\ Len(new) = n + 1 /\ new[n + 1] = events
        /\ \A i \in 1 .. n : new[i] = log[i]
    BY <1>2
  <1>8. new \in Seq(Seq(E \cup S))
    <2>1. Seq(E) \subseteq Seq(E \cup S) /\ events \in Seq(E \cup S)
      BY <1>3, SeqGrows
    <2>2. log \in Seq(Seq(E \cup S))
      BY <1>2, <2>1, SeqGrows
    <2> QED
      BY <2>1, <2>2
  <1> HIDE DEF new, n
  <1>9. to[n + 2] = jx /\ \A i \in 1 .. n + 1 : to[i] = at[i]
    BY <1>7
  <1> HIDE DEF to
  <1>10. TrailOf(to, index, n + 1, new, chain')
    <2>1. ASSUME NEW i \in 1 .. n + 1
          PROVE  Leads(to[i], new[i], to[i + 1])
      <3>1. CASE i = n + 1
        <4>1. i + 1 = n + 2
          BY <1>7, <3>1
        <4> QED
          BY <1>6, <1>7, <1>9, <3>1, <4>1
      <3>2. CASE i # n + 1
        <4>1. i \in 1 .. n /\ i + 1 \in 1 .. n + 1
          BY <1>7, <3>2
        <4> QED
          BY <1>5, <1>7, <1>9, <4>1
      <3> QED
        BY <3>1, <3>2
    <2>2. to[1] = index
      BY <1>5, <1>7, <1>9
    <2>3. (n + 1) + 1 = n + 2
      BY <1>7
    <2> QED
      BY <1>6, <1>9, <2>1, <2>2, <2>3 DEF TrailOf
  <1>14. (\E t : Trail(t))'
    <2>1. \E t : TrailOf(t, index', Len(log'), log', chain')
      BY <1>4, <1>7, <1>10 DEF new
    <2> QED
      BY <2>1 DEF Trail
  <1>11. Backlog'
    <2>1. \A i \in 1 .. n + 1 : new[i] # <<>>
      <3> TAKE i \in 1 .. n + 1
      <3>1. i = n + 1 \/ i \in 1 .. n
        BY <1>7
      <3> QED
        BY <1>4, <1>7, <3>1 DEF IInv, Backlog, n
    <2>2. n + 1 <= MaxBacklog
      BY <1>4, <1>7, SubgraphAssumption
    <2> QED
      BY <1>4, <1>7, <1>8, <2>1, <2>2 DEF Backlog, new
  <1>12. transactions' \in 0 .. MaxTransactions
    BY <1>4, SubgraphAssumption DEF IInv
  <1>13. Sound(index') /\ day' \in 0 .. MaxDay
    BY <1>4 DEF IInv
  <1> QED
    BY <1>4, <1>11, <1>12, <1>13, <1>14 DEF IInv

LEMMA NextIInv == IInv /\ [Next]_vars => IInv'
  <1> SUFFICES ASSUME IInv, [Next]_vars PROVE IInv'
    OBVIOUS
  <1>1. ChainOK(chain) /\ transactions \in Nat /\ day \in 0 .. MaxDay
    BY SubgraphAssumption DEF IInv
  <1>2. CASE Indexer
    BY <1>2, IndexerStep
  <1>3. ASSUME NEW p \in Positions, NEW b \in ShipAmounts, NEW q \in ShipAmounts, Ship(p, b, q)
        PROVE  IInv'
    <2>1. PICK events : Record(events) /\ Emits(chain, events, chain')
      BY <1>1, <1>3, ShipEmits
    <2> QED
      BY <1>3, <2>1, RecordStep DEF Ship
  <1>4. ASSUME NEW p \in Positions, NEW amount \in Gifts,
               NEW token \in {Config[p].base, Config[p].quote}, Gift(p, token, amount)
        PROVE  IInv'
    <2>1. PICK events : Record(events) /\ Emits(chain, events, chain')
      BY <1>1, <1>4, GiftEmits
    <2> QED
      BY <1>4, <2>1, RecordStep DEF Gift
  <1>5. ASSUME NEW p \in Positions, Dock(p)
        PROVE  IInv'
    <2>1. PICK events : Record(events) /\ Emits(chain, events, chain')
      BY <1>1, <1>5, DockEmits
    <2> QED
      BY <1>5, <2>1, RecordStep DEF Dock
  <1>6. ASSUME NEW route, NEW P \in SUBSET Ours, NEW side \in Sides, NEW kind \in Kinds,
               NEW raw \in FillAmounts, Trade(route, P, side, kind, raw)
        PROVE  IInv'
    <2>1. PICK events : Record(events) /\ Emits(chain, events, chain')
      BY <1>1, <1>6, TradeEmits
    <2>2. Room /\ UNCHANGED <<day, index>>
      BY <1>6 DEF Trade
    <2> QED
      BY <2>1, <2>2, RecordStep
  <1>7. CASE NextDay
    <2>1. /\ day' \in 0 .. MaxDay /\ chain' = chain /\ transactions' = transactions
          /\ log' = log /\ index' = index
      BY <1>1, <1>7, SubgraphAssumption DEF NextDay
    <2> QED
      BY <2>1 DEF IInv, Backlog, Trail, TrailOf
  <1>8. CASE UNCHANGED vars
    BY <1>8 DEF vars, IInv, Backlog, Trail
  <1> QED
    BY <1>2, <1>3, <1>4, <1>5, <1>6, <1>7, <1>8 DEF Next, Transaction

LEMMA Inductive == Spec => []IInv
  BY InitIInv, NextIInv, PTL DEF Spec
-----------------------------------------------------------------------------
(* What the invariant says of the index.                                    *)

LEMMA SoundAddsUp == IInv => TypeOK /\ CountersAddUp
  <1> SUFFICES ASSUME IInv PROVE TypeOK /\ CountersAddUp
    OBVIOUS
  <1>1. Sound(index)
    BY DEF IInv
  <1>2. index.known \subseteq Ours /\ index.count \in [Scopes -> Counts]
    BY <1>1 DEF Sound, Shape, Shaped
  <1>3. TypeOK
    BY <1>2 DEF TypeOK, IInv, Backlog, ChainOK, ChainStates
  <1>4. \A S, c : Total(S, c) = GroupTotal(index.count, S, c)
    BY DEF Total, GroupTotal
  <1>5. /\ \A c \in {"positions", "active", "fills", "base", "quote"} :
             index.count[<<"market">>][c] = Total({"maker"} \X Makers, c)
        /\ \A c \in {"fills", "routes", "base", "quote"} :
             index.count[<<"market">>][c] = Total({"day"} \X (0 .. MaxDay), c)
        /\ \A c \in {"positions", "active", "fills", "routes"} :
             index.count[<<"market">>][c] = index.count[<<"protocol">>][c]
    BY <1>1, <1>4 DEF Sound, AddsUp, MakerScopes, DayScopes, MakerCounters, DayCounters,
                      ProtocolCounters
  <1>6. index.count[<<"market">>].active = Cardinality({p \in index.known : index.position[p].active})
    BY <1>1 DEF Sound, ActiveAdds, Listed
  <1>7. \A p \in index.known :
          index.position[p].runtimeVersion = Cardinality({f \in index.fills : f.position = p})
    BY <1>1, <1>2, SubgraphAssumption DEF Sound, FillsAdd, FillsOf
  <1> QED
    BY <1>3, <1>5, <1>6, <1>7 DEF CountersAddUp

LEMMA GoodIsCovered == IInv => PullsAreCovered
  <1> SUFFICES ASSUME IInv, log # <<>>, Event.type = "Pulled", Event.position \in index.known
               PROVE  Covered(index, Event)
    BY DEF PullsAreCovered, Covered
  <1>1. Good(index, Event)
    BY NextEvent
  <1> QED
    BY <1>1 DEF Good, GoodLifecycle, GoodTransfer, GoodRuntime, GoodFill, GoodRoute

\* Whatever is shipped, filled, gifted or docked, in whatever order, and
\* however far the indexer lags: after every event the entities are well
\* formed, no pull is clamped, and the counters of makers, days, market and
\* protocol agree with each other and with the entities (aqua.ts, router.ts,
\* executor.ts, common.ts).
THEOREM SubgraphIsSound == Spec => []IndexIsSound
  <1>1. IInv => IndexIsSound
    BY SoundAddsUp, GoodIsCovered DEF IndexIsSound
  <1> QED
    BY <1>1, Inductive, PTL

MirrorsSide(p, s) ==
    /\ index.side[p][s].y = Runtime(p)[s].y
    /\ index.side[p][s].yInt = Runtime(p)[s].yInt
    /\ index.side[p][s].aquaAllocationRaw = chain[p].allocation[SideOut(Config[p], s)]
    /\ index.side[p][s].active = (index.position[p].active /\ Runtime(p)[s].y > 0)

LEMMA MirrorShows ==
    ASSUME ChainOK(chain), Mirror(index, chain)
    PROVE  /\ index.known = {p \in Ours : chain[p].lifecycle # "Unknown"}
           /\ \A p \in index.known : Mirrors(p)
  <1>1. index.known \subseteq Ours /\ Ours \subseteq Positions
    BY SubgraphAssumption DEF Mirror, Shape, Shaped
  <1>2. ASSUME NEW p \in Ours
        PROVE  p \in index.known <=> chain[p].lifecycle # "Unknown"
    <2>1. Follow(index, chain[p], p)
      BY <1>1 DEF Mirror
    <2> QED
      BY <2>1 DEF Follow, Fresh, SeesActive, SeesDocked, Sees, Shows, Gone
  <1>3. ASSUME NEW p \in index.known
        PROVE  Mirrors(p)
    <2> DEFINE runtime == Resolve(Config[p], chain[p].stored)
               base == chain[p].allocation[Config[p].base]
               quote == chain[p].allocation[Config[p].quote]
    <2>1. p \in Ours /\ p \in Positions /\ Follow(index, chain[p], p) /\ p \in index.known
      BY <1>1 DEF Mirror
    <2>2. /\ runtime = Runtime(p)
          /\ SideOut(Config[p], "Sell") = Config[p].base
          /\ SideOut(Config[p], "Buy") = Config[p].quote
      BY DEF Runtime, SideOut, TokenOut
    <2>3. /\ chain[p] \in ChainStates /\ base \in Nat /\ quote \in Nat
          /\ Factor[Config[p].base] \in Nat /\ Factor[Config[p].quote] \in Nat
      BY <2>1, ConfigFacts, StateFacts, TokenAssumption DEF ChainOK
    <2>4. /\ runtime.initialized = chain[p].stored.initialized
          /\ runtime.Sell.y \in Nat /\ runtime.Buy.y \in Nat
      <3>1. chain[p].stored \in Runtimes /\ runtime \in Runtimes
        BY <2>1, <2>3, StateFacts, ConfigFacts, ResolveType
      <3>2. runtime.initialized = chain[p].stored.initialized
        <4>1. Initial(Config[p]).initialized = FALSE
          BY UnsetFacts DEF Initial, Unset
        <4>2. chain[p].stored.initialized \in BOOLEAN
          BY <3>1, RuntimeFacts
        <4> QED
          BY <4>1, <4>2 DEF Resolve
      <3> HIDE DEF runtime
      <3> QED
        BY <3>1, <3>2, RuntimeFacts, WireDomain
    <2> HIDE DEF runtime
    <2>6. /\ index.position[p].active \in BOOLEAN /\ index.position[p].docked \in BOOLEAN
          /\ index.position[p].sufficientlyAllocated \in BOOLEAN
          /\ index.side[p].Sell.active \in BOOLEAN /\ index.side[p].Buy.active \in BOOLEAN
      <3>1. PICK Prices : Shaped(index, Prices)
        BY DEF Mirror, Shape
      <3>2. /\ index.position[p] \in PositionEntities
            /\ index.side[p].Sell \in SideEntities(Prices)
            /\ index.side[p].Buy \in SideEntities(Prices)
        BY <2>1, <3>1, EntityFacts
      <3> QED
        BY <3>2 DEF PositionEntities, SideEntities
    <2>5. CASE chain[p].lifecycle = "Active" /\ SeesActive(index, chain[p], p)
      <3>1. Shows(index, p, chain[p].stored.initialized, runtime, base, quote)
        BY <2>5 DEF SeesActive, Sees, runtime
      <3>2. Enough(p, base, quote, runtime.Sell.y, runtime.Buy.y)
              <=> \A s \in Sides : chain[p].allocation[SideOut(Config[p], s)]
                                     * Factor[SideOut(Config[p], s)] >= runtime[s].y
        BY <2>2 DEF Enough, RawToWad, Sides
      <3>3. /\ index.position[p].active = TRUE /\ index.position[p].docked = FALSE
            /\ index.position[p].initialized = runtime.initialized
            /\ index.position[p].runtimeVersion = runtime.version
        BY <2>4, <2>6, <3>1 DEF Shows
      <3>4. ASSUME NEW s \in Sides
            PROVE  MirrorsSide(p, s)
        BY <2>2, <2>6, <3>1, <3>3 DEF Shows, Sides, MirrorsSide
      <3>5. index.position[p].sufficientlyAllocated <=>
              \A s \in Sides : chain[p].allocation[SideOut(Config[p], s)]
                                 * Factor[SideOut(Config[p], s)] >= runtime[s].y
        BY <3>1, <3>2 DEF Shows
      <3> QED
        BY <2>2, <2>5, <3>3, <3>4, <3>5 DEF Mirrors, MirrorsSide
    <2>7. CASE chain[p].lifecycle = "Docked" /\ SeesDocked(index, chain[p], p)
      <3>1. Gone(index, p, chain[p].stored.initialized, runtime)
        BY <2>7 DEF SeesDocked, runtime
      <3>2. base = 0 /\ quote = 0
        BY <2>1, <2>7, ConfigFacts DEF ChainOK
      <3>3. /\ index.position[p].active = FALSE /\ index.position[p].docked = TRUE
            /\ index.position[p].initialized = runtime.initialized
            /\ index.position[p].runtimeVersion = runtime.version
            /\ index.position[p].sufficientlyAllocated = FALSE
        BY <2>4, <2>6, <3>1 DEF Gone
      <3>4. ASSUME NEW s \in Sides
            PROVE  MirrorsSide(p, s)
        BY <2>2, <2>6, <3>1, <3>2, <3>3 DEF Gone, Sides, MirrorsSide
      <3> QED
        BY <2>2, <2>7, <3>3, <3>4 DEF Mirrors, MirrorsSide
    <2> QED
      BY <2>1, <2>5, <2>7 DEF Follow, Fresh
  <1> QED
    BY <1>1, <1>2, <1>3

LEMMA CaughtUp == IInv => IndexMirrorsChain
  <1> SUFFICES ASSUME IInv, log = <<>>
               PROVE  /\ index.known = {p \in Ours : chain[p].lifecycle # "Unknown"}
                      /\ \A p \in index.known : Mirrors(p)
    BY DEF IndexMirrorsChain
  <1>1. PICK at : Trail(at)
    BY DEF IInv
  <1>2. Mirror(index, chain)
    <2>1. Len(log) + 1 = 1
      OBVIOUS
    <2> QED
      BY <1>1, <2>1 DEF Trail, TrailOf
  <1> QED
    BY <1>2, MirrorShows DEF IInv

\* Whenever the indexer has caught up, the index is the state of Aqua and of
\* the router: the positions that our router was shipped, their lifecycle,
\* runtime and allocations, however the deltas and snapshots were spread
\* over events and transactions (aqua.ts, router.ts).
THEOREM SubgraphMirrorsChain == Spec => []IndexMirrorsChain
  BY CaughtUp, Inductive, PTL
-----------------------------------------------------------------------------
(* The queries of ProductViews, which see the index block by block.         *)

BlocksOK ==
    /\ Len(log) <= transactions
    /\ DOMAIN blocks = 0 .. Indexed
    /\ log = <<>> => blocks[Indexed] = index

LEMMA PendingCount == IInv => Len(log) \in Nat /\ (log = <<>> <=> Len(log) = 0)
  <1> SUFFICES ASSUME IInv PROVE Len(log) \in Nat /\ (log = <<>> <=> Len(log) = 0)
    OBVIOUS
  <1>1. PICK E : log \in Seq(Seq(E))
    BY DEF IInv, Backlog
  <1> QED
    BY <1>1

\* What a step does to the log: it appends a transaction, consumes an event
\* or leaves log and index alone.
LEMMA LogSteps ==
    ASSUME IInv, [Next]_vars
    PROVE  \/ Len(log') = Len(log) + 1 /\ transactions' = transactions + 1
           \/ /\ log # <<>> /\ transactions' = transactions
              /\ Len(log') = Len(log) \/ Len(log') = Len(log) - 1
           \/ log' = log /\ transactions' = transactions /\ index' = index
  <1>1. PICK E : log \in Seq(Seq(E))
    BY DEF IInv, Backlog
  <1>2. CASE Indexer
    <2>1. log # <<>> /\ log' = Consumed /\ transactions' = transactions
      BY <1>2, IndexerHandles
    <2>2. Len(Tail(log)) = Len(log) - 1
      BY <1>1, <2>1
    <2>3. Len([log EXCEPT ![1] = Tail(@)]) = Len(log)
      <3>1. Head(log) = log[1] /\ log[1] \in Seq(E)
        BY <1>1, <2>1
      <3> QED
        BY <1>1
    <2> QED
      BY <2>1, <2>2, <2>3 DEF Consumed
  <1>3. ASSUME NEW events, Record(events)
        PROVE  Len(log') = Len(log) + 1 /\ transactions' = transactions + 1
    BY <1>1, <1>3 DEF Record
  <1>4. ASSUME NEW p \in Positions, NEW b \in ShipAmounts, NEW q \in ShipAmounts, Ship(p, b, q)
        PROVE  Len(log') = Len(log) + 1 /\ transactions' = transactions + 1
    BY <1>3, <1>4 DEF Ship
  <1>5. ASSUME NEW p \in Positions, NEW amount \in Gifts, NEW token, Gift(p, token, amount)
        PROVE  Len(log') = Len(log) + 1 /\ transactions' = transactions + 1
    BY <1>3, <1>5 DEF Gift
  <1>6. ASSUME NEW p \in Positions, Dock(p)
        PROVE  Len(log') = Len(log) + 1 /\ transactions' = transactions + 1
    BY <1>3, <1>6 DEF Dock
  <1>7. ASSUME NEW route, NEW P, NEW side, NEW kind, NEW raw, Trade(route, P, side, kind, raw)
        PROVE  Len(log') = Len(log) + 1 /\ transactions' = transactions + 1
    BY <1>3, <1>7 DEF Trade
  <1>8. CASE NextDay \/ UNCHANGED vars
    BY <1>8 DEF NextDay, vars
  <1> QED
    BY <1>2, <1>4, <1>5, <1>6, <1>7, <1>8 DEF Next, Transaction

LEMMA BlocksFollow == IInv /\ BlocksOK /\ [ViewNext]_viewVars => BlocksOK'
  <1> SUFFICES ASSUME IInv, BlocksOK, [ViewNext]_viewVars PROVE BlocksOK'
    OBVIOUS
  <1>1. [Next]_vars /\ IInv'
    BY NextIInv DEF ViewNext, viewVars, vars
  <1>2. /\ Len(log) \in Nat /\ (log = <<>> <=> Len(log) = 0)
        /\ Len(log') \in Nat /\ (log' = <<>> <=> Len(log') = 0)
        /\ transactions \in Nat /\ transactions' \in Nat
    <2>1. (Len(log) \in Nat /\ (log = <<>> <=> Len(log) = 0))'
      <3>1. PICK E : log' \in Seq(Seq(E))
        BY <1>1 DEF IInv, Backlog
      <3> QED
        BY <3>1
    <2> QED
      BY <1>1, <2>1, PendingCount, SubgraphAssumption DEF IInv
  <1>3. CASE ViewNext /\ Len(log') < Len(log)
    <2>1. /\ Len(log') = Len(log) - 1 /\ transactions' = transactions
      BY <1>1, <1>2, <1>3, LogSteps
    <2>2. Indexed' = Indexed + 1 /\ Indexed \in Int
      BY <1>2, <2>1 DEF Indexed
    <2>3. blocks' = [b \in 0 .. Indexed' |-> IF b = Indexed' THEN index' ELSE blocks[b]]
      BY <1>3 DEF ViewNext
    <2>4. Indexed' \in 0 .. Indexed'
      BY <1>2, <2>2 DEF Indexed, BlocksOK
    <2>5. Len(log') <= transactions'
      BY <1>2, <2>1 DEF BlocksOK
    <2> QED
      BY <2>3, <2>4, <2>5 DEF BlocksOK
  <1>4. CASE ~(ViewNext /\ Len(log') < Len(log))
    <2>1. blocks' = blocks /\ ~(Len(log') < Len(log))
      BY <1>2, <1>4 DEF ViewNext, viewVars, vars
    <2>2. /\ Indexed' = Indexed /\ Len(log') <= transactions'
          /\ log' = <<>> => log' = log /\ index' = index
      BY <1>1, <1>2, <2>1, LogSteps DEF Indexed, BlocksOK
    <2> QED
      BY <2>1, <2>2 DEF BlocksOK
  <1> QED
    BY <1>3, <1>4

LEMMA ViewsInductive == ViewSpec => [](IInv /\ BlocksOK)
  <1>1. ViewInit => IInv /\ BlocksOK
    <2> SUFFICES ASSUME ViewInit PROVE IInv /\ BlocksOK
      OBVIOUS
    <2>1. IInv
      BY InitIInv DEF ViewInit
    <2>2. Len(log) = 0 /\ transactions = 0 /\ Indexed = 0
      <3>1. log = <<>> /\ Len(log) = 0 /\ transactions = 0
        BY DEF ViewInit, Init
      <3>2. Indexed = transactions - Len(log)
        BY DEF Indexed
      <3>3. Indexed = 0 - 0
        BY <3>1, <3>2
      <3> QED
        BY <3>1, <3>3
    <2>3. blocks = [b \in {0} |-> index]
      BY DEF ViewInit
    <2> QED
      BY <2>1, <2>2, <2>3 DEF BlocksOK
  <1>2. IInv /\ [ViewNext]_viewVars => IInv'
    BY NextIInv DEF ViewNext, viewVars, vars
  <1> QED
    BY <1>1, <1>2, BlocksFollow, PTL DEF ViewSpec

\* Neither does pinning queries to blocks change what the index promises, nor
\* is anything assumed of when the queries come (product-graph.ts).
THEOREM ServedIndexIsSound == ViewSpec => [](IndexIsSound /\ IndexMirrorsChain)
  <1>1. IInv => IndexIsSound /\ IndexMirrorsChain
    BY SoundAddsUp, GoodIsCovered, CaughtUp DEF IndexIsSound
  <1> QED
    BY <1>1, ViewsInductive, PTL

\* The allocation covers the reserve raised to raw units exactly if it does
\* so in WAD; and then it covers the reserve rounded down.
LEMMA BackingInRaw ==
    ASSUME NEW a \in Nat, NEW y \in Nat, NEW f \in Nat \ {0}
    PROVE  /\ a >= WadToRaw(y, f, "Up") <=> a * f >= y
           /\ a >= WadToRaw(y, f, "Up") => a >= WadToRaw(y, f, "Down")
  <1> DEFINE up == MulDiv(y, 1, f, "Up")
             down == MulDiv(y, 1, f, "Down")
  <1>1. up \in Nat /\ y <= f * up /\ f * up < y + f
    BY MulDivUp
  <1>2. down \in Nat /\ f * down <= y
    BY MulDivDown
  <1> HIDE DEF up, down
  <1>3. a >= up => a * f >= y
    <2>1. a >= up => f * up <= f * a
      BY <1>1, ScaleOrder
    <2> QED
      BY <1>1, <2>1, ProductNat
  <1>4. a * f >= y => a >= up
    <2>1. a < up => f * (a + 1) <= f * up
      BY <1>1, ScaleOrder
    <2>2. f * (a + 1) = a * f + f /\ a * f \in Nat /\ f * up \in Nat
      BY <1>1
    <2> QED
      BY <1>1, <2>1, <2>2
  <1>5. down <= up
    <2>1. f * down <= f * up
      BY <1>1, <1>2, ProductNat
    <2> QED
      BY <1>1, <1>2, <2>1, CancelFactor
  <1> QED
    BY <1>1, <1>2, <1>3, <1>4, <1>5 DEF WadToRaw, up, down

SummaryFits(p, wallet) ==
    LET summary == Summary(Latest, p)
        detail  == Detail(Latest, p, wallet)
    IN  /\ summary.lifecycle = detail.lifecycle
        /\ summary.version = detail.version
        /\ detail.sufficientlyBacked
             <=> /\ summary.sufficientlyBacked
                 /\ \A s \in Sides : Pays(wallet, SideOut(Config[p], s), RequiredRaw(p, s))
        /\ \A s \in Sides :
             /\ summary.side[s].y = detail.side[s].y
             /\ summary.side[s].yInt = detail.side[s].yInt
             /\ detail.side[s].y > 0 => summary.side[s].status = detail.side[s].status
             /\ detail.sufficientlyBacked => detail.side[s].status = "backed"

LEMMA MirroredFits ==
    ASSUME IInv, log = <<>>, Latest = index, NEW p \in index.known, NEW wallet
    PROVE  SummaryFits(p, wallet)
  <1> DEFINE position == index.position[p]
             runtime == Runtime(p)
             alloc(s) == chain[p].allocation[SideOut(Config[p], s)]
             factor(s) == Factor[SideOut(Config[p], s)]
             paid(s) == Pays(wallet, SideOut(Config[p], s), RequiredRaw(p, s))
  <1>1. p \in Ours /\ p \in Positions /\ chain[p].lifecycle # "Unknown" /\ Mirrors(p)
    BY CaughtUp, SubgraphAssumption DEF IndexMirrorsChain
  <1>2. /\ position.active \in BOOLEAN /\ position.docked \in BOOLEAN
        /\ position.sufficientlyAllocated \in BOOLEAN
    <2>1. PICK Prices : Shaped(index, Prices)
      BY DEF IInv, Sound, Shape
    <2>2. position \in PositionEntities
      BY <1>1, <2>1, EntityFacts
    <2> QED
      BY <2>2 DEF PositionEntities
  <1>3. /\ position.active = (chain[p].lifecycle = "Active")
        /\ position.docked = (chain[p].lifecycle = "Docked")
        /\ position.runtimeVersion = runtime.version
        /\ position.sufficientlyAllocated <=>
             position.active /\ \A s \in Sides : alloc(s) * factor(s) >= runtime[s].y
        /\ \A s \in Sides :
             /\ index.side[p][s].y = runtime[s].y /\ index.side[p][s].yInt = runtime[s].yInt
             /\ index.side[p][s].aquaAllocationRaw = alloc(s)
             /\ index.side[p][s].active = (position.active /\ runtime[s].y > 0)
    BY <1>1 DEF Mirrors
  <1>4. chain[p] \in ChainStates /\ chain[p].lifecycle \in {"Active", "Docked"}
    BY <1>1, StateFacts DEF IInv, ChainOK
  <1>5. ASSUME NEW s \in Sides
        PROVE  /\ alloc(s) \in Nat /\ factor(s) \in Nat \ {0} /\ runtime[s].y \in Nat
               /\ LensBacks(p, s, wallet)
                    <=> position.active /\ alloc(s) * factor(s) >= runtime[s].y /\ paid(s)
               /\ LensBacks(p, s, wallet) => alloc(s) >= WadToRaw(runtime[s].y, factor(s), "Down")
    <2>1. SideOut(Config[p], s) \in Tokens
      BY <1>1, ConfigFacts DEF SideOut, TokenOut
    <2>2. alloc(s) \in Nat /\ factor(s) \in Nat \ {0}
      BY <1>4, <2>1, StateFacts, TokenAssumption
    <2>3. runtime[s].y \in Nat
      <3>1. runtime \in Runtimes
        BY <1>1, <1>4, StateFacts, ConfigFacts, ResolveType DEF Runtime
      <3> HIDE DEF runtime
      <3> QED
        BY <3>1, RuntimeFacts, WireDomain DEF Sides
    <2> QED
      BY <1>3, <2>2, <2>3, BackingInRaw DEF LensBacks, RequiredRaw
  <1> DEFINE summary == Summary(Latest, p)
             detail == Detail(Latest, p, wallet)
  <1>6. /\ summary.lifecycle = Lifecycle(position) /\ detail.lifecycle = chain[p].lifecycle
        /\ summary.version = position.runtimeVersion /\ detail.version = runtime.version
        /\ summary.sufficientlyBacked = position.sufficientlyAllocated
        /\ detail.sufficientlyBacked = \A s \in Sides : LensBacks(p, s, wallet)
    BY DEF Summary, Detail
  <1>7. ASSUME NEW s \in Sides
        PROVE  /\ summary.side[s].y = index.side[p][s].y
               /\ summary.side[s].yInt = index.side[p][s].yInt
               /\ detail.side[s].y = runtime[s].y /\ detail.side[s].yInt = runtime[s].yInt
               /\ summary.side[s].status =
                    BackingStatus(p, s, index.side[p][s].active, index.side[p][s].y,
                                  index.side[p][s].aquaAllocationRaw)
               /\ detail.side[s].status =
                    BackingStatus(p, s, chain[p].lifecycle = "Active", runtime[s].y,
                                  index.side[p][s].aquaAllocationRaw)
    BY DEF Summary, Detail
  <1> HIDE DEF position, runtime, alloc, factor, paid, summary, detail
  <1>8. summary.lifecycle = detail.lifecycle /\ summary.version = detail.version
    BY <1>2, <1>3, <1>4, <1>6 DEF Lifecycle
  <1>9. detail.sufficientlyBacked <=> summary.sufficientlyBacked /\ \A s \in Sides : paid(s)
    BY <1>2, <1>3, <1>5, <1>6 DEF Sides
  <1>10. ASSUME NEW s \in Sides
         PROVE  /\ summary.side[s].y = detail.side[s].y
                /\ summary.side[s].yInt = detail.side[s].yInt
                /\ detail.side[s].y > 0 => summary.side[s].status = detail.side[s].status
                /\ detail.sufficientlyBacked => detail.side[s].status = "backed"
    <2>1. /\ summary.side[s].y = detail.side[s].y
          /\ summary.side[s].yInt = detail.side[s].yInt
      BY <1>3, <1>7
    <2>2. detail.side[s].y > 0 => summary.side[s].status = detail.side[s].status
      <3>1. ASSUME detail.side[s].y > 0
            PROVE  index.side[p][s].active = (chain[p].lifecycle = "Active")
        BY <1>3, <1>5, <1>7, <3>1
      <3> QED
        BY <1>3, <1>7, <3>1
    <2>3. ASSUME detail.sufficientlyBacked
          PROVE  detail.side[s].status = "backed"
      <3>1. LensBacks(p, s, wallet)
        BY <1>6, <2>3
      <3>2. chain[p].lifecycle = "Active" /\ alloc(s) >= WadToRaw(runtime[s].y, factor(s), "Down")
        BY <1>5, <3>1 DEF LensBacks
      <3> QED
        BY <1>3, <1>7, <3>2 DEF BackingStatus, factor
    <2> QED
      BY <2>1, <2>2, <2>3
  <1> QED
    BY <1>8, <1>9, <1>10 DEF SummaryFits, summary, detail, paid

\* Whenever the index is at the head of the chain, a summary assembled from the
\* index alone shows the lifecycle, version, reserves and statuses of the detail
\* that asks the Lens, whatever the maker's wallet is; and the detail is
\* sufficiently backed exactly if the summary is and the wallet pays both
\* reserves (product-service.ts, LiquidOBLens.sol).
THEOREM ServedViewsAgree == ViewSpec => []ViewsAgreeAtHead
  <1>1. IInv /\ BlocksOK => ViewsAgreeAtHead
    <2> SUFFICES ASSUME IInv, BlocksOK, log = <<>>, NEW p \in Latest.known,
                        NEW wallet \in Wallets
                 PROVE  SummaryFits(p, wallet)
      BY DEF ViewsAgreeAtHead, SummaryFits
    <2>1. Latest = index
      BY DEF Latest, BlocksOK
    <2> QED
      BY <2>1, MirroredFits
  <1> QED
    BY <1>1, ViewsInductive, PTL
=============================================================================
