------------------------------ MODULE Subgraph ------------------------------
(***************************************************************************)
(* The Liquid OB subgraph: event handlers that rebuild positions, curve    *)
(* sides, fills, routes and counters from the logs of Aqua, the router and *)
(* the batch executor (subgraph/src/aqua.ts, router.ts, executor.ts,       *)
(* common.ts).                                                             *)
(*                                                                         *)
(* The chain is reduced to what the logs depend on: one market, wallets    *)
(* that always pay, and transactions that succeed (a reverted one has no   *)
(* log).  The indexer handles the log event by event and lags behind it.   *)
(***************************************************************************)
EXTENDS PositionMath, SequencesExt, FiniteSetsExt

CONSTANTS
    Positions,        \* strategies shipped to Aqua ...
    Ours,             \* ... of which these name the Liquid OB router as app
    Config,           \* Positions -> [maker, base, quote, Sell, Buy]
    Direct,           \* stands for the empty route data of a direct swap
    RouteIds,         \* hash(payer, salt, kind) as the callers choose it
    RouteSizes,       \* bound: how many positions a route may fill
    ShipAmounts, FillAmounts, Gifts,   \* raw amounts
    MaxBacklog,       \* bound: transactions the indexer may lag behind
    MaxTransactions,  \* bound: transactions in all
    MaxDay            \* bound: days of market snapshots

ASSUME SubgraphAssumption ==
    /\ Ours \subseteq Positions
    /\ ShipAmounts \subseteq Nat /\ FillAmounts \subseteq Nat
    /\ Gifts \subseteq Nat \ {0} /\ RouteSizes \subseteq Nat \ {0}
    /\ MaxBacklog \in Nat \ {0} /\ MaxTransactions \in Nat /\ MaxDay \in Nat
    /\ IsFiniteSet(Positions)
    /\ \A p \in Positions :
         /\ ValidStructure(Config[p])
         /\ Config[p].base \in Tokens /\ Config[p].quote \in Tokens
         /\ \A s \in Sides : Config[p][s].initialReserve \in Amounts

VARIABLES
    chain,          \* per position: lifecycle and allocation in Aqua, stored runtime
    day,            \* block.timestamp / DAY_SECONDS
    transactions,   \* how many transactions have succeeded
    log,            \* events not yet handled: a sequence for every transaction
    index           \* the entities of the subgraph

vars == <<chain, day, transactions, log, index>>

Makers == {Config[p].maker : p \in Positions}

\* One set of counters per entity that keeps any: the protocol, the market,
\* every maker, and the snapshot of every day.  A counter that an entity
\* lacks stays 0.
Scopes == {<<"protocol">>, <<"market">>} \cup ({"maker"} \X Makers) \cup ({"day"} \X (0 .. MaxDay))
NoCount == [positions |-> 0, active |-> 0, fills |-> 0, routes |-> 0, base |-> 0, quote |-> 0]

NewPosition ==
    [active |-> TRUE, docked |-> FALSE, initialized |-> FALSE, runtimeVersion |-> 0,
     baseAllocationRaw |-> 0, quoteAllocationRaw |-> 0, sufficientlyAllocated |-> FALSE,
     createdBlock |-> 0, lastUpdateBlock |-> 0]

NewSide(curve) ==
    [y |-> curve.initialReserve, yInt |-> curve.initialReserve,
     currentPrice |-> curve.startPrice, aquaAllocationRaw |-> 0,
     active |-> curve.initialReserve > 0]

Init ==
    /\ chain = [p \in Positions |-> [lifecycle |-> "Unknown", stored |-> Unset,
                                     allocation |-> [t \in Tokens |-> 0]]]
    /\ day = 0
    /\ transactions = 0
    /\ log = <<>>
    /\ index = [known    |-> {},
                position |-> [p \in Positions |-> NewPosition],
                side     |-> [p \in Positions |-> [s \in Sides |-> NewSide(Config[p][s])]],
                fills    |-> {}, routes |-> {},
                count    |-> [scope \in Scopes |-> NoCount]]
-----------------------------------------------------------------------------
(* Transactions and their logs.                                             *)

Runtime(p) == Resolve(Config[p], chain[p].stored)

\* The bounds, first in every transaction.
Room == transactions < MaxTransactions /\ Len(log) < MaxBacklog

Record(events) ==
    /\ transactions' = transactions + 1
    /\ log' = Append(log, events)

\* Every transaction is a block of its own.
Block == transactions + 1

Shipped(p) == [type |-> "Shipped", block |-> Block, position |-> p]
Docked(p) == [type |-> "Docked", block |-> Block, position |-> p]
Pushed(p, token, amount) ==
    [type |-> "Pushed", block |-> Block, position |-> p, token |-> token, amount |-> amount]
Pulled(p, token, amount) ==
    [type |-> "Pulled", block |-> Block, position |-> p, token |-> token, amount |-> amount]
RuntimeInitialized(p) ==
    [type |-> "PositionRuntimeInitialized", block |-> Block, position |-> p,
     runtime |-> Initial(Config[p])]
RouteExecuted(route, count) ==
    [type |-> "RouteExecuted", block |-> Block, route |-> route, fillCount |-> count, day |-> day]

Ship(p, b, q) ==
    /\ Room
    /\ chain[p].lifecycle = "Unknown"
    /\ b > 0 \/ q > 0
    /\ chain' = [chain EXCEPT ![p].lifecycle = "Active",
                              ![p].allocation[Config[p].base] = b,
                              ![p].allocation[Config[p].quote] = q]
    /\ Record(<<Shipped(p), Pushed(p, Config[p].base, b), Pushed(p, Config[p].quote, q)>>)
    /\ UNCHANGED <<day, index>>

Gift(p, token, amount) ==
    /\ Room
    /\ chain[p].lifecycle = "Active"
    /\ chain' = [chain EXCEPT ![p].allocation[token] = @ + amount]
    /\ Record(<<Pushed(p, token, amount)>>)
    /\ UNCHANGED <<day, index>>

Dock(p) ==
    /\ Room
    /\ chain[p].lifecycle = "Active"
    /\ chain' = [chain EXCEPT ![p].lifecycle = "Docked",
                              ![p].allocation = [t \in Tokens |-> 0]]
    /\ Record(<<Docked(p)>>)
    /\ UNCHANGED <<day, index>>

\* The fills of one transaction: what one caller takes from the positions P.
Fillable(P, side, kind, raw) ==
    \A p \in P :
        /\ chain[p].lifecycle = "Active"
        /\ CanFill(Config[p], Runtime(p), side, kind, raw, Runtime(p).version,
                   chain[p].allocation[SideOut(Config[p], side)])

FillOf(p, side, kind, raw) == PositionFill(Config[p], Runtime(p), side, kind, raw)

After(p, side, fill) ==
    [chain[p] EXCEPT !.stored = Transition(Runtime(p), side, fill),
                     !.allocation[SideIn(Config[p], side)] = @ + fill.amountIn,
                     !.allocation[SideOut(Config[p], side)] = @ - fill.amountOut]

Price(p, side, state) ==
    DisplayedPrice(side, MarginalRateAt(Native(Config[p][side], side), state, state.y))

CurveFilled(p, side, fill, after, route) ==
    [type |-> "CurveFilled", block |-> Block, position |-> p, side |-> side,
     route |-> IF route = Direct THEN <<p, Runtime(p).version>> ELSE route,
     amountIn |-> fill.amountIn, amountOut |-> fill.amountOut,
     runtime |-> after, price |-> Price(p, side, after[side]), day |-> day]

\* The log of one fill that left the runtime after: the instruction's events
\* come before the transfers.
FillEvents(p, side, fill, after, route) ==
    (IF chain[p].stored.initialized THEN <<>> ELSE <<RuntimeInitialized(p)>>)
      \o <<CurveFilled(p, side, fill, after, route),
           Pulled(p, SideOut(Config[p], side), fill.amountOut),
           Pushed(p, SideIn(Config[p], side), fill.amountIn)>>

\* One transaction with a fill of each of the positions P.  A route has one
\* identifier for its fills and ends with RouteExecuted.  A direct swap has one
\* fill, whose identifier is the hash of the order, the taker and the version.
Trade(route, P, side, kind, raw) ==
    /\ Room
    /\ Cardinality(P) \in IF route = Direct THEN {1} ELSE RouteSizes
    /\ Fillable(P, side, kind, raw)
    /\ \E fill \in {[p \in P |-> FillOf(p, side, kind, raw)]} :
       \E after \in {[p \in P |-> After(p, side, fill[p])]} :
         /\ chain' = [p \in Positions |-> IF p \in P THEN after[p] ELSE chain[p]]
         /\ Record(FlattenSeq([i \in 1 .. Cardinality(P) |->
                       LET p == SetToSeq(P)[i]
                       IN  FillEvents(p, side, fill[p], after[p].stored, route)])
                   \o IF route = Direct THEN <<>> ELSE <<RouteExecuted(route, Cardinality(P))>>)
    /\ UNCHANGED <<day, index>>

NextDay ==
    /\ day < MaxDay
    /\ day' = day + 1
    /\ UNCHANGED <<chain, transactions, log, index>>
-----------------------------------------------------------------------------
(* Handlers: what each event makes of the entities.                         *)

\* Adds record delta to the counters of every scope in S.
Count(ix, S, delta) ==
    LET Sum(c) == [positions |-> c.positions + delta.positions, active |-> c.active + delta.active,
                   fills |-> c.fills + delta.fills, routes |-> c.routes + delta.routes,
                   base |-> c.base + delta.base, quote |-> c.quote + delta.quote]
    IN  [ix EXCEPT !.count = [scope \in Scopes |-> IF scope \in S THEN Sum(@[scope]) ELSE @[scope]]]

ScopesOf(p) == {<<"protocol">>, <<"market">>, <<"maker", Config[p].maker>>}

\* Mutant of RefreshAllocation: the sides are given each other's allocation.
RefreshAllocationSwapped(ix, p) ==
    LET position == ix.position[p]
    IN  [ix EXCEPT !.side[p].Sell.aquaAllocationRaw = position.quoteAllocationRaw,
                   !.side[p].Buy.aquaAllocationRaw = position.baseAllocationRaw,
                   !.position[p].sufficientlyAllocated =
                      /\ RawToWad(position.baseAllocationRaw, Factor[Config[p].base])
                           >= ix.side[p].Sell.y
                      /\ RawToWad(position.quoteAllocationRaw, Factor[Config[p].quote])
                           >= ix.side[p].Buy.y]

RefreshAllocation(ix, p) ==
    LET position == ix.position[p]
    IN  [ix EXCEPT !.side[p].Sell.aquaAllocationRaw = position.baseAllocationRaw,
                   !.side[p].Buy.aquaAllocationRaw = position.quoteAllocationRaw,
                   !.position[p].sufficientlyAllocated =
                      /\ RawToWad(position.baseAllocationRaw, Factor[Config[p].base])
                           >= ix.side[p].Sell.y
                      /\ RawToWad(position.quoteAllocationRaw, Factor[Config[p].quote])
                           >= ix.side[p].Buy.y]

Created(ix, e) ==
    [ix EXCEPT !.known = @ \cup {e.position},
               !.position[e.position].createdBlock = e.block,
               !.position[e.position].lastUpdateBlock = e.block]

\* Mutant of HandleShipped: the app is not checked.
HandleShippedOfAnyApp(ix, e) ==
    LET p == e.position
    IN  IF p \in ix.known THEN ix
        ELSE Count(RefreshAllocation(Created(ix, e), p), ScopesOf(p),
                   [NoCount EXCEPT !.positions = 1, !.active = 1])

HandleShipped(ix, e) ==
    LET p == e.position
    IN  IF p \notin Ours \/ p \in ix.known THEN ix
        ELSE Count(RefreshAllocation(Created(ix, e), p), ScopesOf(p),
                   [NoCount EXCEPT !.positions = 1, !.active = 1])

UpdateAmount(current, amount, increase) ==
    IF increase THEN current + amount
    ELSE IF current >= amount THEN current - amount ELSE 0

\* Mutant of ApplyAllocation: only base tokens are booked.
ApplyAllocationToBase(ix, e, increase) ==
    LET p == e.position
    IN  IF p \notin ix.known \/ e.token # Config[p].base THEN ix
        ELSE RefreshAllocation([ix EXCEPT !.position[p].baseAllocationRaw =
                                            UpdateAmount(@, e.amount, increase),
                                        !.position[p].lastUpdateBlock = e.block], p)

ApplyAllocation(ix, e, increase) ==
    LET p == e.position
    IN  IF p \notin ix.known THEN ix
        ELSE IF e.token = Config[p].base
        THEN RefreshAllocation([ix EXCEPT !.position[p].baseAllocationRaw =
                                            UpdateAmount(@, e.amount, increase),
                                        !.position[p].lastUpdateBlock = e.block], p)
        ELSE IF e.token = Config[p].quote
        THEN RefreshAllocation([ix EXCEPT !.position[p].quoteAllocationRaw =
                                            UpdateAmount(@, e.amount, increase),
                                        !.position[p].lastUpdateBlock = e.block], p)
        ELSE ix

HandlePushed(ix, e) == ApplyAllocation(ix, e, TRUE)
HandlePulled(ix, e) == ApplyAllocation(ix, e, FALSE)

\* Mutant of HandleDocked: the sides stay listed.
HandleDockedKeepsSides(ix, e) ==
    LET p == e.position
    IN  IF p \notin ix.known \/ ~ix.position[p].active THEN ix
        ELSE Count([ix EXCEPT !.position[p].active = FALSE, !.position[p].docked = TRUE,
                              !.position[p].sufficientlyAllocated = FALSE,
                              !.position[p].lastUpdateBlock = e.block],
                   ScopesOf(p), [NoCount EXCEPT !.active = -1])

\* Docking clears the allocation of the sides, not that of the position.
HandleDocked(ix, e) ==
    LET p == e.position
    IN  IF p \notin ix.known \/ ~ix.position[p].active THEN ix
        ELSE Count([ix EXCEPT !.position[p].active = FALSE, !.position[p].docked = TRUE,
                              !.position[p].sufficientlyAllocated = FALSE,
                              !.position[p].lastUpdateBlock = e.block,
                              !.side[p] = [s \in Sides |-> [@[s] EXCEPT !.active = FALSE,
                                                                       !.aquaAllocationRaw = 0]]],
                   ScopesOf(p), [NoCount EXCEPT !.active = -1])

\* Both sides take the event's logical state, and the position its version.
WithRuntime(ix, e) ==
    LET p == e.position
        Synced(side) == [ix.side[p][side] EXCEPT
                            !.y = e.runtime[side].y, !.yInt = e.runtime[side].yInt,
                            !.active = ix.position[p].active /\ e.runtime[side].y > 0]
    IN  RefreshAllocation([ix EXCEPT !.side[p].Sell = Synced("Sell"), !.side[p].Buy = Synced("Buy"),
                                     !.position[p].initialized = TRUE,
                                     !.position[p].runtimeVersion = e.runtime.version,
                                     !.position[p].lastUpdateBlock = e.block], p)

HandlePositionRuntimeInitialized(ix, e) ==
    IF e.position \in ix.known THEN WithRuntime(ix, e) ELSE ix

\* Volumes are counted everywhere but in the protocol entity.
Volume(e) ==
    [NoCount EXCEPT !.fills = 1,
                    !.base = IF e.side = "Sell" THEN e.amountOut ELSE e.amountIn,
                    !.quote = IF e.side = "Sell" THEN e.amountIn ELSE e.amountOut]

\* Mutant of CountFill: the maker entity is not saved.
CountFillWithoutMaker(ix, e) ==
    Count(Count(ix, {<<"market">>, <<"day", e.day>>}, Volume(e)),
          {<<"protocol">>}, [NoCount EXCEPT !.fills = 1])

CountFill(ix, e) ==
    Count(Count(ix, {<<"market">>, <<"maker", Config[e.position].maker>>, <<"day", e.day>>},
                Volume(e)),
          {<<"protocol">>}, [NoCount EXCEPT !.fills = 1])

\* Only the filled side gets a new current price.
HandleCurveFilled(ix, e) ==
    LET p == e.position
    IN  IF p \notin ix.known THEN ix
        ELSE CountFill([WithRuntime(ix, e) EXCEPT
                          !.side[p][e.side].currentPrice = e.price,
                          !.fills = @ \cup {[position |-> p, version |-> e.runtime.version,
                                             route |-> e.route, block |-> e.block]}], e)

\* A route identifier that is already stored is not stored again.
HandleRouteExecuted(ix, e) ==
    IF \E r \in ix.routes : r.id = e.route THEN ix
    ELSE Count([ix EXCEPT !.routes = @ \cup {[id |-> e.route, fillCount |-> e.fillCount,
                                              block |-> e.block]}],
               {<<"protocol">>, <<"market">>, <<"day", e.day>>},
               [NoCount EXCEPT !.routes = 1])
-----------------------------------------------------------------------------
(* The indexer takes the events of a transaction in log order.              *)

Event == Head(Head(log))

Indexes(type, result) ==
    /\ log # <<>>
    /\ Event.type = type
    /\ index' = result
    /\ log' = IF Len(Head(log)) = 1 THEN Tail(log) ELSE [log EXCEPT ![1] = Tail(@)]
    /\ UNCHANGED <<chain, day, transactions>>

IndexShipped == Indexes("Shipped", HandleShipped(index, Event))
IndexPushed == Indexes("Pushed", HandlePushed(index, Event))
IndexPulled == Indexes("Pulled", HandlePulled(index, Event))
IndexDocked == Indexes("Docked", HandleDocked(index, Event))
IndexRuntimeInitialized ==
    Indexes("PositionRuntimeInitialized", HandlePositionRuntimeInitialized(index, Event))
IndexCurveFilled == Indexes("CurveFilled", HandleCurveFilled(index, Event))
IndexRouteExecuted == Indexes("RouteExecuted", HandleRouteExecuted(index, Event))

Indexer ==
    \/ IndexShipped \/ IndexPushed \/ IndexPulled \/ IndexDocked
    \/ IndexRuntimeInitialized \/ IndexCurveFilled \/ IndexRouteExecuted

Transaction ==
    \/ \E p \in Positions, b, q \in ShipAmounts : Ship(p, b, q)
    \/ \E p \in Positions, amount \in Gifts :
         \E token \in {Config[p].base, Config[p].quote} : Gift(p, token, amount)
    \/ \E p \in Positions : Dock(p)
    \/ \E route \in RouteIds \cup {Direct}, P \in SUBSET Ours, side \in Sides,
          kind \in Kinds, raw \in FillAmounts : Trade(route, P, side, kind, raw)
    \/ NextDay

Next == Indexer \/ Transaction

\* The graph node keeps handling events; nobody has to send transactions.
Spec == Init /\ [][Next]_vars /\ WF_vars(Indexer)
-----------------------------------------------------------------------------
(* Properties *)

Counts == [DOMAIN NoCount -> Nat]

TypeOK ==
    /\ chain \in [Positions -> [lifecycle : {"Unknown", "Active", "Docked"},
                                stored : Runtimes, allocation : [Tokens -> Nat]]]
    /\ day \in 0 .. MaxDay /\ transactions \in 0 .. MaxTransactions
    /\ Len(log) <= MaxBacklog /\ \A i \in 1 .. Len(log) : log[i] # <<>>
    /\ index.known \subseteq Ours
    /\ index.count \in [Scopes -> Counts]

Mirrors(p) ==
    LET position == index.position[p]
        runtime  == Runtime(p)
    IN  /\ position.active = (chain[p].lifecycle = "Active")
        /\ position.docked = (chain[p].lifecycle = "Docked")
        /\ position.initialized = runtime.initialized
        /\ position.runtimeVersion = runtime.version
        /\ \A s \in Sides :
             LET token == SideOut(Config[p], s)
             IN  /\ index.side[p][s].y = runtime[s].y
                 /\ index.side[p][s].yInt = runtime[s].yInt
                 /\ index.side[p][s].aquaAllocationRaw = chain[p].allocation[token]
                 /\ index.side[p][s].active = (position.active /\ runtime[s].y > 0)
        /\ position.sufficientlyAllocated <=>
             /\ position.active
             /\ \A s \in Sides : chain[p].allocation[SideOut(Config[p], s)]
                                   * Factor[SideOut(Config[p], s)] >= runtime[s].y

\* Whenever the indexer has caught up, what the solver reads of a position is
\* the state of Aqua and of the router, although it was rebuilt from
\* deltas (allocation) and snapshots (runtime) that reach it apart from each
\* other, in the order instruction, pull, push.
IndexMirrorsChain ==
    log = <<>> =>
        /\ index.known = {p \in Ours : chain[p].lifecycle # "Unknown"}
        /\ \A p \in index.known : Mirrors(p)

\* The clamp of updateAmount never hides a deficit: every pull is covered by
\* what has been indexed before it, however far the indexer lags.
PullsAreCovered ==
    log # <<>> /\ Event.type = "Pulled" /\ Event.position \in index.known =>
        LET position == index.position[Event.position]
        IN  Event.amount <= IF Event.token = Config[Event.position].base
                            THEN position.baseAllocationRaw
                            ELSE position.quoteAllocationRaw

Total(S, counter) == SumFunctionOnSet([scope \in S |-> index.count[scope][counter]], S)

\* The counters agree with each other and with the entities at every event:
\* makers, and days, sum up to the market, the market agrees with the
\* protocol, and a position has as many fills as its runtime has versions.
CountersAddUp ==
    LET market   == index.count[<<"market">>]
        protocol == index.count[<<"protocol">>]
        makers   == {"maker"} \X Makers
        days     == {"day"} \X (0 .. MaxDay)
    IN  /\ \A c \in {"positions", "active", "fills", "base", "quote"} :
             market[c] = Total(makers, c)
        /\ \A c \in {"fills", "routes", "base", "quote"} : market[c] = Total(days, c)
        /\ \A c \in {"positions", "active", "fills", "routes"} : market[c] = protocol[c]
        /\ market.active = Cardinality({p \in index.known : index.position[p].active})
        /\ \A p \in index.known :
             index.position[p].runtimeVersion
               = Cardinality({f \in index.fills : f.position = p})

\* What holds after every event, however far the indexer lags.
IndexIsSound == TypeOK /\ PullsAreCovered /\ CountersAddUp

\* A docked position eventually disappears from the solver's query.
DockedIsDelisted ==
    \A p \in Ours :
        chain[p].lifecycle = "Docked" ~> \A s \in Sides : ~index.side[p][s].active

\* Every micro-pool is queryable with its "current logical Y, YInt, marginal
\* price" (ARCHITECTURE 9.2), within a quarter for roundings.
PricesAreCurrent ==
    log = <<>> =>
        \A p \in index.known, s \in Sides :
            index.side[p][s].active =>
                LET price == Price(p, s, Runtime(p)[s])
                IN  /\ 4 * index.side[p][s].currentPrice <= 5 * price
                    /\ 4 * price <= 5 * index.side[p][s].currentPrice
=============================================================================
