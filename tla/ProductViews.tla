---------------------------- MODULE ProductViews ----------------------------
(***************************************************************************)
(* What users and agents are shown: the product views of the solver API    *)
(* (services/solver-api/src/product-graph.ts, product-service.ts) and the  *)
(* position discovery of the liquidity MCP server                          *)
(* (services/liquidity-mcp/src/liquid-ob-client.ts, service.ts).           *)
(*                                                                         *)
(* A view is assembled from several queries.  Each query is pinned to a    *)
(* block the subgraph has indexed, and the subgraph moves on between them, *)
(* so a view is a function of the blocks its queries were pinned to; the   *)
(* properties quantify over those blocks.                                  *)
(***************************************************************************)
EXTENDS Subgraph, LiquidityComparison

CONSTANTS
    PageSize, MaxPages,   \* of the queries to the subgraph
    ListLimit,            \* positions per page of the API
    Holdings,             \* raw amounts a maker may hold, or allow Aqua to take
    Every                 \* stands for a filter that is not given

ASSUME ProductViewsAssumption ==
    /\ {PageSize, MaxPages, ListLimit} \subseteq Nat \ {0}
    /\ Holdings \subseteq Nat

VARIABLE blocks   \* the entities after every indexed block, for pinned queries

viewVars == <<vars, blocks>>

\* Transaction n is in block n; block 0 is the deployment.
Indexed == transactions - Len(log)

ViewInit == Init /\ blocks = [b \in {0} |-> index]

\* Queries see whole blocks only.
ViewNext ==
    /\ Next
    /\ blocks' = IF Len(log') < Len(log)
                 THEN [b \in 0 .. Indexed' |-> IF b = Indexed' THEN index' ELSE blocks[b]]
                 ELSE blocks

ViewSpec == ViewInit /\ [][ViewNext]_viewVars /\ WF_viewVars(Indexer /\ ViewNext)

\* The block of a view's last query, and those of the queries before it.  All
\* pairs are met, since every block is the last one indexed at some time.
Latest == blocks[Indexed]
Earlier == 0 .. Indexed
-----------------------------------------------------------------------------
(* Queries to the subgraph.                                                 *)

Failed == "SUBGRAPH_UNAVAILABLE"

\* Ties of an ordering are broken by the entity's id.
Ids == SetToSeq(Positions)
Id(p) == CHOOSE i \in DOMAIN Ids : Ids[i] = p

\* Mutant of NewestFirst: orderDirection asc.
OldestFirst(ix, S) ==
    SortSeq(SelectSeq(Ids, LAMBDA p : p \in S),
            LAMBDA p, q : ix.position[p].lastUpdateBlock < ix.position[q].lastUpdateBlock)

\* orderBy: lastUpdateBlock, orderDirection: desc.
NewestFirst(ix, S) ==
    SortSeq(SelectSeq(Ids, LAMBDA p : p \in S),
            LAMBDA p, q :
                \/ ix.position[p].lastUpdateBlock > ix.position[q].lastUpdateBlock
                \/ /\ ix.position[p].lastUpdateBlock = ix.position[q].lastUpdateBlock
                   /\ Id(p) < Id(q))

\* Pages are read until one is short; a last page that is exactly full fails.
Paginate(rows) == IF Len(rows) \div PageSize >= MaxPages THEN Failed ELSE rows

\* Lifecycle "unknown" restricts nothing.
Where(ix, p, filter) ==
    /\ filter.maker \in {Every, Config[p].maker}
    /\ filter.lifecycle = "active" => ix.position[p].active
    /\ filter.lifecycle = "docked" => ix.position[p].docked

GraphPositions(ix, filter) ==
    Paginate(NewestFirst(ix, {p \in ix.known : Where(ix, p, filter)}))

Tradable(ix, p, side) == ix.side[p][side].active /\ ix.side[p][side].y > 0

TradableSides(ix) == {z \in ix.known \X Sides : Tradable(ix, z[1], z[2])}

\* The better of two prices: the lower to buy from, the higher to sell to.
Better(s, a, b) == IF s = "Sell" THEN a < b ELSE a > b

\* The best price of the sides s of the book.
Best(ix, s) ==
    LET quotes == {ix.side[z[1]][s].currentPrice : z \in {x \in TradableSides(ix) : x[2] = s}}
    IN  IF quotes = {} THEN Every ELSE CHOOSE q \in quotes : \A r \in quotes : ~Better(s, r, q)

\* The market with its counter of positions and the best of its book, once all
\* pages are read.
Market(ix) ==
    LET side(s) == {x \in TradableSides(ix) : x[2] = s}
    IN  [activePositions |-> ix.count[<<"market">>].active,
         activeSellSides |-> Cardinality(side("Sell")),
         activeBuySides |-> Cardinality(side("Buy")),
         bestBid |-> Best(ix, "Buy"),
         bestAsk |-> Best(ix, "Sell")]

\* The newest records of S, as many as one query returns.
Recent(S) ==
    LET rows == SortSeq(SetToSeq(S), LAMBDA x, z : x.block > z.block)
    IN  ToSet(SubSeq(rows, 1, Min({2 * PageSize, 1000, Len(rows)})))

Published(ix, p) ==
    [type |-> "position-published", position |-> p, block |-> ix.position[p].createdBlock]
DockedEntry(ix, p) ==
    [type |-> "position-docked", position |-> p, block |-> ix.position[p].lastUpdateBlock]

\* Mutant of Activity: the positions are read before the fills.
ActivityPositionsFirst(first, later, filter) ==
    LET positions == GraphPositions(blocks[first], filter)
        fills == Recent({f \in blocks[later].fills :
                            filter.maker \in {Every, Config[f.position].maker}})
    IN  IF positions = Failed THEN Failed
        ELSE {[type |-> "curve-filled", position |-> f.position, block |-> f.block] : f \in fills}
               \cup {Published(blocks[first], p) : p \in ToSet(positions)}
               \cup {DockedEntry(blocks[first], p) :
                       p \in {q \in ToSet(positions) : blocks[first].position[q].docked}}

\* Fills and routes are read at block first; the positions, whose entries tell
\* of publishing and docking, by a query of its own at a later block.  Routes
\* name no maker.
Activity(first, later, filter) ==
    LET positions == GraphPositions(blocks[later], filter)
        fills  == Recent({f \in blocks[first].fills :
                             filter.maker \in {Every, Config[f.position].maker}})
        routes == IF filter.maker = Every THEN Recent(blocks[first].routes) ELSE {}
    IN  IF positions = Failed THEN Failed
        ELSE {[type |-> "curve-filled", position |-> f.position, block |-> f.block] : f \in fills}
               \cup {[type |-> "route-executed", id |-> r.id, block |-> r.block] : r \in routes}
               \cup {Published(blocks[later], p) : p \in ToSet(positions)}
               \cup {DockedEntry(blocks[later], p) :
                       p \in {q \in ToSet(positions) : blocks[later].position[q].docked}}
-----------------------------------------------------------------------------
(* The views of the API.                                                    *)

Lifecycle(position) ==
    IF position.docked THEN "Docked" ELSE IF position.active THEN "Active" ELSE "Unknown"

\* Mutant of BackingStatus: the reserve is not converted.
BackingStatusOfWad(p, s, active, y, allocation) ==
    IF ~active THEN "unavailable" ELSE IF allocation >= y THEN "backed" ELSE "warning"

BackingStatus(p, s, active, y, allocation) ==
    IF ~active THEN "unavailable"
    ELSE IF allocation >= WadToRaw(y, Factor[SideOut(Config[p], s)], "Down")
    THEN "backed" ELSE "warning"

Summary(ix, p) ==
    [lifecycle |-> Lifecycle(ix.position[p]), version |-> ix.position[p].runtimeVersion,
     sufficientlyBacked |-> ix.position[p].sufficientlyAllocated,
     side |-> [s \in Sides |->
         LET side == ix.side[p][s]
         IN  [y |-> side.y, yInt |-> side.yInt,
              status |-> BackingStatus(p, s, side.active, side.y, side.aquaAllocationRaw)]]]

\* What a maker's wallet holds of every token and allows Aqua to take.  Makers
\* move both as they like, whatever their positions are, so any wallet may be
\* met in any state of the chain.
Wallets == [Tokens -> [balance : Holdings, allowance : Holdings]]

Pays(wallet, token, amount) ==
    wallet[token].balance >= amount /\ wallet[token].allowance >= amount

\* The reserve of a side as the Lens rounds it.
RequiredRaw(p, s) == WadToRaw(Runtime(p)[s].y, Factor[SideOut(Config[p], s)], "Up")

\* The Lens at the head of the chain, over the wallet of the maker.
LensBacks(p, s, wallet) ==
    LET token == SideOut(Config[p], s)
    IN  /\ chain[p].lifecycle = "Active"
        /\ chain[p].allocation[token] >= RequiredRaw(p, s)
        /\ Pays(wallet, token, RequiredRaw(p, s))

\* The index is that of an earlier block, the Lens is asked later: reserves and
\* lifecycle come from the Lens, allocations from the index.
Detail(ix, p, wallet) ==
    [lifecycle |-> chain[p].lifecycle, version |-> Runtime(p).version,
     sufficientlyBacked |-> \A s \in Sides : LensBacks(p, s, wallet),
     side |-> [s \in Sides |->
         [y |-> Runtime(p)[s].y, yInt |-> Runtime(p)[s].yInt,
          status |-> BackingStatus(p, s, chain[p].lifecycle = "Active", Runtime(p)[s].y,
                                   ix.side[p][s].aquaAllocationRaw)]]]

Page(rows, cursor, limit) ==
    LET next == Min({cursor + limit, Len(rows)})
    IN  [items |-> SubSeq(rows, cursor + 1, next),
         cursor |-> IF next < Len(rows) THEN next ELSE Every, totalCount |-> Len(rows)]

ListPositions(ix, filter) ==
    LET rows == GraphPositions(ix, filter)
    IN  IF rows = Failed \/ filter.side = Every THEN rows
        ELSE SelectSeq(rows, LAMBDA p : Tradable(ix, p, filter.side))

\* The MCP server follows the cursors of the list: page i is read at block at[i].
Crawl(at, filter) ==
    LET got[i \in 0 .. Len(at)] ==
          IF i = 0 THEN [cursor |-> 0, items |-> {}]
          ELSE IF got[i - 1].cursor = Every THEN got[i - 1]
          ELSE LET page == Page(ListPositions(blocks[at[i]], filter), got[i - 1].cursor,
                                ListLimit)
               IN  [cursor |-> page.cursor, items |-> got[i - 1].items \cup ToSet(page.items)]
    IN  got[Len(at)]

\* Mutant of Discovered: positions are offered whether backed or not.
DiscoveredUnbacked(ix, side, minimum) ==
    {p \in ToSet(ListPositions(ix, [maker |-> Every, lifecycle |-> "active", side |-> side])) :
        WadToRaw(ix.side[p][side].y, Factor[SideOut(Config[p], side)], "Down") >= minimum}

\* What discoverPositions offers to an agent that wants a minimum output.
Discovered(ix, side, minimum) ==
    {p \in ToSet(ListPositions(ix, [maker |-> Every, lifecycle |-> "active", side |-> side])) :
        /\ Summary(ix, p).sufficientlyBacked
        /\ WadToRaw(ix.side[p][side].y, Factor[SideOut(Config[p], side)], "Down") >= minimum}
\* A fill is accepted if curve and allocation allow it and the maker's wallet
\* pays what Aqua pulls.
FillsFrom(wallet, p, s, kind, raw) ==
    /\ Fillable({p}, s, kind, raw)
    /\ Pays(wallet, SideOut(Config[p], s), FillOf(p, s, kind, raw).amountOut)
-----------------------------------------------------------------------------
(* Properties *)

Everything == [maker |-> Every, lifecycle |-> Every, side |-> Every]
Active == [Everything EXCEPT !.lifecycle = "active"]
Traded(s) == [Everything EXCEPT !.side = s]

\* The market's page and the list of its positions tell one story of a block,
\* although one adds counters and entities of its own and the other filters
\* positions and then sides: as many active positions and sides, and best
\* prices that a listed position offers and none beats.
ListingMatchesMarket ==
    LET market == Market(Latest)
        listed(s) == ToSet(ListPositions(Latest, Traded(s)))
        prices(s) == {Latest.side[p][s].currentPrice : p \in listed(s)}
    IN  /\ market.activePositions = Len(ListPositions(Latest, Active))
        /\ market.activeSellSides = Cardinality(listed("Sell"))
        /\ market.activeBuySides = Cardinality(listed("Buy"))
        /\ market.bestAsk = IF prices("Sell") = {} THEN Every ELSE Min(prices("Sell"))
        /\ market.bestBid = IF prices("Buy") = {} THEN Every ELSE Max(prices("Buy"))

\* However old the block of the index is when the Lens answers, the detail shows
\* the position of the summary at that time or later: it does not undo a dock or a
\* fill, and while there was no fill the reserves are the same and a backing that
\* the summary reports is only lost with the wallet.
DetailIsNotBehind ==
    \A b \in Earlier, wallet \in Wallets : \A p \in blocks[b].known :
        LET summary == Summary(blocks[b], p)
            detail  == Detail(blocks[b], p, wallet)
        IN  /\ detail.lifecycle = "Active" => summary.lifecycle = "Active"
            /\ detail.lifecycle # "Unknown" /\ summary.version <= detail.version
            /\ summary.version = detail.version =>
                 /\ \A s \in Sides : /\ summary.side[s].y = detail.side[s].y
                                     /\ summary.side[s].yInt = detail.side[s].yInt
                 /\ summary.sufficientlyBacked /\ detail.lifecycle = "Active" =>
                      detail.sufficientlyBacked
                        = \A s \in Sides : Pays(wallet, SideOut(Config[p], s), RequiredRaw(p, s))

\* At the head of the chain the summary, from the index alone, shows what the
\* detail shows, but for two things: the status of a side that is sold out, and
\* the wallet of the maker.  The summary's flag is about Aqua's allocations only;
\* the detail's is that flag for a wallet that pays both reserves, and then no
\* side has a warning.
ViewsAgreeAtHead ==
    log = <<>> =>
        \A p \in Latest.known, wallet \in Wallets :
            LET summary == Summary(Latest, p)
                detail  == Detail(Latest, p, wallet)
            IN  /\ summary.lifecycle = detail.lifecycle
                /\ summary.version = detail.version
                /\ detail.sufficientlyBacked
                     <=> /\ summary.sufficientlyBacked
                         /\ \A s \in Sides :
                              Pays(wallet, SideOut(Config[p], s), RequiredRaw(p, s))
                /\ \A s \in Sides :
                     /\ summary.side[s].y = detail.side[s].y
                     /\ summary.side[s].yInt = detail.side[s].yInt
                     /\ detail.side[s].y > 0 => summary.side[s].status = detail.side[s].status
                     /\ detail.sufficientlyBacked => detail.side[s].status = "backed"

\* However far the subgraph moves while an activity page is assembled, the
\* page tells a position's life in order: every fill has its position's
\* publication, not later than the fill, and a position has no fill after the
\* block in which it was docked.
ActivityTellsLivesInOrder ==
    \A first \in Earlier, maker \in Makers \cup {Every} :
        LET page == Activity(first, Indexed, [Everything EXCEPT !.maker = maker])
            of(type) == {e \in page : e.type = type}
        IN  /\ \A fill \in of("curve-filled") :
                 \E e \in of("position-published") :
                    e.position = fill.position /\ e.block <= fill.block
            /\ \A e \in of("position-docked") :
                 /\ \A fill \in of("curve-filled") :
                       fill.position = e.position => fill.block < e.block
                 /\ ~blocks[e.block - 1].position[e.position].docked
                 /\ blocks[e.block].position[e.position].docked

\* A crawl over the pages of the list misses no position that stayed as it was
\* while the subgraph moved on, as long as none left the list: what changes
\* moves to the front, so that what does not only moves to later pages.
CrawlMissesNoUntouched ==
    \A b \in Earlier, s \in Sides :
        LET filter == [Active EXCEPT !.side = s]
            before == ToSet(ListPositions(blocks[b], filter))
            after  == ToSet(ListPositions(Latest, filter))
            crawl  == Crawl(<<b>> \o [i \in 1 .. Cardinality(Positions) |-> Indexed], filter)
        IN  before \subseteq after =>
                /\ crawl.cursor = Every
                /\ {p \in before : blocks[b].position[p].lastUpdateBlock
                                     = Latest.position[p].lastUpdateBlock} \subseteq crawl.items

\* Pages that are put together from several queries, or read one by one, are
\* coherent although the subgraph moves between them.
PagesAreCoherent == ActivityTellsLivesInOrder /\ CrawlMissesNoUntouched

\* The views of a block do not contradict each other, nor those of a later one.
ViewsAgree == ListingMatchesMarket /\ DetailIsNotBehind /\ ViewsAgreeAtHead

\* What the agent is offered can be had from every maker whose wallet pays it:
\* while nothing has happened to a discovered position since the block it was
\* read at, the chain fills the whole output that it was promised at the least,
\* for no more of the maker's tokens than that.  The flags of the index say
\* nothing of wallets, so from other makers it cannot be had.
DiscoveredIsFillable ==
    \A s \in Sides, minimum \in FillAmounts \ {0}, wallet \in Wallets :
        \A p \in Discovered(Latest, s, minimum) :
            LET token == SideOut(Config[p], s)
            IN  log = <<>> /\ Pays(wallet, token, minimum) =>
                    FillsFrom(wallet, p, s, "ExactOutput", minimum)

\* What the batch executor's simulation of a one-position route returns.
SimulatedRoute(p, side, kind, raw) ==
    IF Fillable({p}, side, kind, raw)
    THEN LET fill == FillOf(p, side, kind, raw)
         IN  [amountIn |-> fill.amountIn, amountOut |-> fill.amountOut]
    ELSE Nothing

\* An agent that follows the comparison takes the best execution there is: the
\* venue it is sent to gives no less output, or takes no more input, than the
\* simulated route and than any listed pool, and an estimate that decided is
\* one that its pool would honour.
PreferredVenueIsBest ==
    \A p \in Ours, side \in Sides, kind \in Kinds, raw \in FillAmounts :
        \A route \in {SimulatedRoute(p, side, kind, raw)} \ {Nothing}, pools \in PoolLists :
            LET venue  == PreferredVenue(route, pools, FALSE, kind, raw)
                chosen == IF venue = "ArcBook" THEN route ELSE BestEstimate(pools, kind, raw)
                offers == {route} \cup {Estimate(pools[i], kind, raw) : i \in DOMAIN pools}
            IN  venue # "not-comparable" =>
                    /\ \A offer \in offers \ {Nothing} :
                          /\ offer.amountOut <= chosen.amountOut
                          /\ offer.amountIn >= chosen.amountIn
                    /\ kind = "ExactOutput" =>
                          \A i \in DOMAIN pools : EstimateIsCovered(pools[i], raw)

\* What the tools of the MCP server tell an agent is worth acting on.
AgentsAreServed == DiscoveredIsFillable /\ PreferredVenueIsBest
=============================================================================
