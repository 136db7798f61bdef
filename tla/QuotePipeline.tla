--------------------------- MODULE QuotePipeline ---------------------------
(***************************************************************************)
(* One quote request through the solver API (services/solver-api/src:       *)
(* RouteService.quote, LiquidOBGraphClient.candidates, ViemChainGateway),   *)
(* while the chain moves, may reorganise, and the subgraph follows it.      *)
(*                                                                         *)
(* Every await is a step boundary: the pages of candidates beside the head  *)
(* block, the Lens refresh, the authoritative quotes, the simulation at the *)
(* head block read in the beginning, and the gas estimate.  Each of them    *)
(* reads the chain or the index as it is at that step, and may fail.        *)
(*                                                                         *)
(* A position is its key, a number in the order of localeCompare.  Of its   *)
(* runtime the chain keeps the version and what its side has sold, in WAD   *)
(* of the token whose amount the request fixes.  The solver is represented  *)
(* by what Solver shows of it: any split of the amount over at most         *)
(* MaxFills admitted positions within their depth, or an error.             *)
(***************************************************************************)
EXTENDS Integers, Sequences, FiniteSets, SequencesExt, FiniteSetsExt, Functions

Basis == 10000

CONSTANTS
    Positions,           \* position keys
    Makers,
    MakerOf,             \* maker of each position
    Capacity,            \* depth of each fresh side
    Price(_, _),         \* indexed price of a side: position, sold
    Counter(_, _, _, _), \* raw amount of the other token: kind, position, sold, raw
    Outgoing(_, _),      \* raw output of all that is left: position, sold
    Scale,               \* WAD units of a raw unit of the fixed token
    Transactions,        \* what others send to the chain
    Requests,            \* [kind, amount, slippageBps, simulate]
    InitialSold,         \* what each side has sold in the first block
    InitialFunds,        \* raw output tokens in the wallet of each maker
    MaxBlocks,
    MaxIndexLag, PageSize, MaxPages, MaxFills, ReserveCount

ASSUME QuotePipelineAssumption ==
    /\ Positions \subseteq Nat /\ IsFiniteSet(Positions)
    /\ MakerOf \in [Positions -> Makers]
    /\ Capacity \in [Positions -> Nat]
    /\ InitialSold \in [Positions -> Nat]
    /\ \A p \in Positions : InitialSold[p] <= Capacity[p]
    /\ InitialFunds \in [Makers -> Nat]
    /\ {Scale, PageSize, MaxPages, MaxFills, MaxBlocks} \subseteq Nat \ {0}
    /\ {ReserveCount, MaxIndexLag} \subseteq Nat
    /\ Transactions \subseteq
            [type : {"Take", "Recycle"}, position : Positions, amount : Nat]
              \cup [type : {"Dock"}, position : Positions]
              \cup [type : {"Withdraw"}, maker : Makers] \cup [type : {"Empty"}]
    /\ Requests \subseteq [kind : {"ExactInput", "ExactOutput"}, amount : Nat \ {0},
                           slippageBps : 0 .. Basis, simulate : BOOLEAN]
    /\ \A p \in Positions : \A sold \in 0 .. Capacity[p] :
          /\ Price(p, sold) \in Nat /\ Outgoing(p, sold) \in Nat
          /\ \A r \in Requests : \A raw \in 1 .. r.amount :
                Counter(r.kind, p, sold, raw) \in Nat

VARIABLES
    blocks,    \* the states of the chain, one per block
    reorged,   \* history: a block has been replaced
    index,     \* [height, state], the block the subgraph serves
    request,
    call       \* locals of the request in progress, by stage

vars == <<blocks, reorged, index, request, call>>
-----------------------------------------------------------------------------
(* The chain and the subgraph, moved by others.                             *)

Genesis ==
    [version |-> [p \in Positions |-> 0], sold |-> InitialSold,
     active |-> [p \in Positions |-> TRUE], funds |-> InitialFunds]

Depth(s, p) == Capacity[p] - s.sold[p]

\* What a transaction makes of a state: a take of the side, a fill of the other
\* side that is recycled into it, a dock or an emptied wallet.  One that does
\* not apply is mined as an empty block.
After(s, t) ==
    CASE t.type = "Take" /\ s.active[t.position] /\ t.amount <= Depth(s, t.position) ->
           LET p    == t.position
               sold == s.sold[p] + t.amount
               paid == Outgoing(p, s.sold[p]) - Outgoing(p, sold)
           IN  IF paid > s.funds[MakerOf[p]] THEN s
               ELSE [s EXCEPT !.version[p] = @ + 1, !.sold[p] = sold,
                              !.funds[MakerOf[p]] = @ - paid]
      [] t.type = "Recycle" /\ s.active[t.position] /\ t.amount <= s.sold[t.position] ->
           [s EXCEPT !.version[t.position] = @ + 1, !.sold[t.position] = @ - t.amount]
      [] t.type = "Dock"     -> [s EXCEPT !.active[t.position] = FALSE]
      [] t.type = "Withdraw" -> [s EXCEPT !.funds[t.maker] = 0]
      [] OTHER -> s

Latest == Last(blocks)

\* A refused request has no interest in what happens next.
Refused == call.stage = "Answered" /\ call.status # "Route"

Mine ==
    /\ Len(blocks) < MaxBlocks /\ ~Refused
    /\ \E t \in Transactions : blocks' = Append(blocks, After(Latest, t))
    /\ UNCHANGED <<reorged, index, request, call>>

\* Another block of the same height takes the place of the last one.
Reorganise ==
    /\ Len(blocks) > 1 /\ ~reorged /\ ~Refused
    /\ \E t \in Transactions :
         LET s == After(blocks[Len(blocks) - 1], t)
         IN  s # Latest /\ blocks' = Append(Front(blocks), s)
    /\ reorged' = TRUE
    /\ UNCHANGED <<index, request, call>>

\* The subgraph takes the next block, or replaces the one it has.
Index ==
    /\ call.stage = "Reading"
    /\ \E height \in {index.height, index.height + 1} \cap DOMAIN blocks :
         index' = [height |-> height, state |-> blocks[height]]
    /\ index' # index
    /\ UNCHANGED <<blocks, reorged, request, call>>
-----------------------------------------------------------------------------
(* Candidates.                                                              *)

Offered(s) == {p \in Positions : s.active[p] /\ Depth(s, p) > 0}

ListedBefore(s, p) ==
    {q \in Offered(s) : \/ Price(q, s.sold[q]) > Price(p, s.sold[p])
                        \/ Price(q, s.sold[q]) = Price(p, s.sold[p]) /\ q < p}

\* The answer of the query: sides with reserve, best indexed price first.
Listed(s) ==
    [i \in 1 .. Cardinality(Offered(s)) |->
       CHOOSE p \in Offered(s) : Cardinality(ListedBefore(s, p)) = i - 1]

Page(s, page) ==
    [i \in 1 .. Min({PageSize, Max({0, Len(Listed(s)) - page * PageSize})}) |->
       LET p == Listed(s)[page * PageSize + i]
       IN  [position |-> p, depth |-> Depth(s, p)]]

Proceed(locals) ==
    /\ call' = locals
    /\ UNCHANGED <<blocks, reorged, index, request>>

\* Mutant of Answer: a reverted simulation is tried again.
AnswerOrRetry(status) ==
    Proceed(IF status = "SIMULATION_REVERTED" THEN call
            ELSE [stage |-> "Answered", status |-> status])

\* An ApiError, or a SolverError as normalizeError sees it.
Answer(status) == Proceed([stage |-> "Answered", status |-> status])

AllPages == -1

Reading(pages) == call.stage = "Reading" /\ (call.page # AllPages) = pages

\* The locals once a page has been added; its block is that of the index.
WithPages(rows, page) ==
    [stage |-> "Reading", rows |-> rows, page |-> page, indexed |-> index.height,
     head |-> call.head]

\* Mutant of LoadPage: the block of a page is not compared.
LoadPageUnpinned ==
    /\ Reading(TRUE)
    /\ LET rows == Page(index.state, call.page)
           all  == call.rows \o rows
       IN  IF Len(rows) < PageSize
           THEN IF all = <<>> THEN Answer("INSUFFICIENT_LIQUIDITY")
                ELSE Proceed(WithPages(all, AllPages))
           ELSE IF call.page = MaxPages - 1 THEN Answer("SUBGRAPH_UNAVAILABLE")
           ELSE Proceed(WithPages(all, call.page + 1))

\* One turn of the pagination loop.
LoadPage ==
    /\ Reading(TRUE)
    /\ LET rows == Page(index.state, call.page)
           all  == call.rows \o rows
       IN  IF call.page > 0 /\ call.indexed # index.height
           THEN Answer("SUBGRAPH_UNAVAILABLE")
           ELSE IF Len(rows) < PageSize
           THEN IF all = <<>> THEN Answer("INSUFFICIENT_LIQUIDITY")
                ELSE Proceed(WithPages(all, AllPages))
           ELSE IF call.page = MaxPages - 1 THEN Answer("SUBGRAPH_UNAVAILABLE")
           ELSE Proceed(WithPages(all, call.page + 1))

GraphFails == Reading(TRUE) /\ Answer("SUBGRAPH_UNAVAILABLE")

ReadHead ==
    /\ call.stage = "Reading" /\ call.head = 0
    /\ Proceed([call EXCEPT !.head = Len(blocks)])

HeadFails == call.stage = "Reading" /\ call.head = 0 /\ Answer("RPC_UNAVAILABLE")
-----------------------------------------------------------------------------
(* Solving.                                                                 *)

\* Splits of an amount over at most MaxFills positions, within their depths.
Splits(depth, amount) ==
    UNION {{split \in [S -> 1 .. amount] :
              SumFunctionOnSet(split, S) = amount /\ \A p \in S : split[p] <= depth[p]} :
             S \in {T \in SUBSET DOMAIN depth : Cardinality(T) \in 1 .. MaxFills}}

AmountWad == request.amount * Scale

\* solveRoute throws: no split, or one that the search misses or trips over.
SolverFails == Answer("INSUFFICIENT_LIQUIDITY") \/ Answer("INTERNAL_ERROR")

Rows(rows) == {rows[i].position : i \in DOMAIN rows}

\* The fills of the first certificate and its reserves.
Shortlists(rows) ==
    LET depth == [p \in Rows(rows) |->
                    (CHOOSE row \in ToSet(rows) : row.position = p).depth]
    IN  UNION {{DOMAIN split \cup reserves :
                  reserves \in kSubset(Min({ReserveCount,
                                            Cardinality(Rows(rows) \ DOMAIN split)}),
                                       Rows(rows) \ DOMAIN split)} :
                 split \in Splits(depth, AmountWad)}

\* Both gateways have answered: freshness gates and the first solve.
Shortlist ==
    /\ Reading(FALSE) /\ call.head # 0
    /\ IF call.indexed > call.head THEN Answer("SUBGRAPH_UNAVAILABLE")
       ELSE IF call.head - call.indexed > MaxIndexLag THEN Answer("SUBGRAPH_STALE")
       ELSE IF Cardinality(Rows(call.rows)) # Len(call.rows) THEN Answer("INVALID_REQUEST")
       ELSE \/ SolverFails
            \/ \E shortlist \in Shortlists(call.rows) :
                 Proceed([stage |-> "Refreshing", head |-> call.head, shortlist |-> shortlist])

\* The RPC serves another chain, or the subgraph has failed for good.
GatewayRefuses ==
    /\ Reading(FALSE) /\ call.head # 0
    /\ Answer("CHAIN_MISMATCH") \/ Answer("SUBGRAPH_INDEXING_ERROR")

SufficientlyBacked(s, p) == s.funds[MakerOf[p]] >= Outgoing(p, s.sold[p])

Remainder(split, p) == split[p] % Scale

\* Mutant of RoundedUp: the smallest remainders are rounded up.
RoundedUpSmallest(split, p) ==
    LET ahead == {q \in DOMAIN split :
                    \/ Remainder(split, q) < Remainder(split, p)
                    \/ Remainder(split, q) = Remainder(split, p) /\ q < p}
        floors == [q \in DOMAIN split |-> split[q] \div Scale]
    IN  Cardinality(ahead) < request.amount - SumFunctionOnSet(floors, DOMAIN floors)

\* What the floors leave of the amount goes to the largest remainders.
RoundedUp(split, p) ==
    LET ahead == {q \in DOMAIN split :
                    \/ Remainder(split, q) > Remainder(split, p)
                    \/ Remainder(split, q) = Remainder(split, p) /\ q < p}
        floors == [q \in DOMAIN split |-> split[q] \div Scale]
    IN  Cardinality(ahead) < request.amount - SumFunctionOnSet(floors, DOMAIN floors)

\* distributeRawAmounts
Share(split, p) == split[p] \div Scale + (IF RoundedUp(split, p) THEN 1 ELSE 0)

\* Mutant of Refreshed: the backing is not refreshed.
RefreshedFunds(s, shortlist) ==
    [p \in {q \in shortlist : s.active[q] /\ Depth(s, q) > 0} |-> Depth(s, p)]

\* Depths of the candidates that the Lens still admits.
Refreshed(s, shortlist) ==
    [p \in {q \in shortlist : s.active[q] /\ Depth(s, q) > 0 /\ SufficientlyBacked(s, q)} |->
       Depth(s, p)]

Quoting(split) ==
    [stage |-> "Quoting", head |-> call.head, quotes |-> <<>>,
     fills |-> [p \in DOMAIN split |->
                  [version |-> Latest.version[p], wad |-> split[p], share |-> Share(split, p)]]]

\* Mutant of Refresh: a position may get nothing.
RefreshUnchecked ==
    /\ call.stage = "Refreshing"
    /\ \/ SolverFails
       \/ \E split \in Splits(Refreshed(Latest, call.shortlist), AmountWad) :
            Proceed(Quoting(split))

\* One Lens call for the whole shortlist, the final solve, the raw shares.
Refresh ==
    /\ call.stage = "Refreshing"
    /\ \/ SolverFails
       \/ \E split \in Splits(Refreshed(Latest, call.shortlist), AmountWad) :
            IF \E p \in DOMAIN split : Share(split, p) = 0
            THEN Answer("INVALID_REQUEST")
            ELSE Proceed(Quoting(split))

LensFails == call.stage = "Refreshing" /\ Answer("RPC_UNAVAILABLE")
-----------------------------------------------------------------------------
(* Preparing.                                                               *)

\* The Quoter, and the router in an execution, accept a fill.
Fillable(s, p, fill) ==
    /\ s.version[p] = fill.version
    /\ s.active[p]
    /\ fill.share * Scale <= Depth(s, p)

CounterAt(s, p, fill) == Counter(request.kind, p, s.sold[p], fill.share)

\* Mutant of QuoteFill: the quote is not bound to the refreshed version.
QuoteFillOfAnyVersion(p) ==
    /\ call.stage = "Quoting" /\ p \in DOMAIN call.fills \ DOMAIN call.quotes
    /\ IF call.fills[p].share * Scale <= Depth(Latest, p)
       THEN Proceed([call EXCEPT !.quotes =
              [q \in DOMAIN @ \cup {p} |->
                 IF q = p THEN CounterAt(Latest, p, call.fills[p]) ELSE @[q]]])
       ELSE Answer("RPC_UNAVAILABLE")

\* One chunk of the multicall; the chunks are sent together and may be
\* served at different blocks.
QuoteFill(p) ==
    /\ call.stage = "Quoting" /\ p \in DOMAIN call.fills \ DOMAIN call.quotes
    /\ IF Fillable(Latest, p, call.fills[p])
       THEN Proceed([call EXCEPT !.quotes =
              [q \in DOMAIN @ \cup {p} |->
                 IF q = p THEN CounterAt(Latest, p, call.fills[p]) ELSE @[q]]])
       ELSE Answer("RPC_UNAVAILABLE")

QuoterFails ==
    /\ call.stage = "Quoting" /\ DOMAIN call.quotes # DOMAIN call.fills
    /\ Answer("RPC_UNAVAILABLE")

DivUp(n, d) == (n + d - 1) \div d

Limit(total) ==
    IF request.kind = "ExactInput"
    THEN (total * (Basis - request.slippageBps)) \div Basis
    ELSE DivUp(total * (Basis + request.slippageBps), Basis)

Prepare ==
    /\ call.stage = "Quoting" /\ DOMAIN call.quotes = DOMAIN call.fills
    /\ LET route == [head |-> call.head, fills |-> call.fills,
                     limit |-> Limit(SumFunctionOnSet(call.quotes, DOMAIN call.quotes))]
       IN  IF request.simulate
           THEN Proceed([stage |-> "Simulating", route |-> route])
           ELSE Proceed([stage |-> "Answered", status |-> "Route", route |-> route])

WithinLimit(s, route) ==
    LET counters == [p \in DOMAIN route.fills |-> CounterAt(s, p, route.fills[p])]
        total == SumFunctionOnSet(counters, DOMAIN counters)
    IN  IF request.kind = "ExactInput" THEN total >= route.limit ELSE total <= route.limit

\* What a fill takes out of the wallet of its maker.
Output(s, p, fill) ==
    IF request.kind = "ExactInput" THEN CounterAt(s, p, fill) ELSE fill.share

\* The prepared transaction succeeds on a state.
Executes(s, route) ==
    /\ \A p \in DOMAIN route.fills : Fillable(s, p, route.fills[p])
    /\ \A m \in Makers :
         MapThenSumSet(LAMBDA p : Output(s, p, route.fills[p]),
                       {p \in DOMAIN route.fills : MakerOf[p] = m}) <= s.funds[m]
    /\ WithinLimit(s, route)

\* eth_call, pinned to the head block read with the candidates.
Simulate ==
    /\ call.stage = "Simulating"
    /\ IF Executes(blocks[call.route.head], call.route)
       THEN Proceed([stage |-> "Estimating", route |-> call.route])
       ELSE Answer("SIMULATION_REVERTED")

\* estimateGas, on the latest block.
EstimateGas ==
    /\ call.stage = "Estimating"
    /\ IF Executes(Latest, call.route)
       THEN Proceed([stage |-> "Answered", status |-> "Route", route |-> call.route])
       ELSE Answer("SIMULATION_REVERTED")

SimulationFails ==
    /\ call.stage \in {"Simulating", "Estimating"}
    /\ Answer("SIMULATION_REVERTED")
-----------------------------------------------------------------------------
Init ==
    /\ blocks = <<Genesis>>
    /\ reorged = FALSE
    /\ index = [height |-> 1, state |-> Genesis]
    /\ request \in Requests
    /\ call = [stage |-> "Reading", rows |-> <<>>, page |-> 0, indexed |-> 0, head |-> 0]

Serve ==
    \/ LoadPage \/ GraphFails \/ ReadHead \/ HeadFails
    \/ Shortlist \/ GatewayRefuses
    \/ Refresh \/ LensFails
    \/ \E p \in Positions : QuoteFill(p)
    \/ QuoterFails \/ Prepare
    \/ Simulate \/ EstimateGas \/ SimulationFails

Next == Mine \/ Reorganise \/ Index \/ Serve

\* Every await of the service ends: each request carries a timeout
\* (AbortSignal.timeout of the graph client, the transport of viem).
Spec == Init /\ [][Next]_vars /\ WF_vars(Serve)
-----------------------------------------------------------------------------
(* Properties *)

Statuses ==
    {"Route", "INVALID_REQUEST", "SUBGRAPH_UNAVAILABLE", "SUBGRAPH_STALE",
     "SUBGRAPH_INDEXING_ERROR", "INSUFFICIENT_LIQUIDITY", "RPC_UNAVAILABLE",
     "CHAIN_MISMATCH", "SIMULATION_REVERTED", "INTERNAL_ERROR"}

States ==
    [version : [Positions -> Nat], sold : [Positions -> Nat],
     active : [Positions -> BOOLEAN], funds : [Makers -> Nat]]

TypeOK ==
    /\ blocks \in Seq(States) /\ Len(blocks) \in 1 .. MaxBlocks
    /\ \A i \in DOMAIN blocks, p \in Positions : blocks[i].sold[p] <= Capacity[p]
    /\ reorged \in BOOLEAN
    /\ index.state \in States /\ index.height \in DOMAIN blocks
    /\ request \in Requests
    /\ call.stage \in {"Reading", "Refreshing", "Quoting", "Simulating", "Estimating", "Answered"}
    /\ call.stage = "Quoting" =>
         \A p \in DOMAIN call.fills :
             call.fills[p] \in [version : Nat, wad : 1 .. AmountWad, share : 1 .. request.amount]
    /\ call.stage = "Answered" => call.status \in Statuses

\* graph-client.test.ts: "paginates one immutable snapshot".  The pages, each
\* read by itself while the subgraph moves, add up to the index of one block:
\* every listed side once, although a price change reorders them.
SnapshotIsWhole ==
    Reading(FALSE) /\ ~reorged =>
        LET s == blocks[call.indexed]
        IN  /\ Len(call.rows) = Len(Listed(s))
            /\ Rows(call.rows) = ToSet(Listed(s))
            /\ \A i \in DOMAIN call.rows : call.rows[i].depth = Depth(s, call.rows[i].position)

\* The raw shares of a route add up to the amount asked for, none of them zero
\* (TypeOK) and each less than a raw unit away from what the solver allocated.
SharesAreExact ==
    /\ TypeOK
    /\ call.stage = "Quoting" =>
        /\ LET shares == [p \in DOMAIN call.fills |-> call.fills[p].share]
           IN  SumFunctionOnSet(shares, DOMAIN shares) = request.amount
        /\ \A p \in DOMAIN call.fills :
             call.fills[p].share * Scale - call.fills[p].wad \in (1 - Scale) .. (Scale - 1)

Routed == call.stage = "Answered" /\ call.status = "Route"

\* The blocks since the one an answer names as chainHeadBlock.
SinceHead == call.route.head .. Len(blocks)

\* There was one block, no older than the head block of the answer, at which
\* every fill was active, at the version the answer expects and backed by the
\* wallet of its maker, although index, refresh and quotes read different
\* blocks.
FillsWereBacked ==
    Routed /\ ~reorged =>
        \E i \in SinceHead : \A p \in DOMAIN call.route.fills :
            /\ blocks[i].active[p]
            /\ blocks[i].version[p] = call.route.fills[p].version
            /\ SufficientlyBacked(blocks[i], p)

\* Whenever, from the head block on, the positions of an answered route are at
\* its versions, what the route trades meets its limit: it can fail for a moved
\* position, a dock or an emptied wallet, never for its own arithmetic or for
\* quotes of different blocks.
LimitIsReachable ==
    Routed /\ ~reorged =>
        \A i \in SinceHead :
            (\A p \in DOMAIN call.route.fills :
                blocks[i].version[p] = call.route.fills[p].version)
            => WithinLimit(blocks[i], call.route)

\* Every request is answered, whatever the chain, the index and the gateways
\* do between its awaits.
RequestIsAnswered == <>(call.stage = "Answered")
=============================================================================
