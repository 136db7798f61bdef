# Liquid OB: a TLA+ model of the protocol

Liquid OB (ArcBook) is an order book of *curves*. A maker publishes a position
with a sell side and a buy side; each side quotes a price that moves as its
reserve is sold, and what a fill of one side brings in is *recycled* into the
reserve of the other. Positions live in Aqua, an external contract that holds
virtual allocations over makers' own wallets; a SwapVM router prices and settles
one position; a batch executor settles a route over several. Off chain, a
subgraph indexes the events, a solver API turns an indexed snapshot into a
prepared route, a frontend lets a wallet sign it, and an MCP server compares
routes with other venues for agents.

This directory models the contracts and everything off chain that decides what
a user signs. TLC checks the models on small instances; TLAPS proves theorems for
every value of the constants. `PROJECT.json` maps every definition to the source
lines it models and lists components, runs, mutants, findings, hazards and
theorems.

To reproduce, in this directory:

    tlc -config MCSettlement.cfg MCSettlement.tla
    tlapm SettlementProofs.tla

## Inventory

| Component (under `src/`) | State | Operations | Hard part | What makes it correct |
|---|---|---|---|---|
| `FullPrecisionMath.sol` | none | mulDiv, WAD and raw conversion | direction of each rounding, signed and 512-bit products | each result is the floor or ceiling asked for |
| `TranscendentalMath.sol` | none | ln, exp, pow as intervals | error bounds at the ends of the domain | the interval holds the value |
| `CurveCompiler.sol`, `CurveTypes.sol` | none | derive mu and kappa, choose the branch | domain limits | the derived curve starts at the start price |
| `CurveMath.sol` | none | xAtY, yAtX, marginal rate, exact-input and exact-output quotes | four roundings per quote, many quotes in sequence | no sequence of quotes beats the curve |
| `PositionMath.sol`, `LiquidOBCurveKernel.sol` | version, reserve and scale of both sides | resolve, quote, transition with recycling | scale rebuilt at each credit; raw and WAD roundings | reserve within scale; allocation in step; the maker never loses |
| `PositionCodec.sol` | none | encode, decode, validate | four readers of one byte string | all readers see one policy |
| `LiquidCurveInstruction.sol`, `LiquidOBSwapVMRouter.sol` | `_positionRuntimes` | `_liquidCurve`, stored and resolved runtime | runtime stored before the external transfers | a fill runs at the version it was quoted at |
| `LiquidOBBatchExecutor.sol` | none kept; a funded allowance during a call | `executeExactInput`, `executeExactOutput` | partial failure, competing and repeated calls, refund by balance difference | routes are atomic, bound to versions, within limits; the executor is a conduit |
| `LiquidOBLens.sol`, `LiquidOBQuoter.sol` | none | backing, runtime and quote views | a snapshot; one wallet backs several positions | a side reported as backed can be filled |
| Aqua, SwapVM, ERC-20 (external) | lifecycle, allocations, balances, approvals | ship, dock, pull, push, transfer, approve | everyone moves them at any time | |
| `subgraph/src` | entities of positions, sides, routes, counters | one handler per event | order of events in a transaction, derived flags | the index equals the chain state after each transaction |
| `services/solver-api/src` quote pipeline | caches and metrics only | candidates, Lens refresh, solve, quote, simulate, gas | ten awaits against a moving chain | an answer is coherent although each await read another block |
| `packages/solver-core` | none | nested binary searches, removal loop, reserve list | rounded quotes, greedy bound | the amount is allocated exactly and within capacity; the loop ends |
| `services/solver-api/src` product views | none | lists, pages, activity, details | several queries at several blocks | views of one thing agree |
| `packages/position-sdk` | none | ship, dock and approval calls | salts, two allowances | a finished plan leaves its sides backed |
| `packages/curve-math` | none | the curve and its commitments in doubles | agreement with Solidity | the router accepts what the browser computed, for ordinary prices and exponents |
| `packages/frontend-live` | bootstrap promise, salts, reviewed quotes | quote review, prepare, replace | stale review, retries | side, kind and fixed amount of what is sent were reviewed; the limit is not compared |
| `apps/web/src/protocol/wallet.ts` | confirmed plans | send steps, await receipts | timeout and retry | no step before the receipts of its predecessors; a strategy is shipped once |
| `apps/web/src/App.tsx` | the view, the ticket, the studio while it is mounted, running tasks | debounced quotes, clicks, navigation | overlapping async tasks | the quote shown is that of the ticket |
| `services/liquidity-mcp` | none | discover, crawl, compare | pages that shift, two roundings | an agent is offered what it can take of makers whose wallets pay, and the better venue |
| `tools/reference` | none | the oracle of the test vectors | | agrees with itself and with the contracts |
| Generated ABIs, schemas, mock client, scripts, demo token | | | | not modelled, see below |

Interaction: the executor calls the router once per fill; the router runs the
instruction, which asks the kernel for a quote and stores the next runtime;
SwapVM then pulls the output out of Aqua (from the maker's wallet) and pushes the
input in. Events of Aqua, the router and the executor feed the subgraph; the
solver API reads the subgraph, refreshes candidates through the Lens, and quotes
them through the Quoter; the frontend asks the solver API and hands calls to the
wallet. Nothing on chain waits for anything off chain, and a signed call may be
submitted at any later time.

## Modules

| Module | Models |
|---|---|
| `FixedPoint` | `FullPrecisionMath`: `MulDiv`, `MulWad`, `DivWad`, `ReciprocalWad` with an explicit rounding |
| `TokenUnits` | Tokens, their decimals, and its `RawToWad` and `WadToRaw` |
| `Primitives` | The width and sign of words under it, and the intervals of `TranscendentalMath` over an assumed backend |
| `CurveCompiler` | Derivation of a native curve from the maker's parameters, branch selection, sides and tokens |
| `CurveMath` | `XAtY`, `YAtX`, marginal rate and both quotes. `HasX`, `HasY`, `Buildable` and the `CanQuote...` operators are the conditions under which the code does not revert |
| `DirectionalCurve` | One side under a sequence of takes; state is the reserve and what takers have paid |
| `QuoteMath`, `Reference` | The same curve as the browser and solver state it, and as the repository's oracle does, in exact rationals |
| `PositionMath` | Runtime, recycling (`Credit`), `Transition`, the kernel's quote (`PositionFill`) and its reverts (`CanFill`) |
| `MakerPosition` | One position: `Fill` is `_liquidCurve` with the two token movements, `Push` an unsolicited credit through Aqua |
| `AtomicRoutes` | The abstract promise: a call settles whole, at its versions, within limit and deadline, or does nothing |
| `Settlement` | Strategies, wallets and the executor, step by step; implements `AtomicRoutes` |
| `Subgraph` | The logs of chain transactions, and the event handlers that rebuild positions, sides, fills, routes and counters from them |
| `ProductViews`, `LiquidityComparison` | Over `Subgraph`: the views, pages and crawls assembled from queries at several of its blocks, and the comparison with constant-product pools |
| `Solver` | The searches and the removal loop over `QuoteMath`; one turn of the loop is a step |
| `QuotePipeline` | One request of the solver API; every await is a step, and chain, subgraph and gateways act between them |
| `Frontend` | The ticket and studio, the client and the wallet executor; every click starts a task whose awaits are steps |
| `PositionPayload`, `Doubles` | The bytes of a position and their four readers; the number type of the browser |
| `Publication` | Draft, preview, plan, allowances, ship and index of a position, with the commitments computed in doubles |
| `MC...` | Constants for TLC |
| `SumAndRankProofs` | Lemmas about sums over finite sets and ranks in a finite order, cited by four of the modules below |
| `PositionMathProofs` | Lemmas about rounded division, accepted fills and recycling, cited by four of them |
| `MakerProofs` | Theorems about `DirectionalCurve`, `MakerPosition`, `Publication` and the signed products of `Primitives` |
| `SettlementProofs`, `SubgraphProofs`, `SolverProofs`, `QuotePipelineProofs`, `FrontendProofs` | Theorems about the module they are named after; `SubgraphProofs` also those about `ProductViews`, `SolverProofs` the one about `LiquidityComparison` |

`Settlement` composes `PositionMath` with wallets, `ProductViews` composes
`Subgraph` with `LiquidityComparison`, `Publication` composes `PositionPayload` with
`Doubles`, and `MCDirectionalCurve` puts the three statements of the curve side by
side. `QuotePipeline` represents the solver by what `Solver` shows of it: any split
of the amount over at most `maxFills` eligible positions within their capacity, or
an error.

### How state and actions correspond

`Settlement.stored` is `_positionRuntimes` (version 0 means never filled, and
then `Resolve` returns the initial runtime, as `resolvedRuntime` does).
`lifecycle`, `allocation`, `balance`, `approved` belong to Aqua and the tokens.
`work` is the journal of the one transaction in progress. `BeginRoute` is
validation, funding and `forceApprove`; `FillNext` is one turn of the loop,
including everything the router does for it; `SettleRoute` is the limit check,
the refund and the commit; `RevertRoute` is any failing check. While a journal is
open nothing else is enabled, since transactions do not interleave on chain; the
competition is between calls quoted on the same state. A call is never removed
from the mempool: it can be submitted late, twice, or never.

In `Subgraph` one step of the chain appends the events of a whole transaction to
`log`, in the order the contracts emit them (the instruction's events, then the
pull, then the push; `RouteExecuted` last). One step of the indexer runs one
handler to its end: graph-node runs handlers one at a time and in log order.
`index` holds the entities. The chain itself is reduced to what the logs
depend on: `PositionMath` decides which fills succeed, wallets always pay, and a
reverted transaction leaves no log. A view of `ProductViews` is a function of the
blocks its queries were pinned to, and its properties quantify over those blocks.
The detail of a position takes its index from one block and asks the Lens later, at
the chain as it is (`position()` awaits the two one after the other). What the Lens
sees of the maker's wallet, balance and allowance, is quantified over too
(`Wallets`): makers move both independently of their positions, so in every state
of the chain every wallet is possible. That head and RPC node are not behind the
index is assumed; the code only marks such an answer as stale.

`Solver` starts with a request over a market; `Proceed` admits candidates and
measures them, `RemoveOne` is one turn of the loop of `enforceFillBound`, `Certify`
builds the certificate. The binary searches are operators: they read nothing that
moves.

In `QuotePipeline` the locals of `RouteService.quote` are the record `call`, whose
stage names the await it stands at. `blocks` is the chain by height, replaced from
a height upwards by a reorganisation; `indexed` is what the subgraph has followed.
Every action of the service reads chain or index as they are at that step.

In `Frontend` a task is an async function; `Waits(t)` are the awaits of it that a
timeout bounds. The quote effect is `DebounceEnds`, the open `requests` and
`QuoteEnds`. Users, accounts, receipts and reverts are actions of their own. A
ticket is an `order`, which stands for market, side, kind and fixed amount, and a
`slippage`; a prepared route is an order and a limit. `AssertSameQuote` compares
orders, as `assertSameQuote` compares those four fields and nothing else. The studio
is mounted only while its view is open: `Navigate` and `Reload` discard its draft,
preview and plan, and every mount draws a new salt. A task started in one mount goes
on after it is gone, and what it would set on the page then is lost.

### What is abstracted

* Addresses, hashes, salts and event payloads are model values or small numbers; a
  position is identified by itself, except in `Publication`, whose subject is what
  its bytes say. There a payload is a sequence of fields, not of bytes.
* `Ln`, `Exp`, `Pow` are constants. The proofs of the curve assume the flat
  branch or nothing about them; the MC modules give `Pow` as an integer root or
  power rounded down.
* `uint128` is the bound `MaxAmount`; `Tolerance` is the tolerance of the commitment
  check. Intermediate 512-bit products are exact in the code and in the model.
* Approvals are given or withdrawn per maker and token as a whole in `Settlement`;
  `Publication` has the amounts.
* Fee-on-transfer tokens are not modelled: their delta checks would simply
  revert.
* `QuoteMath` computes on the flat branch and native alpha 1/2, whose powers are
  rational; the other branches differ in the transcendental function only.

## Runs

| Run | States | Shows |
|---|---|---|
| `curve` | 435 | `TakersPayTheCurve`, `QuotesAreCoherent`, `ArithmeticIsSound` |
| `maker_position` | 6 376 | `ReserveWithinScale`, `AllocationTracksReserve`, `MakerNeverLoses`, `RecyclingKeepsProgress` over up to three fills of either side in either kind, with pushes between them |
| `settlement` | 21 873 | five competing calls, ship, dock, the clock, takers without the executor, transfers, pushes, revoked approvals: `OneRoutePerVersion`, `AllowanceIsFunded`, `BackedFillIsDelivered`, `ExecutorIsConduit`, and the refinement `ImplementsAtomicRoutes` |
| `subgraph` (`MCProductViews`) | 16 786 | `IndexMirrorsChain` whenever the indexer has caught up, `IndexIsSound` after every event, `ViewsAgree`, `PagesAreCoherent`, `AgentsAreServed`; `DockedIsDelisted` under the indexer's fairness |
| `solver` | 4 420 | `CertificateIsWhole`, `RouteIsEligible`, `BestExecution` against a search over all splits, `EachTurnNarrows`, and no deadlock |
| `pipeline` | 74 418 | `SnapshotIsWhole`, `SharesAreExact`, `FillsWereBacked`, `LimitIsReachable`; `RequestIsAnswered` under the fairness of the service |
| `frontend` | 258 815 | `QuoteMatchesTicket`, `SignedAsReviewed`, `StepsAwaitReceipts`, `DraftsMatchPositions`, `ReplacementFollowsDock`; `WaitsEnd` under the fairness of the requests with a timeout |
| `publication` | 81 301 | `PreviewIsTradable`, `IndexShowsWhatIsTraded`, `FundedSidesAreBacked` |
| `curve_undercharge`, `maker_blocked`, `subgraph_prices`, `solver_crash` | violation | the four findings below |

The passing runs also check the type invariants. Several properties are
conjunctions of named parts, each defined next to it:

| Property | Parts |
|---|---|
| `TakersPayTheCurve` | `TypeOK`; `NeverBeatsFreshRate`, however a trade is split; `CoordinateCovered` |
| `QuotesAreCoherent` | `InversionConsistent`: the input quoted for an output buys it, the last unit of a side included; `CurvedQuotesMonotone`; `QuotesTrackReference`: contract and browser stay within a few units of the exact integral |
| `ArithmeticIsSound` | `SignedProductsAreExact`, `ShortcutsAgree`, `Encloses`; that the oracle agrees with itself is an assumption of the module, which TLC evaluates |
| `IndexIsSound` | `TypeOK`; `PullsAreCovered`: the clamp at zero never hides a pull; `CountersAddUp` |
| `ViewsAgree` | `ListingMatchesMarket`; `DetailIsNotBehind`, for an index of any age; `ViewsAgreeAtHead` |
| `PagesAreCoherent` | `ActivityTellsLivesInOrder`, `CrawlMissesNoUntouched` |
| `AgentsAreServed` | `DiscoveredIsFillable`, of makers whose wallets pay; `PreferredVenueIsBest` |
| `CertificateIsWhole` | `RouteServesRequest`, `ReservesAreNextBest` |
| `SharesAreExact` | `TypeOK`, and the largest remainders |
| `DraftsMatchPositions` | `DraftIsShippedOnce`; `FreshDraftAfterShip`: beyond one salt for every mount of the studio, no more salts than publications |
| `SignedAsReviewed` | signer and positions are those of the task's account, the order is that of the quote clicked, approval and execution carry one route |
| `PreviewIsTradable` | `PlanShipsPreview`; `OrdinaryCurvesCompile`; for ordinary drafts, the router decodes and compiles what is shipped |
| `IndexShowsWhatIsTraded` | `PublicationTypeOK`, and index against router |

All runs but `solver` say `CHECK_DEADLOCK FALSE`: a sold-out curve, a version
bound reached, an answered request, a closed session or a chain on which no call
applies are real ends. The solver stutters once it has certified or given up, so a
deadlock there would be a search that is stuck.

### Fairness

* The indexer of `Subgraph` (`WF_vars(Indexer)`): graph-node keeps taking the next
  event while there is one.
* The service of `QuotePipeline` (`WF_vars(Serve)`): every await of it is an HTTP or
  RPC call with a timeout, so the awaited answer or an error comes. Blocks,
  transactions and reorganisations are not fair.
* In `Frontend` the debounce timer, and the end of a request to the services, each
  of which carries a timeout (`client.ts:424-432`): quotes, preparations and the
  refresh after a plan. Users, the wallet and the chain are not fair. That includes
  the wait for a receipt: `wallet.ts:130-131` tests its deadline only between
  requests to the wallet, which carry no timeout, so a silent wallet hangs it;
  `TimesOut` may happen and need not, and `WaitsEnd` promises neither a receipt nor a
  signature.

The contracts do nothing unless somebody sends a transaction, so no fairness of an
on-chain action is justified by the code, and the other specifications are safety
alone.

### Bounds, and why they are enough

* **Curve**: `WAD` 16, a reserve of 24 and every request from 1 to 24, so each
  residue of every division occurs; the price 3/2 makes the native rate (2/3)
  inexact. A flat side whose native rate exceeds one refuses a payment that
  overshoots its last unit, so `InversionConsistent` is claimed for rates up to one
  (`PaymentBuysOutput` for all, below). Every order of takes of both kinds is reached,
  and at every reserve they leave, the curved side is quoted at every amount.
* **Position**: `WAD` 8, prices 7/4 and 5/4, a raw quote unit of 3 WAD units so
  that raw conversion really rounds, and `MaxVersion` 3: a fill, a fill that spends
  what the first recycled, and a fill of a side credited twice. `MaxHeld` bounds
  pushes; `MaxAmount` 95 is low enough that the domain check bites.
* **Settlement**: two makers and three positions, two of which share a wallet;
  routes of one and two fills, both kinds and both sides; a call that competes
  with two others, one that follows, one that pays itself, one whose limit is
  unreachable and whose deadline passes, one that repeats a position. `MaxVersion` 2
  allows each position to be filled, and filled again by the follow-up or a direct
  swap. One time step suffices for one deadline to pass; one external step suffices
  because the properties it could break are about what happens between two routes.
  The theorems below hold without these bounds.
* **Subgraph**: the index after an event is a function of the log up to it, so a
  backlog of one transaction reaches every state of the index that a longer one
  would, and every query is pinned between two transactions, one per block. Four
  transactions allow both positions to be shipped, a route over both
  (`RouteSizes` 2), and a fill, gift or dock after it. Pages hold one position, so
  that two make a boundary. `Holdings` has an amount below every reserve and one
  above: only the comparison with the reserve matters.
* **Solver**: `WAD` 4, ten markets of up to five of eleven positions, two of them
  not eligible, of equal and different rates, flat and curved; every amount from 0
  to 14 passes the depth of most of them; bounds of one to three fills. `BestExecution`
  compares with all splits of the amount.
* **Pipeline**: three positions of two makers, pages of two, three blocks and an
  index lag of one: a page boundary inside the list, a fill, a recycle, a dock and a
  withdrawal at any await, and a reorganisation of the newest block.
* **Frontend**: seven sessions of `MCSessions`: edits of a ticket with a switch of the
  wallet; two orders with a reload; a draft reviewed and published twice, with an edit
  and a closed dialog; two publications around a switch of the wallet; leaving the
  studio, or reloading the page, and publishing again; publish, dock and replace with
  a switch of the wallet. Two clicks may overlap as two tasks. Three valid tickets,
  of two orders and two slippages, and an invalid one; two limits, so that a new
  quote may have another limit than the one shown. `MaxPlans` 2 for the replacement
  of what was published; `MaxTxs` 4 for an approval, a dock, a publication and one
  repetition. One token needs an approval (`Outgoing`): a second would only lengthen
  plans. The views `home` and `activity` keep no state: leaving the studio for
  `trade` or `portfolio` stands for them.
* **Publication**: `WAD` is 512, nine bits, and doubles have seven, so that, as with
  60 bits and 53, prices and exponents are rounded when they are converted and a step
  of the doubles next to 1 is several units of WAD. `Tolerance` is 32 of these, sixteen
  times the rounding of a number next to 1; the real ratio is some millions, so the
  region in which drafts are refused is much larger here than in the code. Powers are a
  rational function, exact at -1, 0 and 1, the same for browser and contract.
  `OrdinaryPrice`, `OrdinarySpread` and `OrdinaryExponent` delimit the curves for which
  `PreviewIsTradable` is claimed: the drafts, and 225 prices and exponents of either
  side (`MCCurves`). Beyond them it is false: the assumption `ExponentsNextToSpecialOnes`
  of the MC module has TLC evaluate that exponents next to 0 and next to 1 are refused,
  and one of the drafts has such an exponent.
* `MaxVersion`, `MaxHeld`, `MaxTime`, `MaxExternal`, `MaxTransactions`, `MaxBacklog`,
  `MaxDay`, `MaxBlocks`, `MaxTxs`, `MaxPlans`, `MaxShips` and `MaxTouches`
  are bounds that the code lacks; they stop counters that would grow for ever.
  `MaxIndexLag` of the pipeline is a setting of the service (`config.ts:39`).

## Proofs

tlapm checks every step. The theorems hold for every value of the constants that
satisfies the assumptions of the modules (`FixedPointAssumption`,
`TokenAssumption`, `SettlementAssumption` and so on), which say what the types
of the contracts and of the configuration say, and which TLC evaluates on every
run.

| Theorems | Property | Inductive invariant and argument |
|---|---|---|
| `FlatTypeOK`, `FlatPaidInFull`, `FlatNeverBeatsFreshRate`, `FlatCoordinateCovered`, `FlatTakersPayTheCurve` | `TakersPayTheCurve` of a flat side | `PaidInFull`: what left the side, times `WAD`, is at most what was paid times kappa. The rate alone is not inductive: a step needs the reserve within its scale |
| `FlatPaymentBuysOutput`, `FlatQuotesMonotone` | `PaymentBuysOutput`, a part of `InversionConsistent`; `QuotesMonotone`, which the run checks on a curved side | `PaidInFull` again: both quotes are quotients of what has been taken, and rounding keeps their order |
| `SignedProducts` | `SignedProductsAreExact`, a part of `ArithmeticIsSound`, for words of every even size | no state: a quotient that fits half a word has a high word below the divisor, so the magnitudes are never refused first |
| `MakerTypeOK`, `MakerReserveWithinScale` | types and domain of a position, all branches | `DomainInv`. The scale is rebuilt with a ceiling, which keeps it above the reserve; the new scale is a quotient of the old one, so the old reserve must have been within it |
| `MakerAllocationTracksReserve` | action property | raw amounts are converted exactly in the direction the kernel uses |
| `MakerRecyclingKeepsProgress` | action property | the ceiling of `yInt * yAfter / y` bounds the ratio from above |
| `FlatMakerNeverLoses` | two flat sides | each fill is charged at least kappa, and the prices do not cross |
| `IndexShowsTradedPositions`, `PlansLeaveNothingToDo`, `PreviewIsShipped` | `IndexShowsWhatIsTraded`, `FundedSidesAreBacked`, `PlanShipsPreview` | `PublicationInv`, from draft to index, see below |
| `SettlementTypeOK` | `TypeOK`: nothing is overdrawn, inside a route either | `TypeInv`: `TypeOK`, and what validation established of the route in progress (`Validated`) |
| `EachVersionSettlesOnce` | `OneRoutePerVersion` | `VersionInv`: a settled call leaves the stored versions of its fills above the expected ones, and the journal has advanced exactly the positions already filled |
| `RouterDrawsOnlyFunding`, `NothingStaysInTheExecutor` | `AllowanceIsFunded`, `ExecutorIsConduit` | `WalletInv`: besides the allowance, no other token of the executor moved unless the route names it as recipient |
| `LensBackingIsSound` | `BackedFillIsDelivered` | `BackingInv`: a maker on whom no earlier fill drew has its runtime and allocation untouched and no less of the output token |
| `SettlementIsAtomic` | `ImplementsAtomicRoutes` | `JournalInv`, see below |
| `SubgraphIsSound`, `SubgraphMirrorsChain` | `IndexIsSound`, `IndexMirrorsChain` | `IInv`: the index is sound, and the log leads from it to the chain; see below |
| `ServedIndexIsSound`, `ServedViewsAgree` | the same two under `ViewSpec`; `ViewsAgreeAtHead`, a part of `ViewsAgree`, for every wallet | `BlocksOK`: one index is kept per indexed block, and the last one is the index as it is when nothing is pending |
| `SolverInvariant`, `SolverTypeOK`, `SolverRouteIsEligible`, `SolverCertificateIsWhole`, `SolverEachTurnNarrows` | `TypeOK`, `RouteIsEligible`, `CertificateIsWhole`, `EachTurnNarrows` | `SolverInv`: what is left to consider is measured candidates, the split over them serves the request after every turn, a certificate respects the bound and keeps the next best in reserve. Of the searches only the type of what they return is needed, see below |
| `EveryEstimateIsCovered` | the estimates of `LiquidityComparison` | two ceilings against one floor, as products |
| `PipelineInvariant`, `PipelineSnapshotIsWhole`, `PipelineSharesAreExact`, `PipelineFillsWereBacked`, `PipelineLimitIsReachable` | the four invariants of the run | `PipelineInv`, which is `ChainInv` (versions only grow along blocks, and one version stands for one value sold) and `CallInv` (stage by stage, what the locals have to do with the blocks they were read from). Shares need a theory of ranks in a finite order and of sums of remainders |
| `FrontendTypeOK`, `FrontendQuoteMatchesTicket`, `FrontendSignedAsReviewed`, `FrontendStepsAwaitReceipts`, `FrontendReplacementFollowsDock`, `FrontendDraftsMatchPositions` | the six invariants of the run | `QuoteInv` (at most one request, for the current inputs), `AppInv`, which is `StepsInv` (a task sends the steps of its plan in order) with `ChainInv`, `StudioInv` and `TasksFit` (chain, page and tasks fit together), `PageInv` (what the ticket and the buttons show), `SaltInv` (a salt belongs to one draft) |

**The refinement.** `SettlementIsAtomic` is the theorem to read first. `JournalInv`
says of a route in progress that the working copy differs from the chain by exactly
its fills so far: each of their positions has advanced one version from the one the
route names, gained and lost what the route asked (`FillsDone`); the totals are the
sums of these (`TotalsAdd`); and every wallet, token by token, is what it was, plus
what its positions gained, minus what they lost, minus the funding for the payer,
plus the unspent allowance for the executor, plus the output for the recipient
(`WalletAdds`). Parties may coincide: payer, recipient, refund and makers are any
accounts. `FillNext` adds one term to each sum (`FillAdds`), the refund moves the
allowance, and what is left when the last fill is done is `AtomicRoutes!Paid`. All
other steps of a route leave the abstract variables alone.

Sums are `SumFunctionOnSet` of the community modules, a recursion over subsets. The
provers cannot instantiate induction over data, so `SumAndRankProofs` shows existence and
uniqueness of its solution by an induction over a *set* of subsets, which is
first-order (`SubsetInduction`); the facts cited elsewhere (`SumStep`, `SumRemove`,
`SumExtend`, `SumOrder`, `SumLinear`, `SumNat`, `SumOfPositive`) follow from it. In
the same way `RanksAreDistinct` gives the elements of a finite order the ranks
`0 .. n - 1`, for the remainders of the raw shares and for the reserve shortlist.

**The indexer.** Neither property of `Subgraph` is inductive: what the next handler
may assume depends on all events still unread. `Trail` says that there are indices
`at[1] .. at[n + 1]`, one for the start of every transaction in the log and one for
its end, such that the first is the index as it is, the last mirrors the chain as it
is (`Mirror`), and the events of transaction `i` lead from `at[i]` to `at[i + 1]`,
each met by an index it is `Good` for (`Leads`): a pull is covered by the allocation
shown, a fill moves the version shown by one, a lifecycle event finds the
lifecycle it ends. A handler takes the head of the first transaction and the trail
keeps its end; a transaction of the chain adds one transaction that leads from a
mirror of the old chain to a mirror of the new one (`Tells`, proved for ship, gift, dock
and trade: `ShipEmits`, `GiftEmits`, `DockEmits`, `TradeEmits`). A route is followed
fill by fill: the index in the middle mirrors a chain on which some of its positions
have moved and the others have not. Independently, `Sound` says that the
counters add up, and every handler of a good event keeps it (`HandleIsSound`): adding
one change to the counters of a market, a maker and a day keeps every sum, and a
fill adds an element to the fills of its position because no earlier fill left that version.

**From draft to index.** `PublicationInv` follows a position through the browser. A
draft keeps the salt it was given, so that preview and plan encode the same
configuration (`PreviewOK`, `PlanOK`). While allowances are read there is no plan, so
the first one read is still that of the chain when the second is (`ReadingOK`); hence
in a plan every funded side is on the list of approvals or approved for more than any
reserve, and the list shrinks only by approving (`Approved`). `EncodedIsDecoded` and
`OwnStrategyIsRead` say that router and index read back the fields that were written,
for every draft: a signed exponent is stored as its residue, which is lossless because
a word holds as many values as there are exponents (`PayloadAssumption`). For orders
built elsewhere, `ShippedOK` says that fields the router decodes hold words, as bytes do.

**The solver.** Its searches bisect, and what rate they return is not provable here,
nor needed: `RangeInduction`, an induction over the width of the range left, shows
that the recursive function exists and that an allocation is an integer between zero
and the capacity. `solveUnbounded` then adds up whatever the rate was: it gives the
positions at the better rate their amounts and the rest to the positions at the
margin, one after the other and each between its sure and its greatest allocation,
and reports a split only if it adds up and every position quotes its part, which
keeps each part within the capacity (`SolvedServes`). `SolverAssumption` says of the requests what
their types say: integers, and curves that `CurveCompiler` produces.

Where its quantifiers are bounded, an inductive invariant was first checked by TLC
on the instance of its run.

Only model-checked, and why:

* The other parts of `QuotesAreCoherent` and `ArithmeticIsSound`: monotonicity on the
  power-law branch depends on the values of the powers, acceptance on those of the
  rates, and the rest are comparisons with rationals or bounds on the backend.
* `PagesAreCoherent`, `AgentsAreServed` and the part `ListingMatchesMarket` of `ViewsAgree`:
  they compare sorts and folds over pages of queries.
* The part `DetailIsNotBehind` of `ViewsAgree`: it relates the chain to the indices of all
  earlier blocks, of which the inductive invariant keeps no account.
* `BestExecution`: it compares the rate the binary searches find with every other
  split, an induction over their recursion on values of the curve.
* The part of `PreviewIsTradable` that says that the router compiles what is shipped: it
  is a bound on the rounding errors of doubles.
* `DockedIsDelisted`, `RequestIsAnswered`, `WaitsEnd`: liveness, out of the prover's
  reach.

## Findings

1. **A curved side can charge less than its rate** (`curve_undercharge`).
   `CurveMath.xAtY` floors the ratio of the reserve to its scale and uses
   central estimates of `exp` and `pow`. `docs/MATH_SPEC.md:96-98` says that later
   code must take the end of the interval that favours the maker, and line 509
   that required input rounds up.
2. **A fill that fits can revert** (`maker_blocked`). `PositionMath._credit`
   multiplies the scale by the growth of the reserve; a nearly empty side has a
   scale far above its reserve, and the product overflows `uint128` although the
   reserve fits. `docs/PRODUCT_SPEC.md:271` promises partial fills in either
   direction with automatic recycling.
3. **A re-armed side keeps its old price** (`subgraph_prices`). `handleCurveFilled`
   updates `currentPriceWad` of the filled side only. A curved side that was sold
   down to its end price and then re-armed by a fill of the other side is back at
   its start price on chain. `docs/ARCHITECTURE.md:598` lists the marginal price
   among the current data of every side.
4. **A probe can fail a whole request** (`solver_crash`). The binary searches quote
   probed amounts; `buildQuote` throws a plain error when the input of a probe rounds
   to zero. `measureCandidate` catches it, the searches do not, and a request that
   the positions can serve ends as an internal error: a flat and a curved position
   with the same start rate, and an exact output within the flat reserve
   (`packages/solver-core/src/solver.ts:274`).

### Divergences that no run states

Met while modelling; each is either outside a model's abstraction or false of the
code in a way a run would only restate.

On chain:

* A route that names the executor as recipient leaves the output there: only the
  zero address is refused (`docs/SECURITY_GATE.md:40`,
  `docs/IMPLEMENTATION_ORDER.md:410`). `ExecutorIsConduit` excludes such routes.

Subgraph and solver API:

* `subgraph/src/executor.ts:15` drops a second route with an earlier identifier
  (a hash of the caller, a salt of their choice and the kind), while
  `handleCurveFilled` attaches its fills to the first; `docs/ARCHITECTURE.md:573`
  calls a `Route` the aggregate of its ordered fills.
* `subgraph/src/decoder.ts` divides by a price for `pHigh` and `pLow`: a shipped
  strategy with a zero price aborts the handler, although `aqua.ts:34` means to log
  and ignore a malformed one. The subgraph reads the first 269 bytes, the router
  those in front of its program.
* One indexed row that `compileCurve` rejects fails the whole page of candidates
  (`graph-client.ts:226`); pages are tied together by block number, not hash (line 157).
* `service.ts:98` re-solves over the shortlist only; `onchain.ts:413` derives equal
  route salts within a block; the fill bound is greedy (`solver.ts:142`).
* `sufficientlyBacked` means two things: in lists it is about Aqua's allocations
  (`product-service.ts:254`), in the detail also about the maker's balance and allowance
  (line 296, `LiquidOBLens.sol:122`). A maker who empties the wallet or withdraws the
  allowance stays "sufficiently backed" in every list, and the MCP server, which filters
  on that flag (`liquidity-mcp/src/service.ts:28`), goes on offering positions that
  cannot be filled, where its `README.md:8` promises "active, backed curves".
  `ViewsAgreeAtHead` and `DiscoveredIsFillable` state what holds in spite of it.
* Product views: activity merges two blocks; the detail of a position joins the
  reserve at the head with the indexed allocation, so that a sold-out side is
  "backed" there and "unavailable" in the list; a crawl may miss a position that is
  updated, or one shifted by a dock, while it runs (liquidity-mcp `README.md:8`);
  `paginate` fails on an exactly full last page (`product-graph.ts:446`); fills and
  routes are capped at two pages with a `totalCount` of what is left (line 374);
  "24h" figures are of the calendar day; lifecycle "unknown" filters nothing.

Frontend:

* `frontend-live/src/client.ts:135` caches a rejected bootstrap promise, although
  the error says it is retryable (`docs/FRONTEND_HANDOFF.md:241`); `vercel.ts` resets
  its own.
* `client.ts:262` quotes again at execution and signs the limit of the new quote;
  `assertSameQuote` (line 643) compares market, side, kind and fixed amount with the
  quote reviewed, not limit, slippage or calldata.
* The studio is mounted for its view only and draws a salt at every mount
  (`App.tsx:1949`, `App.tsx:2331`). A maker whose receipt timed out, who leaves the studio, comes
  back and publishes the same draft again, ships a second position if the first was
  mined after all; within one visit the retry would repeat the first.
* The wait for a receipt tests its deadline between requests to the wallet only
  (`wallet.ts:130-131`); these have no timeout, so a wallet that does not answer
  keeps the task, and with it the buttons, busy for ever.
* Two tasks started by a double click may both settle: a step can be sent twice, each
  time after the receipts of those before it.
* `App.tsx:2008` stores a plan under the preview of another draft if the draft was
  edited while the wallet connected; `App.tsx:2252` starts two tasks on a double
  click; within the 180 ms of the debounce the execute button keeps the earlier
  quote.
* `position-sdk/src/builders.ts:38-63` approves only tokens with a positive
  allocation, against `docs/ARCHITECTURE.md:702`: the side that only recycling will
  fund is never approved.
* `docs/ARCHITECTURE.md:222` asks for byte-identical strategy arguments. Doubles
  differ from fixed point by about 300 wei in mu and 400 times the native price in
  kappa. Above native prices of some millions kappa is off by more than
  `COMMITMENT_TOLERANCE_WAD`, so a draft that `canPublish` accepts is untradable. So is one
  with an exponent within some 1e-7 of 0, where the error of mu is multiplied by the
  inverse of the exponent (`compiler.ts:46-51`), or one that is not 1 and becomes 1 when it
  is converted to a double, where the browser takes gamma for 1 and the contract for
  next to nothing. A flat
  sell price above 1e18 gives kappa 0; the confirmation of the hash that line 701
  asks for is not made.

## Not modelled, and why

* `packages/contracts/src/generated/abis.ts` (7 171 generated lines), the deployment
  manifest and the scripts that make it: data.
* About 1 900 lines of `App.tsx`: presentation, formatting and layout. Its effects,
  clicks and tasks are in `Frontend`.
* The mock client, fixtures, validation schemas, type declarations, metrics,
  configuration and HTTP plumbing: no protocol state.
* Deployment and demo scripts, the demo token: run once.
* The 256-bit polynomials of `TranscendentalMath`'s Solady backend: beyond TLC, and
  assumed within the published error in `Primitives`.
* `LiquidOBQuoter`: a view of the kernel's quote, which is `PositionFill`.

## Plan

Every part of the inventory that keeps state or decides what is signed is modelled.
Left to prove, in this order:

1. `ListingMatchesMarket`, from `BlocksOK` and the fact that both views are folds over
   the index of one block.
2. `CrawlMissesNoUntouched`, which needs an invariant over the pages read so far.
