----------------------------- MODULE Settlement -----------------------------
(***************************************************************************)
(* On-chain settlement of Liquid OB: maker strategies in Aqua, the runtime *)
(* the router keeps for each, ERC-20 wallets, and the batch executor that  *)
(* settles a solver's route over several strategies                        *)
(* (contracts/src/periphery/LiquidOBBatchExecutor.sol,                     *)
(* contracts/src/core/LiquidCurveInstruction.sol,                          *)
(* contracts/src/periphery/LiquidOBLens.sol).                              *)
(*                                                                         *)
(* A route runs fill by fill on a working copy of the chain state, the     *)
(* journal of its transaction: SettleRoute commits it, RevertRoute drops   *)
(* it.  The chain executes one transaction at a time, so nothing else is   *)
(* enabled while a journal is open.  Signed calls stay in the mempool: any *)
(* call may be submitted at any time, late, repeatedly or never.           *)
(*                                                                         *)
(* Aqua, SwapVM's transfer phase and ERC-20 are external; they are modelled *)
(* from the way the code in src uses them.                                 *)
(***************************************************************************)
EXTENDS PositionMath, Sequences, FiniteSets

CONSTANTS
    Accounts, Executor,   \* wallets; the executor contract's is one of them
    Positions,            \* published strategies
    Config,               \* Positions -> [maker, base, quote, Sell, Buy]
    Calls, Route,         \* signed calls and their calldata
    MaxFills,             \* MAX_FILLS of the executor
    InitialBalance,       \* ERC-20 balances before anything happens
    ShipAmounts,          \* raw amounts makers allocate when they ship
    DirectTakers,         \* who swaps without the executor, ...
    DirectAmounts,        \* ... and the raw amounts they swap
    Senders,              \* whose plain transfers and Aqua pushes are modelled, ...
    TransferAmounts,      \* ... and their raw amounts
    MaxTime,              \* bound: block.timestamp stops here
    MaxExternal,          \* bound: transfers, pushes and approval changes
    Idle                  \* no transaction in progress

ASSUME SettlementAssumption ==
    /\ Executor \in Accounts
    /\ MaxFills \in Nat \ {0}
    /\ InitialBalance \in [Accounts -> [Tokens -> Nat]]
    /\ DirectTakers \subseteq Accounts \ {Executor}
    /\ Senders \subseteq Accounts
    /\ ShipAmounts \subseteq Nat /\ DirectAmounts \subseteq Nat
    /\ TransferAmounts \subseteq Nat
    /\ MaxTime \in Nat /\ MaxExternal \in Nat
    /\ \A p \in Positions :
         /\ Config[p].maker \in Accounts \ {Executor}
         /\ Config[p].base \in Tokens /\ Config[p].quote \in Tokens
         /\ ValidStructure(Config[p])
         /\ \A side \in Sides : Config[p][side].initialReserve \in Amounts
    /\ \A c \in Calls :
         /\ Route[c].payer \in Accounts \ {Executor}
         /\ Route[c].recipient \in Accounts /\ Route[c].refund \in Accounts
         /\ Route[c].kind \in Kinds /\ Route[c].side \in Sides
         /\ Route[c].base \in Tokens /\ Route[c].quote \in Tokens
         /\ Route[c].amount \in Nat /\ Route[c].limit \in Nat
         /\ Route[c].deadline \in Nat
         /\ Route[c].fills \in Seq([position : Positions, amount : Nat, version : Nat])

VARIABLES
    stored,       \* _positionRuntimes, per position
    lifecycle,    \* Aqua: never shipped, active, or docked
    allocation,   \* Aqua: raw balance per position and token
    balance,      \* ERC-20 balances
    approved,     \* tokens each maker has approved to Aqua
    now,          \* block.timestamp
    work,         \* the journal of the route in progress, or Idle
    settled,      \* RouteExecuted events per call
    external      \* transfers, pushes and approval changes so far

vars == <<stored, lifecycle, allocation, balance, approved, now, work, settled, external>>

Lifecycles == {"Unknown", "Active", "Docked"}

\* The journaled state of a route: its pc and totals, the chain state it has
\* produced so far, and the router's remaining allowance on the executor.
Journals ==
    [call : Calls, next : Nat, amountIn : Nat, amountOut : Nat, allowance : Nat,
     stored : [Positions -> Runtimes],
     allocation : [Positions -> [Tokens -> Nat]],
     balance : [Accounts -> [Tokens -> Nat]]]

TypeOK ==
    /\ stored \in [Positions -> Runtimes]
    /\ lifecycle \in [Positions -> Lifecycles]
    /\ allocation \in [Positions -> [Tokens -> Nat]]
    /\ balance \in [Accounts -> [Tokens -> Nat]]
    /\ approved \in [Accounts -> SUBSET Tokens]
    /\ now \in 0 .. MaxTime
    /\ work \in Journals \cup {Idle}
    /\ settled \in [Calls -> Nat]
    /\ external \in 0 .. MaxExternal

Init ==
    /\ stored = [p \in Positions |-> Unset]
    /\ lifecycle = [p \in Positions |-> "Unknown"]
    /\ allocation = [p \in Positions |-> [t \in Tokens |-> 0]]
    /\ balance = InitialBalance
    /\ approved = [a \in Accounts |-> Tokens]
    /\ now = 0
    /\ work = Idle
    /\ settled = [c \in Calls |-> 0]
    /\ external = 0
-----------------------------------------------------------------------------
(* ERC-20 and the swap of one strategy through the router.                  *)

Debit(wallets, a, token, amount) == [wallets EXCEPT ![a][token] = @ - amount]
Credited(wallets, a, token, amount) == [wallets EXCEPT ![a][token] = @ + amount]
Move(wallets, from, to, token, amount) ==
    Credited(Debit(wallets, from, token, amount), to, token, amount)

Runtime(ledger, p) == Resolve(Config[p], ledger.stored[p])

FillOf(ledger, p, side, kind, raw) ==
    PositionFill(Config[p], Runtime(ledger, p), side, kind, raw)

\* Mutant of MakerDelivers: any runtime version will do.
MakerDeliversAnyVersion(ledger, p, side, kind, raw, expectedVersion) ==
    LET out == SideOut(Config[p], side)
    IN  /\ lifecycle[p] = "Active"
        /\ CanFill(Config[p], Runtime(ledger, p), side, kind, raw,
                   Runtime(ledger, p).version, ledger.allocation[p][out])
        /\ out \in approved[Config[p].maker]
        /\ FillOf(ledger, p, side, kind, raw).amountOut
             <= ledger.balance[Config[p].maker][out]

\* The kernel accepts the fill on a strategy that Aqua still serves, and
\* Aqua can pull the output from the maker's wallet.
MakerDelivers(ledger, p, side, kind, raw, expectedVersion) ==
    LET out == SideOut(Config[p], side)
    IN  /\ lifecycle[p] = "Active"
        /\ CanFill(Config[p], Runtime(ledger, p), side, kind, raw, expectedVersion,
                   ledger.allocation[p][out])
        /\ out \in approved[Config[p].maker]
        /\ FillOf(ledger, p, side, kind, raw).amountOut
             <= ledger.balance[Config[p].maker][out]

\* The taker's tokens reach the maker through Aqua's push.
TakerDelivers(ledger, p, side, fill, taker, allowance) ==
    /\ fill.amountIn <= allowance
    /\ fill.amountIn <= ledger.balance[taker][SideIn(Config[p], side)]

\* Aqua's entry of the strategy after the push and the pull.
EntryAfter(ledger, p, side, fill) ==
    [ledger.allocation[p] EXCEPT ![SideIn(Config[p], side)] = @ + fill.amountIn,
                                 ![SideOut(Config[p], side)] = @ - fill.amountOut]

\* Mutant of WalletsAfter: the taker is charged WAD units.
WalletsAfterInWad(ledger, p, side, fill, taker, recipient) ==
    LET maker     == Config[p].maker
        delivered == Move(ledger.balance, maker, recipient, SideOut(Config[p], side),
                          fill.amountOut)
    IN  Move(delivered, taker, maker, SideIn(Config[p], side), fill.inWad)

\* The output goes to the recipient, then the taker's input to the maker.
WalletsAfter(ledger, p, side, fill, taker, recipient) ==
    LET maker     == Config[p].maker
        delivered == Move(ledger.balance, maker, recipient, SideOut(Config[p], side),
                          fill.amountOut)
    IN  Move(delivered, taker, maker, SideIn(Config[p], side), fill.amountIn)

\* ROUTER.swap: the instruction stores the next runtime, then SwapVM pulls
\* the output to the recipient and pushes the input to the maker.
Swap(ledger, p, side, fill, taker, recipient) ==
    [ledger EXCEPT !.stored[p] = Transition(Runtime(ledger, p), side, fill),
                   !.allocation[p] = EntryAfter(ledger, p, side, fill),
                   !.balance = WalletsAfter(ledger, p, side, fill, taker, recipient)]
-----------------------------------------------------------------------------
(* LiquidOBBatchExecutor.                                                   *)

RouteIn(r) == TokenIn(r.side, r.base, r.quote)
RouteOut(r) == TokenOut(r.side, r.base, r.quote)

\* amountIn of an exact-input route, maxAmountIn of an exact-output route.
Funding(r) == IF r.kind = "ExactInput" THEN r.amount ELSE r.limit

ProposedAmount(fills) ==
    LET total[i \in 0 .. Len(fills)] ==
          IF i = 0 THEN 0 ELSE total[i - 1] + fills[i].amount
    IN  total[Len(fills)]

ValidCommon(r) ==
    /\ r.base # r.quote
    /\ now <= r.deadline
    /\ Len(r.fills) \in 1 .. MaxFills
    /\ r.amount > 0
    /\ r.kind = "ExactOutput" => r.limit > 0

ValidFills(r) ==
    /\ \A i \in 1 .. Len(r.fills) :
         LET fill == r.fills[i]
         IN  /\ fill.amount > 0
             /\ Config[fill.position].base = r.base
             /\ Config[fill.position].quote = r.quote
    /\ \A i, j \in 1 .. Len(r.fills) :
         i # j => r.fills[i].position # r.fills[j].position
    /\ ProposedAmount(r.fills) = r.amount

\* Mutant of BeginRoute: the payer's balance is not checked.
BeginRouteUnfunded(c) ==
    LET r == Route[c]
    IN  /\ work = Idle
        /\ ValidCommon(r)
        /\ ValidFills(r)
        /\ work' = [call |-> c, next |-> 1, amountIn |-> 0, amountOut |-> 0,
                    allowance |-> Funding(r),
                    stored |-> stored, allocation |-> allocation,
                    balance |-> Move(balance, r.payer, Executor, RouteIn(r), Funding(r))]
        /\ UNCHANGED <<stored, lifecycle, allocation, balance, approved, now, settled, external>>

\* Validation, funding and the approval of the router.
BeginRoute(c) ==
    LET r == Route[c]
    IN  /\ work = Idle
        /\ ValidCommon(r)
        /\ ValidFills(r)
        /\ Funding(r) <= balance[r.payer][RouteIn(r)]
        /\ work' = [call |-> c, next |-> 1, amountIn |-> 0, amountOut |-> 0,
                    allowance |-> Funding(r),
                    stored |-> stored, allocation |-> allocation,
                    balance |-> Move(balance, r.payer, Executor, RouteIn(r), Funding(r))]
        /\ UNCHANGED <<stored, lifecycle, allocation, balance, approved, now, settled, external>>

CurrentRoute == Route[work.call]
CurrentFill == CurrentRoute.fills[work.next]
FillsPending == work.next <= Len(CurrentRoute.fills)

\* The router accepts the next fill of the route in progress.
FillAccepted ==
    LET r == CurrentRoute
        f == CurrentFill
    IN  /\ MakerDelivers(work, f.position, r.side, r.kind, f.amount, f.version)
        /\ TakerDelivers(work, f.position, r.side,
                         FillOf(work, f.position, r.side, r.kind, f.amount),
                         Executor, work.allowance)

FillNext ==
    LET r    == CurrentRoute
        f    == CurrentFill
        fill == FillOf(work, f.position, r.side, r.kind, f.amount)
    IN  /\ work # Idle
        /\ FillsPending
        /\ FillAccepted
        /\ work' = [Swap(work, f.position, r.side, fill, Executor, r.recipient)
                      EXCEPT !.next = @ + 1,
                             !.amountIn = @ + fill.amountIn,
                             !.amountOut = @ + fill.amountOut,
                             !.allowance = @ - fill.amountIn]
        /\ UNCHANGED <<stored, lifecycle, allocation, balance, approved, now, settled, external>>

WithinLimit ==
    IF CurrentRoute.kind = "ExactInput" THEN work.amountOut >= CurrentRoute.limit
                                        ELSE work.amountIn <= CurrentRoute.limit

\* Mutant of Refunded: the executor's whole balance is swept.
RefundedWholly ==
    LET in == RouteIn(CurrentRoute)
    IN  Move(work.balance, Executor, CurrentRoute.refund, in, work.balance[Executor][in])

\* _refundAndClear: whatever the route left above the executor's balance
\* before funding goes to the refund recipient.
Refunded ==
    LET in     == RouteIn(CurrentRoute)
        excess == work.balance[Executor][in] - balance[Executor][in]
    IN  IF excess > 0 THEN Move(work.balance, Executor, CurrentRoute.refund, in, excess)
                      ELSE work.balance

SettleRoute ==
    /\ work # Idle
    /\ ~FillsPending
    /\ WithinLimit
    /\ stored' = work.stored
    /\ allocation' = work.allocation
    /\ balance' = Refunded
    /\ settled' = [settled EXCEPT ![work.call] = @ + 1]
    /\ work' = Idle
    /\ UNCHANGED <<lifecycle, approved, now, external>>

\* Any failing check, of the executor, the kernel, Aqua or a token, reverts
\* the whole transaction.
RevertRoute ==
    /\ work # Idle
    /\ IF FillsPending THEN ~FillAccepted ELSE ~WithinLimit
    /\ work' = Idle
    /\ UNCHANGED <<stored, lifecycle, allocation, balance, approved, now, settled, external>>
-----------------------------------------------------------------------------
(* Everyone else: one transaction each, between routes.                     *)

\* A taker calls the router without the executor.
SwapDirectly(taker, p, side, kind, raw) ==
    LET chain == [stored |-> stored, allocation |-> allocation, balance |-> balance]
        fill  == FillOf(chain, p, side, kind, raw)
        after == Swap(chain, p, side, fill, taker, taker)
    IN  /\ work = Idle
        /\ MakerDelivers(chain, p, side, kind, raw, stored[p].version)
        /\ TakerDelivers(chain, p, side, fill, taker, fill.amountIn)
        /\ stored' = after.stored
        /\ allocation' = after.allocation
        /\ balance' = after.balance
        /\ UNCHANGED <<lifecycle, approved, now, work, settled, external>>

\* Aqua.ship of a strategy hash that was never shipped; allocations are
\* virtual, no token moves.
Ship(p, baseAmount, quoteAmount) ==
    /\ work = Idle
    /\ lifecycle[p] = "Unknown"
    /\ baseAmount > 0 \/ quoteAmount > 0
    /\ lifecycle' = [lifecycle EXCEPT ![p] = "Active"]
    /\ allocation' = [allocation EXCEPT ![p][Config[p].base] = baseAmount,
                                        ![p][Config[p].quote] = quoteAmount]
    /\ UNCHANGED <<stored, balance, approved, now, work, settled, external>>

\* Aqua.dock: the hash can never be shipped again.
Dock(p) ==
    /\ work = Idle
    /\ lifecycle[p] = "Active"
    /\ lifecycle' = [lifecycle EXCEPT ![p] = "Docked"]
    /\ allocation' = [allocation EXCEPT ![p] = [t \in Tokens |-> 0]]
    /\ UNCHANGED <<stored, balance, approved, now, work, settled, external>>

ExternalStep == work = Idle /\ external < MaxExternal /\ external' = external + 1

CanSpend(a, token, amount) ==
    a # Executor /\ amount > 0 /\ amount <= balance[a][token]

Transfer(from, to, token, amount) ==
    /\ ExternalStep
    /\ from # to
    /\ CanSpend(from, token, amount)
    /\ balance' = Move(balance, from, to, token, amount)
    /\ UNCHANGED <<stored, lifecycle, allocation, approved, now, work, settled>>

\* Aqua.push by anyone, the maker included: unsolicited credit of an active
\* strategy.
Push(from, p, token, amount) ==
    /\ ExternalStep
    /\ lifecycle[p] = "Active"
    /\ CanSpend(from, token, amount)
    /\ token \in {Config[p].base, Config[p].quote}
    /\ balance' = Move(balance, from, Config[p].maker, token, amount)
    /\ allocation' = [allocation EXCEPT ![p][token] = @ + amount]
    /\ UNCHANGED <<stored, lifecycle, approved, now, work, settled>>

\* A maker revokes or restores Aqua's approval on a token.
SetApproval(maker, token) ==
    /\ ExternalStep
    /\ approved' = [approved EXCEPT ![maker] =
                      IF token \in @ THEN @ \ {token} ELSE @ \cup {token}]
    /\ UNCHANGED <<stored, lifecycle, allocation, balance, now, work, settled>>

Tick ==
    /\ work = Idle
    /\ now < MaxTime
    /\ now' = now + 1
    /\ UNCHANGED <<stored, lifecycle, allocation, balance, approved, work, settled, external>>

Next ==
    \/ \E c \in Calls : BeginRoute(c)
    \/ FillNext
    \/ SettleRoute
    \/ RevertRoute
    \/ \E taker \in DirectTakers, p \in Positions, side \in Sides, kind \in Kinds,
          raw \in DirectAmounts : SwapDirectly(taker, p, side, kind, raw)
    \/ \E p \in Positions, b, q \in ShipAmounts : Ship(p, b, q)
    \/ \E p \in Positions : Dock(p)
    \/ \E from \in Senders, to \in Accounts, token \in Tokens, amount \in TransferAmounts :
          Transfer(from, to, token, amount)
    \/ \E from \in Senders, p \in Positions, token \in Tokens, amount \in TransferAmounts :
          Push(from, p, token, amount)
    \/ \E p \in Positions, token \in Tokens : SetApproval(Config[p].maker, token)
    \/ Tick

Spec == Init /\ [][Next]_vars
-----------------------------------------------------------------------------
(* LiquidOBLens: is a position's side backed?                               *)

RequiredRaw(p, side) ==
    WadToRaw(Resolve(Config[p], stored[p])[side].y, FactorOut(Config[p], side), "Up")

\* Mutant of SufficientlyBacked: the allowance to Aqua is not looked at.
SufficientlyBackedUnapproved(p, side) ==
    LET token == SideOut(Config[p], side)
    IN  /\ lifecycle[p] = "Active"
        /\ allocation[p][token] >= RequiredRaw(p, side)
        /\ balance[Config[p].maker][token] >= RequiredRaw(p, side)

SufficientlyBacked(p, side) ==
    LET token == SideOut(Config[p], side)
    IN  /\ lifecycle[p] = "Active"
        /\ allocation[p][token] >= RequiredRaw(p, side)
        /\ balance[Config[p].maker][token] >= RequiredRaw(p, side)
        /\ token \in approved[Config[p].maker]
-----------------------------------------------------------------------------
(* Properties *)

FillIndexes(c) == 1 .. Len(Route[c].fills)

\* Two calls compete when they bind the same runtime version of a position.
Compete(c, d) ==
    \E i \in FillIndexes(c), j \in FillIndexes(d) :
        /\ Route[c].fills[i].position = Route[d].fills[j].position
        /\ Route[c].fills[i].version = Route[d].fills[j].version

\* The executor keeps no nonce and accepts any salt, yet a signed call that
\* stays in the mempool settles at most once, and of two calls quoted on the
\* same version of a position at most one settles: the expected versions
\* are the replay protection.
OneRoutePerVersion ==
    \A c, d \in Calls :
        /\ settled[c] <= 1
        /\ c # d /\ Compete(c, d) => settled[c] + settled[d] <= 1

\* The executor is a conduit: a settled route whose recipients are other
\* wallets leaves every executor balance as it found it, tokens that were
\* sent to the executor by mistake included.
ExecutorIsConduit ==
    [][ \A c \in Calls :
          /\ settled'[c] # settled[c]
          /\ Executor \notin {Route[c].recipient, Route[c].refund}
          => balance'[Executor] = balance[Executor] ]_vars

\* What the router may still draw from the executor never exceeds the
\* unspent funding of the route in progress, and the executor holds it.
AllowanceIsFunded ==
    work # Idle =>
        /\ work.allowance + work.amountIn = Funding(CurrentRoute)
        /\ work.balance[Executor][RouteIn(CurrentRoute)]
             = balance[Executor][RouteIn(CurrentRoute)] + work.allowance

\* The Lens is sound for one fill: if it reported the output side of the
\* position as sufficiently backed when the route started, and no earlier
\* fill of the route drew on the same maker, the fill does not fail for want
\* of the maker's allocation, wallet balance or approval.
BackedFillIsDelivered ==
    work # Idle /\ FillsPending =>
        LET r == CurrentRoute
            f == CurrentFill
            p == f.position
        IN  /\ SufficientlyBacked(p, r.side)
            /\ \A i \in 1 .. work.next - 1 :
                 Config[r.fills[i].position].maker # Config[p].maker
            /\ f.version = Runtime(work, p).version
            /\ Quotable(Config[p], Runtime(work, p), r.side, r.kind, f.amount)
            /\ CanTransition(Runtime(work, p), r.side,
                             FillOf(work, p, r.side, r.kind, f.amount))
            => MakerDelivers(work, p, r.side, r.kind, f.amount, f.version)

\* Settlement implements the atomic, version-bound, limit-respecting routes
\* of AtomicRoutes.
Atomic == INSTANCE AtomicRoutes WITH
    version <- [p \in Positions |-> stored[p].version],
    Maker <- [p \in Positions |-> Config[p].maker]

ImplementsAtomicRoutes == Atomic!Spec
=============================================================================
