-------------------------- MODULE SettlementProofs --------------------------
(***************************************************************************)
(* Theorems about settlement on chain, for every set of positions, wallets *)
(* and signed calls, on every curve branch: the ledgers stay well typed, a *)
(* signed call settles at most once and competing calls exclude each       *)
(* other, the router's allowance is always funded, the executor keeps      *)
(* nothing that a route brought in, a side the Lens reports as backed      *)
(* delivers, and the whole implements AtomicRoutes.                        *)
(***************************************************************************)
EXTENDS Settlement, PositionMathProofs, SumAndRankProofs

Wallets == [Accounts -> [Tokens -> Nat]]
Allocations == [Positions -> [Tokens -> Nat]]

LEMMA PositionFacts ==
    ASSUME NEW p \in Positions, NEW side \in Sides
    PROVE  /\ Representable(Config[p])
           /\ Config[p].maker \in Accounts /\ Config[p].maker # Executor
           /\ SideIn(Config[p], side) \in Tokens /\ SideOut(Config[p], side) \in Tokens
           /\ SideIn(Config[p], side) # SideOut(Config[p], side)
  BY SettlementAssumption
  DEF Representable, ValidStructure, SideIn, SideOut, TokenIn, TokenOut, Sides

LEMMA SeqFacts ==
    ASSUME NEW S, NEW s \in Seq(S)
    PROVE  Len(s) \in Nat /\ \A i \in 1 .. Len(s) : s[i] \in S
  OBVIOUS

LEMMA RouteFacts ==
    ASSUME NEW c \in Calls
    PROVE  /\ Route[c].payer \in Accounts /\ Route[c].payer # Executor
           /\ Route[c].recipient \in Accounts /\ Route[c].refund \in Accounts
           /\ Route[c].kind \in Kinds /\ Route[c].side \in Sides
           /\ RouteIn(Route[c]) \in Tokens /\ RouteOut(Route[c]) \in Tokens
           /\ Funding(Route[c]) \in Nat
           /\ Executor \in Accounts
           /\ Len(Route[c].fills) \in Nat
           /\ \A i \in 1 .. Len(Route[c].fills) :
                /\ Route[c].fills[i].position \in Positions
                /\ Route[c].fills[i].amount \in Nat
                /\ Route[c].fills[i].version \in Nat
  <1> DEFINE r == Route[c]
  <1>1. /\ r.payer \in Accounts /\ r.payer # Executor
        /\ r.recipient \in Accounts /\ r.refund \in Accounts
        /\ r.kind \in Kinds /\ r.side \in Sides
        /\ r.base \in Tokens /\ r.quote \in Tokens
        /\ r.amount \in Nat /\ r.limit \in Nat
        /\ Executor \in Accounts
        /\ r.fills \in Seq([position : Positions, amount : Nat, version : Nat])
    BY SettlementAssumption
  <1>2. /\ Len(r.fills) \in Nat
        /\ \A i \in 1 .. Len(r.fills) :
              r.fills[i] \in [position : Positions, amount : Nat, version : Nat]
    <2> DEFINE Entries == [position : Positions, amount : Nat, version : Nat]
               fills == r.fills
    <2>1. fills \in Seq(Entries)
      BY <1>1
    <2> HIDE DEF Entries, fills
    <2>2. Len(fills) \in Nat /\ \A i \in 1 .. Len(fills) : fills[i] \in Entries
      BY <2>1, SeqFacts
    <2> QED
      BY <2>2 DEF Entries, fills
  <1>3. \A i \in 1 .. Len(r.fills) :
           /\ r.fills[i].position \in Positions
           /\ r.fills[i].amount \in Nat
           /\ r.fills[i].version \in Nat
    BY <1>2
  <1> QED
    BY <1>1, <1>2, <1>3 DEF RouteIn, RouteOut, TokenIn, TokenOut, Funding

-----------------------------------------------------------------------------
(* Transfers and swaps, field by field.                                     *)

\* A transfer that its sender can pay changes two wallets at most.
LEMMA MoveFacts ==
    ASSUME NEW wallets \in Wallets, NEW from \in Accounts, NEW to \in Accounts,
           NEW token \in Tokens, NEW amount \in Nat, amount <= wallets[from][token]
    PROVE  /\ Move(wallets, from, to, token, amount) \in Wallets
           /\ \A a \in Accounts, t \in Tokens :
                Move(wallets, from, to, token, amount)[a][t] =
                    IF t # token \/ from = to \/ a \notin {from, to} THEN wallets[a][t]
                    ELSE IF a = from THEN wallets[a][t] - amount
                    ELSE wallets[a][t] + amount
  <1> DEFINE paid == Debit(wallets, from, token, amount)
  <1>1. /\ paid \in Wallets
        /\ \A a \in Accounts, t \in Tokens :
              paid[a][t] = IF a = from /\ t = token THEN wallets[a][t] - amount
                                                    ELSE wallets[a][t]
    <2>1. wallets[from][token] - amount \in Nat
      BY DEF Wallets
    <2> QED
      BY <2>1 DEF Debit, Wallets
  <1> HIDE DEF paid
  <1> DEFINE got == Credited(paid, to, token, amount)
  <1>2. /\ got \in Wallets
        /\ \A a \in Accounts, t \in Tokens :
              got[a][t] = IF a = to /\ t = token THEN paid[a][t] + amount
                                                 ELSE paid[a][t]
    <2>1. paid[to][token] + amount \in Nat
      BY <1>1 DEF Wallets
    <2> QED
      BY <1>1, <2>1 DEF Credited, Wallets
  <1>3. Move(wallets, from, to, token, amount) = got
    BY DEF Move, paid
  <1>4. \A a \in Accounts, t \in Tokens : wallets[a][t] \in Nat
    BY DEF Wallets
  <1> HIDE DEF got
  <1> QED
    BY <1>1, <1>2, <1>3, <1>4

\* A swap in terms of its three ledgers.
WithLedgers(ledger, p, runtime, entry, wallets) ==
    [ledger EXCEPT !.stored[p] = runtime, !.allocation[p] = entry, !.balance = wallets]

LEMMA JournalLedgers ==
    ASSUME NEW ledger \in Journals, NEW p \in Positions, NEW runtime \in Runtimes,
           NEW entry \in [Tokens -> Nat], NEW wallets \in Wallets
    PROVE  LET new == WithLedgers(ledger, p, runtime, entry, wallets)
           IN  /\ new \in Journals
               /\ new.call = ledger.call /\ new.next = ledger.next
               /\ new.amountIn = ledger.amountIn /\ new.amountOut = ledger.amountOut
               /\ new.allowance = ledger.allowance
               /\ new.stored = [ledger.stored EXCEPT ![p] = runtime]
               /\ new.allocation = [ledger.allocation EXCEPT ![p] = entry]
               /\ new.balance = wallets
  <1> DEFINE new == WithLedgers(ledger, p, runtime, entry, wallets)
  <1>1. new = [ledger EXCEPT !.stored[p] = runtime, !.allocation[p] = entry,
                             !.balance = wallets]
    BY DEF WithLedgers
  <1> HIDE DEF new
  <1>2. /\ new \in Journals
        /\ new.call = ledger.call /\ new.next = ledger.next
        /\ new.amountIn = ledger.amountIn /\ new.amountOut = ledger.amountOut
        /\ new.allowance = ledger.allowance
        /\ new.stored = [ledger.stored EXCEPT ![p] = runtime]
        /\ new.allocation = [ledger.allocation EXCEPT ![p] = entry]
        /\ new.balance = wallets
    BY <1>1 DEF Journals, Wallets
  <1> QED
    BY <1>2 DEF new

\* The router accepts a fill on well-typed ledgers.
Accepted(ledger, p, side, kind, raw, version, taker, recipient, allowance) ==
    /\ ledger.stored \in [Positions -> Runtimes]
    /\ ledger.allocation \in Allocations /\ ledger.balance \in Wallets
    /\ p \in Positions /\ side \in Sides /\ kind \in Kinds /\ raw \in Nat
    /\ taker \in Accounts /\ recipient \in Accounts /\ allowance \in Nat
    /\ MakerDelivers(ledger, p, side, kind, raw, version)
    /\ TakerDelivers(ledger, p, side, FillOf(ledger, p, side, kind, raw), taker, allowance)

\* The wallets after a swap of in for out are well typed, and those of others
\* than the maker change only by what they pay or receive.
Settled(wallets, before, in, out, taker, recipient, maker, fill) ==
    /\ wallets \in Wallets
    /\ \A a \in Accounts, t \in Tokens :
         /\ t \notin {in, out} => wallets[a][t] = before[a][t]
         /\ t = in /\ a = taker /\ a # maker => wallets[a][t] = before[a][t] - fill.amountIn
         /\ t = out /\ a # maker => wallets[a][t] >= before[a][t]
         /\ t = out /\ a \notin {recipient, maker} => wallets[a][t] = before[a][t]

OnlyIf(condition, amount) == IF condition THEN amount ELSE 0

\* The same, token by token and party by party: what a swap does to Aqua's
\* entry of the position and to every wallet.
Entered(entry, before, in, out, fill) ==
    \A t \in Tokens : entry[t] = before[t] + OnlyIf(t = in, fill.amountIn)
                                           - OnlyIf(t = out, fill.amountOut)

Moved(wallets, before, in, out, taker, recipient, maker, fill) ==
    \A a \in Accounts, t \in Tokens :
        wallets[a][t] = before[a][t]
          + OnlyIf(t = in, OnlyIf(a = maker, fill.amountIn) - OnlyIf(a = taker, fill.amountIn))
          + OnlyIf(t = out, OnlyIf(a = recipient, fill.amountOut)
                              - OnlyIf(a = maker, fill.amountOut))

\* A fill of the amount asked for, in which both parties give something.
Exchanges(fill, kind, raw) ==
    /\ fill.amountIn > 0 /\ fill.amountOut > 0
    /\ IF kind = "ExactInput" THEN fill.amountIn = raw ELSE fill.amountOut = raw

\* An accepted fill is made of naturals that all four parties can pay, at the
\* version of the runtime it was quoted at, and it advances that version.
LEMMA ExchangeFacts ==
    ASSUME NEW ledger, NEW p, NEW side, NEW kind, NEW raw, NEW version,
           NEW taker, NEW recipient, NEW allowance,
           Accepted(ledger, p, side, kind, raw, version, taker, recipient, allowance)
    PROVE  LET fill == FillOf(ledger, p, side, kind, raw)
               runtime == Transition(Runtime(ledger, p), side, fill)
           IN  /\ fill.amountIn \in Nat /\ fill.amountIn <= allowance
               /\ fill.amountOut \in Nat
               /\ runtime \in Runtimes /\ runtime.initialized
               /\ runtime.version = version + 1 /\ Runtime(ledger, p).version = version
               /\ EntryAfter(ledger, p, side, fill) \in [Tokens -> Nat]
               /\ Settled(WalletsAfter(ledger, p, side, fill, taker, recipient),
                          ledger.balance, SideIn(Config[p], side), SideOut(Config[p], side),
                          taker, recipient, Config[p].maker, fill)
               /\ Exchanges(fill, kind, raw)
               /\ Entered(EntryAfter(ledger, p, side, fill), ledger.allocation[p],
                          SideIn(Config[p], side), SideOut(Config[p], side), fill)
               /\ Moved(WalletsAfter(ledger, p, side, fill, taker, recipient),
                        ledger.balance, SideIn(Config[p], side), SideOut(Config[p], side),
                        taker, recipient, Config[p].maker, fill)
  <1> DEFINE fill == FillOf(ledger, p, side, kind, raw)
             runtime == Transition(Runtime(ledger, p), side, fill)
             wallets == WalletsAfter(ledger, p, side, fill, taker, recipient)
  <1>0. /\ ledger.stored \in [Positions -> Runtimes]
        /\ ledger.allocation \in Allocations /\ ledger.balance \in Wallets
        /\ p \in Positions /\ side \in Sides /\ kind \in Kinds /\ raw \in Nat
        /\ taker \in Accounts /\ recipient \in Accounts /\ allowance \in Nat
        /\ MakerDelivers(ledger, p, side, kind, raw, version)
        /\ TakerDelivers(ledger, p, side, fill, taker, allowance)
    BY DEF Accepted
  <1> DEFINE in == SideIn(Config[p], side)
             out == SideOut(Config[p], side)
             maker == Config[p].maker
  <1>1. /\ Representable(Config[p])
        /\ maker \in Accounts /\ in \in Tokens /\ out \in Tokens /\ in # out
    BY <1>0, PositionFacts
  <1>2. Runtime(ledger, p) \in Runtimes
    BY <1>0, <1>1, ResolveType DEF Runtime
  <1>3. /\ version = Runtime(ledger, p).version
        /\ Quotable(Config[p], Runtime(ledger, p), side, kind, raw)
        /\ fill.amountOut <= ledger.allocation[p][out]
        /\ CanTransition(Runtime(ledger, p), side, fill)
        /\ fill.amountOut <= ledger.balance[maker][out]
    BY <1>0 DEF MakerDelivers, CanFill, FillOf
  <1>4. FillType(fill, Runtime(ledger, p)[side])
    BY <1>0, <1>1, <1>2, <1>3, AcceptedFill DEF FillOf
  <1>5. fill.amountIn \in Nat /\ fill.amountOut \in Nat
    BY <1>4 DEF FillType
  <1>6. /\ runtime \in Runtimes /\ runtime.initialized /\ runtime.version = version + 1
    BY <1>0, <1>2, <1>3, <1>4, TransitionType, TransitionMarks
  <1>7. /\ fill.amountIn <= allowance
        /\ fill.amountIn <= ledger.balance[taker][in]
    BY <1>0 DEF TakerDelivers
  <1> HIDE DEF in, out, maker, fill, runtime, wallets
  <1>8. EntryAfter(ledger, p, side, fill) \in [Tokens -> Nat]
    <2>1. ledger.allocation[p] \in [Tokens -> Nat]
      BY <1>0 DEF Allocations
    <2>2. /\ ledger.allocation[p][in] + fill.amountIn \in Nat
          /\ ledger.allocation[p][out] - fill.amountOut \in Nat
      BY <1>1, <1>3, <1>5, <2>1
    <2> QED
      BY <1>1, <2>1, <2>2 DEF EntryAfter, in, out
  <1> DEFINE delivered == Move(ledger.balance, maker, recipient, out, fill.amountOut)
  <1>9. /\ delivered \in Wallets
        /\ \A a \in Accounts, t \in Tokens :
              delivered[a][t] =
                IF t # out \/ maker = recipient \/ a \notin {maker, recipient}
                THEN ledger.balance[a][t]
                ELSE IF a = maker THEN ledger.balance[a][t] - fill.amountOut
                ELSE ledger.balance[a][t] + fill.amountOut
    BY <1>0, <1>1, <1>3, <1>5, MoveFacts
  <1>10. wallets = Move(delivered, taker, maker, in, fill.amountIn)
    BY DEF WalletsAfter, in, out, maker, wallets
  <1> HIDE DEF delivered
  <1>11. fill.amountIn <= delivered[taker][in]
    BY <1>0, <1>1, <1>7, <1>9
  <1>12. /\ wallets \in Wallets
         /\ \A a \in Accounts, t \in Tokens :
              wallets[a][t] =
                IF t # in \/ taker = maker \/ a \notin {taker, maker} THEN delivered[a][t]
                ELSE IF a = taker THEN delivered[a][t] - fill.amountIn
                ELSE delivered[a][t] + fill.amountIn
    BY <1>0, <1>1, <1>5, <1>9, <1>10, <1>11, MoveFacts
  <1>13. \A a \in Accounts, t \in Tokens : ledger.balance[a][t] \in Nat
    BY <1>0 DEF Wallets
  <1>14. \A a \in Accounts, t \in Tokens :
                /\ t \notin {in, out} => wallets[a][t] = ledger.balance[a][t]
                /\ t = in /\ a = taker /\ a # maker
                     => wallets[a][t] = ledger.balance[a][t] - fill.amountIn
                /\ t = out /\ a # maker
                     => wallets[a][t] >= ledger.balance[a][t]
                /\ t = out /\ a \notin {recipient, maker}
                     => wallets[a][t] = ledger.balance[a][t]
    BY <1>0, <1>1, <1>5, <1>9, <1>12, <1>13
  <1>15. Settled(wallets, ledger.balance, in, out, taker, recipient, maker, fill)
    BY <1>12, <1>14 DEF Settled
  <1>16. Exchanges(fill, kind, raw)
    BY <1>0, <1>3 DEF Quotable, Transferable, FillOf, PositionFill, Exchanges, Kinds, fill
  <1>17. Entered(EntryAfter(ledger, p, side, fill), ledger.allocation[p], in, out, fill)
    <2>1. ledger.allocation[p] \in [Tokens -> Nat]
      BY <1>0 DEF Allocations
    <2>2. EntryAfter(ledger, p, side, fill)
            = [ledger.allocation[p] EXCEPT ![in] = @ + fill.amountIn, ![out] = @ - fill.amountOut]
      BY DEF EntryAfter, in, out
    <2> QED
      BY <1>1, <1>5, <2>1, <2>2 DEF Entered, OnlyIf
  <1>18. Moved(wallets, ledger.balance, in, out, taker, recipient, maker, fill)
    <2> SUFFICES ASSUME NEW a \in Accounts, NEW t \in Tokens
                 PROVE  wallets[a][t] = ledger.balance[a][t]
                          + OnlyIf(t = in, OnlyIf(a = maker, fill.amountIn)
                                             - OnlyIf(a = taker, fill.amountIn))
                          + OnlyIf(t = out, OnlyIf(a = recipient, fill.amountOut)
                                              - OnlyIf(a = maker, fill.amountOut))
      BY DEF Moved
    <2>1. CASE t = in
      BY <1>1, <1>5, <1>9, <1>12, <1>13, <2>1 DEF OnlyIf
    <2>2. CASE t = out
      BY <1>1, <1>5, <1>9, <1>12, <1>13, <2>2 DEF OnlyIf
    <2>3. CASE t # in /\ t # out
      BY <1>1, <1>5, <1>9, <1>12, <1>13, <2>3 DEF OnlyIf
    <2> QED
      BY <2>1, <2>2, <2>3
  <1> QED
    BY <1>3, <1>5, <1>6, <1>7, <1>8, <1>15, <1>16, <1>17, <1>18
    DEF in, out, maker, fill, runtime, wallets
-----------------------------------------------------------------------------
(* The inductive invariant.                                                 *)

\* The executor has validated the route in progress.
Validated ==
    work # Idle =>
        /\ work \in Journals
        /\ work.next >= 1 /\ Len(CurrentRoute.fills) >= 1
        /\ CurrentRoute.base # CurrentRoute.quote
        /\ \A i \in FillIndexes(work.call) :
             /\ Config[CurrentRoute.fills[i].position].base = CurrentRoute.base
             /\ Config[CurrentRoute.fills[i].position].quote = CurrentRoute.quote

TypeInv == TypeOK /\ Validated

\* The version of a runtime that was never stored is zero.
Marked(runtime) == runtime.initialized \/ runtime.version = 0

\* Versions only grow, within a route as well; its fills so far took the
\* version they name, and a settled call's versions are gone.
VersionInv ==
    /\ \A p \in Positions : Marked(stored[p])
    /\ \A c \in Calls : settled[c] > 0 =>
         \A i \in FillIndexes(c) :
            stored[Route[c].fills[i].position].version > Route[c].fills[i].version
    /\ work # Idle =>
         /\ \A p \in Positions :
              Marked(work.stored[p]) /\ work.stored[p].version >= stored[p].version
         /\ \A i \in FillIndexes(work.call) : i < work.next =>
              LET f == CurrentRoute.fills[i]
              IN  /\ stored[f.position].version <= f.version
                  /\ f.version < work.stored[f.position].version

\* The executor's wallet gained the unspent funding and, unless it is the
\* recipient itself, nothing else.
WalletInv ==
    /\ AllowanceIsFunded
    /\ work # Idle /\ CurrentRoute.recipient # Executor =>
         \A t \in Tokens \ {RouteIn(CurrentRoute)} :
            work.balance[Executor][t] = balance[Executor][t]

\* No fill of the route in progress drew on this maker yet.
Undrawn(maker) ==
    \A i \in FillIndexes(work.call) :
        i < work.next => Config[CurrentRoute.fills[i].position].maker # maker

\* What a maker can deliver is untouched until the route draws on it.
BackingInv ==
    work # Idle =>
        \A p \in Positions : Undrawn(Config[p].maker) =>
            /\ work.stored[p] = stored[p] /\ work.allocation[p] = allocation[p]
            /\ work.balance[Config[p].maker][RouteOut(CurrentRoute)]
                 >= balance[Config[p].maker][RouteOut(CurrentRoute)]

\* The route in progress and its next fill.
LEMMA RouteInProgress ==
    ASSUME TypeInv, work # Idle
    PROVE  /\ work \in Journals /\ work.call \in Calls
           /\ work.next \in Nat \ {0}
           /\ work.allowance \in Nat /\ work.amountIn \in Nat /\ work.amountOut \in Nat
           /\ work.stored \in [Positions -> Runtimes]
           /\ work.allocation \in Allocations /\ work.balance \in Wallets
           /\ RouteIn(CurrentRoute) \in Tokens /\ RouteOut(CurrentRoute) \in Tokens
           /\ RouteIn(CurrentRoute) # RouteOut(CurrentRoute)
           /\ CurrentRoute.recipient \in Accounts /\ CurrentRoute.refund \in Accounts
           /\ CurrentRoute.side \in Sides /\ CurrentRoute.kind \in Kinds
           /\ Executor \in Accounts /\ Funding(CurrentRoute) \in Nat
           /\ Len(CurrentRoute.fills) \in Nat
           /\ \A i \in FillIndexes(work.call) :
                /\ CurrentRoute.fills[i].position \in Positions
                /\ CurrentRoute.fills[i].amount \in Nat
                /\ CurrentRoute.fills[i].version \in Nat
                /\ SideIn(Config[CurrentRoute.fills[i].position], CurrentRoute.side)
                     = RouteIn(CurrentRoute)
                /\ SideOut(Config[CurrentRoute.fills[i].position], CurrentRoute.side)
                     = RouteOut(CurrentRoute)
  <1>1. work \in Journals /\ work.next >= 1
    BY DEF TypeInv, Validated
  <1>2. /\ work.call \in Calls /\ work.next \in Nat
        /\ work.allowance \in Nat /\ work.amountIn \in Nat /\ work.amountOut \in Nat
        /\ work.stored \in [Positions -> Runtimes]
        /\ work.allocation \in Allocations /\ work.balance \in Wallets
    BY <1>1 DEF Journals, Allocations, Wallets
  <1>3. /\ CurrentRoute.base # CurrentRoute.quote
        /\ \A i \in FillIndexes(work.call) :
             /\ Config[CurrentRoute.fills[i].position].base = CurrentRoute.base
             /\ Config[CurrentRoute.fills[i].position].quote = CurrentRoute.quote
    BY DEF TypeInv, Validated
  <1>4. RouteIn(CurrentRoute) # RouteOut(CurrentRoute)
    BY <1>3 DEF RouteIn, RouteOut, TokenIn, TokenOut
  <1>5. \A i \in FillIndexes(work.call) :
           /\ SideIn(Config[CurrentRoute.fills[i].position], CurrentRoute.side)
                = RouteIn(CurrentRoute)
           /\ SideOut(Config[CurrentRoute.fills[i].position], CurrentRoute.side)
                = RouteOut(CurrentRoute)
    BY <1>3 DEF RouteIn, RouteOut, SideIn, SideOut
  <1>6. 1 .. Len(CurrentRoute.fills) = FillIndexes(work.call)
    BY DEF FillIndexes, CurrentRoute
  <1> QED
    BY <1>1, <1>2, <1>4, <1>5, <1>6, RouteFacts DEF CurrentRoute

\* The next fill of the route in progress, and what it makes of the ledgers.
Filled == FillOf(work, CurrentFill.position, CurrentRoute.side, CurrentRoute.kind,
                 CurrentFill.amount)
FilledRuntime == Transition(Runtime(work, CurrentFill.position), CurrentRoute.side, Filled)
FilledEntry == EntryAfter(work, CurrentFill.position, CurrentRoute.side, Filled)
FilledWallets ==
    WalletsAfter(work, CurrentFill.position, CurrentRoute.side, Filled, Executor,
                 CurrentRoute.recipient)
Swapped ==
    Swap(work, CurrentFill.position, CurrentRoute.side, Filled, Executor,
         CurrentRoute.recipient)

LEMMA NextFillFacts ==
    ASSUME TypeInv, FillNext
    PROVE  /\ work # Idle /\ work.next \in FillIndexes(work.call)
           /\ CurrentFill.position \in Positions
           /\ Config[CurrentFill.position].maker \in Accounts \ {Executor}
           /\ MakerDelivers(work, CurrentFill.position, CurrentRoute.side, CurrentRoute.kind,
                            CurrentFill.amount, CurrentFill.version)
           /\ Filled.amountIn \in Nat /\ Filled.amountIn <= work.allowance
           /\ Filled.amountOut \in Nat
           /\ FilledRuntime \in Runtimes /\ FilledRuntime.initialized
           /\ FilledRuntime.version = CurrentFill.version + 1
           /\ Runtime(work, CurrentFill.position).version = CurrentFill.version
           /\ FilledEntry \in [Tokens -> Nat]
           /\ Settled(FilledWallets, work.balance, RouteIn(CurrentRoute),
                      RouteOut(CurrentRoute), Executor, CurrentRoute.recipient,
                      Config[CurrentFill.position].maker, Filled)
           /\ Exchanges(Filled, CurrentRoute.kind, CurrentFill.amount)
           /\ Entered(FilledEntry, work.allocation[CurrentFill.position],
                      RouteIn(CurrentRoute), RouteOut(CurrentRoute), Filled)
           /\ Moved(FilledWallets, work.balance, RouteIn(CurrentRoute),
                    RouteOut(CurrentRoute), Executor, CurrentRoute.recipient,
                    Config[CurrentFill.position].maker, Filled)
  <1>1. work # Idle /\ FillsPending /\ FillAccepted
    BY DEF FillNext
  <1>2. work.next \in FillIndexes(work.call)
    BY <1>1, RouteInProgress DEF FillsPending, FillIndexes, CurrentRoute
  <1>3. /\ CurrentFill.position \in Positions /\ CurrentFill.amount \in Nat
        /\ SideIn(Config[CurrentFill.position], CurrentRoute.side) = RouteIn(CurrentRoute)
        /\ SideOut(Config[CurrentFill.position], CurrentRoute.side) = RouteOut(CurrentRoute)
    BY <1>1, <1>2, RouteInProgress DEF CurrentFill
  <1>4. /\ MakerDelivers(work, CurrentFill.position, CurrentRoute.side, CurrentRoute.kind,
                         CurrentFill.amount, CurrentFill.version)
        /\ TakerDelivers(work, CurrentFill.position, CurrentRoute.side, Filled, Executor,
                         work.allowance)
    BY <1>1 DEF FillAccepted, Filled
  <1>5. /\ work.allowance \in Nat
        /\ work.stored \in [Positions -> Runtimes]
        /\ work.allocation \in Allocations /\ work.balance \in Wallets
        /\ CurrentRoute.recipient \in Accounts /\ CurrentRoute.side \in Sides
        /\ CurrentRoute.kind \in Kinds /\ Executor \in Accounts
    BY <1>1, RouteInProgress
  <1>6. Config[CurrentFill.position].maker \in Accounts \ {Executor}
    BY <1>3, <1>5, PositionFacts
  <1>7. Accepted(work, CurrentFill.position, CurrentRoute.side, CurrentRoute.kind,
                 CurrentFill.amount, CurrentFill.version, Executor, CurrentRoute.recipient,
                 work.allowance)
    BY <1>3, <1>4, <1>5 DEF Accepted, Filled
  <1>8. /\ Filled.amountIn \in Nat /\ Filled.amountIn <= work.allowance
        /\ Filled.amountOut \in Nat
        /\ FilledRuntime \in Runtimes /\ FilledRuntime.initialized
        /\ FilledRuntime.version = CurrentFill.version + 1
        /\ Runtime(work, CurrentFill.position).version = CurrentFill.version
        /\ FilledEntry \in [Tokens -> Nat]
        /\ Exchanges(Filled, CurrentRoute.kind, CurrentFill.amount)
        /\ Settled(FilledWallets, work.balance,
                   SideIn(Config[CurrentFill.position], CurrentRoute.side),
                   SideOut(Config[CurrentFill.position], CurrentRoute.side), Executor,
                   CurrentRoute.recipient, Config[CurrentFill.position].maker, Filled)
        /\ Entered(FilledEntry, work.allocation[CurrentFill.position],
                   SideIn(Config[CurrentFill.position], CurrentRoute.side),
                   SideOut(Config[CurrentFill.position], CurrentRoute.side), Filled)
        /\ Moved(FilledWallets, work.balance,
                 SideIn(Config[CurrentFill.position], CurrentRoute.side),
                 SideOut(Config[CurrentFill.position], CurrentRoute.side), Executor,
                 CurrentRoute.recipient, Config[CurrentFill.position].maker, Filled)
    BY <1>7, ExchangeFacts DEF Filled, FilledRuntime, FilledEntry, FilledWallets
  <1>9. /\ Settled(FilledWallets, work.balance, RouteIn(CurrentRoute), RouteOut(CurrentRoute),
                   Executor, CurrentRoute.recipient, Config[CurrentFill.position].maker, Filled)
        /\ Entered(FilledEntry, work.allocation[CurrentFill.position],
                   RouteIn(CurrentRoute), RouteOut(CurrentRoute), Filled)
        /\ Moved(FilledWallets, work.balance, RouteIn(CurrentRoute), RouteOut(CurrentRoute),
                 Executor, CurrentRoute.recipient, Config[CurrentFill.position].maker, Filled)
    BY <1>3, <1>8
  <1> QED
    BY <1>1, <1>2, <1>3, <1>4, <1>5, <1>6, <1>8, <1>9

\* The journal after the next fill.
LEMMA NextJournal ==
    ASSUME TypeInv, FillNext
    PROVE  /\ work' \in Journals
           /\ work'.call = work.call /\ work'.next = work.next + 1
           /\ work'.amountIn = work.amountIn + Filled.amountIn
           /\ work'.amountOut = work.amountOut + Filled.amountOut
           /\ work'.allowance = work.allowance - Filled.amountIn
           /\ work'.stored = [work.stored EXCEPT ![CurrentFill.position] = FilledRuntime]
           /\ work'.allocation = [work.allocation EXCEPT ![CurrentFill.position] = FilledEntry]
           /\ work'.balance = FilledWallets
  <1>1. /\ work \in Journals
        /\ work.next \in Nat /\ work.allowance \in Nat
        /\ work.amountIn \in Nat /\ work.amountOut \in Nat
    BY NextFillFacts, RouteInProgress
  <1>2. Swapped = WithLedgers(work, CurrentFill.position, FilledRuntime, FilledEntry,
                              FilledWallets)
    BY DEF Swapped, Swap, FilledRuntime, FilledEntry, FilledWallets, WithLedgers
  <1>3. FilledWallets \in Wallets
    BY NextFillFacts DEF Settled
  <1>4. /\ Swapped \in Journals
        /\ Swapped.call = work.call /\ Swapped.next = work.next
        /\ Swapped.amountIn = work.amountIn /\ Swapped.amountOut = work.amountOut
        /\ Swapped.allowance = work.allowance
        /\ Swapped.stored = [work.stored EXCEPT ![CurrentFill.position] = FilledRuntime]
        /\ Swapped.allocation = [work.allocation EXCEPT ![CurrentFill.position] = FilledEntry]
        /\ Swapped.balance = FilledWallets
    BY <1>1, <1>2, <1>3, NextFillFacts, JournalLedgers
  <1> DEFINE upcoming == work.next + 1
             paid == work.amountIn + Filled.amountIn
             got == work.amountOut + Filled.amountOut
             left == work.allowance - Filled.amountIn
  <1>5. work' = [Swapped EXCEPT !.next = upcoming, !.amountIn = paid, !.amountOut = got,
                                !.allowance = left]
    <2>1. work' = [Swapped EXCEPT !.next = @ + 1, !.amountIn = @ + Filled.amountIn,
                                  !.amountOut = @ + Filled.amountOut,
                                  !.allowance = @ - Filled.amountIn]
      BY DEF FillNext, Swapped, Filled
    <2> QED
      BY <1>4, <2>1
  <1>6. upcoming \in Nat /\ paid \in Nat /\ got \in Nat /\ left \in Nat
    BY <1>1, NextFillFacts
  <1> HIDE DEF upcoming, paid, got, left
  <1>7. /\ work' \in Journals
        /\ work'.call = Swapped.call /\ work'.next = upcoming
        /\ work'.amountIn = paid /\ work'.amountOut = got /\ work'.allowance = left
        /\ work'.stored = Swapped.stored /\ work'.allocation = Swapped.allocation
        /\ work'.balance = Swapped.balance
    BY <1>4, <1>5, <1>6 DEF Journals
  <1> QED
    BY <1>4, <1>7 DEF upcoming, paid, got, left

\* Funding a route: the journal starts from the chain, with the executor paid.
LEMMA BeginFacts ==
    ASSUME TypeOK, NEW c \in Calls, BeginRoute(c)
    PROVE  /\ work' \in Journals
           /\ work'.call = c /\ work'.next = 1
           /\ work'.amountIn = 0 /\ work'.amountOut = 0
           /\ work'.allowance = Funding(Route[c])
           /\ work'.stored = stored /\ work'.allocation = allocation
           /\ work'.balance[Executor][RouteIn(Route[c])]
                = balance[Executor][RouteIn(Route[c])] + Funding(Route[c])
           /\ \A a \in Accounts, t \in Tokens :
                t # RouteIn(Route[c]) => work'.balance[a][t] = balance[a][t]
           /\ \A a \in Accounts :
                work'.balance[a][RouteIn(Route[c])]
                  = balance[a][RouteIn(Route[c])] + OnlyIf(a = Executor, Funding(Route[c]))
                      - OnlyIf(a = Route[c].payer, Funding(Route[c]))
  <1> DEFINE wallets == Move(balance, Route[c].payer, Executor, RouteIn(Route[c]),
                             Funding(Route[c]))
  <1>1. /\ wallets \in Wallets
        /\ \A a \in Accounts, t \in Tokens :
              wallets[a][t] =
                IF \/ t # RouteIn(Route[c]) \/ Route[c].payer = Executor
                   \/ a \notin {Route[c].payer, Executor}
                THEN balance[a][t]
                ELSE IF a = Route[c].payer THEN balance[a][t] - Funding(Route[c])
                ELSE balance[a][t] + Funding(Route[c])
    <2>1. balance \in Wallets /\ Funding(Route[c]) <= balance[Route[c].payer][RouteIn(Route[c])]
      BY DEF TypeOK, Wallets, BeginRoute
    <2> QED
      BY <2>1, RouteFacts, MoveFacts
  <1>2. work' = [call |-> c, next |-> 1, amountIn |-> 0, amountOut |-> 0,
                 allowance |-> Funding(Route[c]),
                 stored |-> stored, allocation |-> allocation, balance |-> wallets]
    BY DEF BeginRoute
  <1> HIDE DEF wallets
  <1>3. /\ stored \in [Positions -> Runtimes] /\ allocation \in [Positions -> [Tokens -> Nat]]
        /\ Funding(Route[c]) \in Nat
    BY RouteFacts DEF TypeOK
  <1>4. work' \in Journals
    BY <1>1, <1>2, <1>3 DEF Journals, Wallets
  <1>5. \A a \in Accounts :
           wallets[a][RouteIn(Route[c])]
             = balance[a][RouteIn(Route[c])] + OnlyIf(a = Executor, Funding(Route[c]))
                 - OnlyIf(a = Route[c].payer, Funding(Route[c]))
    <2>1. \A a \in Accounts : balance[a][RouteIn(Route[c])] \in Nat
      BY RouteFacts DEF TypeOK
    <2> QED
      BY <1>1, <1>3, <2>1, RouteFacts DEF OnlyIf
  <1> QED
    BY <1>1, <1>2, <1>4, <1>5, RouteFacts

\* Settling a route: the refund leaves well-typed wallets.
LEMMA SettleFacts ==
    ASSUME TypeInv, SettleRoute
    PROVE  /\ Refunded \in Wallets
           /\ \A t \in Tokens \ {RouteIn(CurrentRoute)} :
                Refunded[Executor][t] = work.balance[Executor][t]
           /\ CurrentRoute.refund # Executor
                /\ work.balance[Executor][RouteIn(CurrentRoute)]
                     >= balance[Executor][RouteIn(CurrentRoute)]
              => Refunded[Executor][RouteIn(CurrentRoute)]
                   = balance[Executor][RouteIn(CurrentRoute)]
  <1> DEFINE in == RouteIn(CurrentRoute)
             excess == work.balance[Executor][in] - balance[Executor][in]
  <1>1. /\ work.balance \in Wallets /\ balance \in Wallets
        /\ Executor \in Accounts /\ CurrentRoute.refund \in Accounts /\ in \in Tokens
    BY RouteInProgress DEF SettleRoute, TypeInv, TypeOK, Wallets
  <1>2. work.balance[Executor][in] \in Nat /\ balance[Executor][in] \in Nat
    BY <1>1 DEF Wallets
  <1>3. Refunded = IF excess > 0
                   THEN Move(work.balance, Executor, CurrentRoute.refund, in, excess)
                   ELSE work.balance
    BY DEF Refunded
  <1> HIDE DEF in
  <1>4. CASE excess > 0
    <2>1. excess \in Nat /\ excess <= work.balance[Executor][in]
      BY <1>2, <1>4
    <2> HIDE DEF excess
    <2> DEFINE refunded == Move(work.balance, Executor, CurrentRoute.refund, in, excess)
    <2>2. /\ refunded \in Wallets
          /\ \A a \in Accounts, t \in Tokens :
                refunded[a][t] =
                  IF t # in \/ Executor = CurrentRoute.refund
                       \/ a \notin {Executor, CurrentRoute.refund}
                  THEN work.balance[a][t]
                  ELSE IF a = Executor THEN work.balance[a][t] - excess
                  ELSE work.balance[a][t] + excess
      BY <1>1, <2>1, MoveFacts
    <2>3. Refunded = refunded
      BY <1>3, <1>4
    <2> HIDE DEF refunded
    <2>4. work.balance[Executor][in] - excess = balance[Executor][in]
      BY <1>2 DEF excess
    <2> QED
      BY <1>1, <2>2, <2>3, <2>4 DEF in
  <1>5. CASE ~(excess > 0)
    <2>1. work.balance[Executor][in] >= balance[Executor][in]
            => work.balance[Executor][in] = balance[Executor][in]
      BY <1>2, <1>5
    <2> QED
      BY <1>1, <1>3, <1>5, <2>1 DEF in
  <1> QED
    BY <1>4, <1>5

\* A swap without the executor, on the chain itself.
LEMMA DirectFacts ==
    ASSUME TypeOK, NEW taker \in DirectTakers, NEW p \in Positions, NEW side \in Sides,
           NEW kind \in Kinds, NEW raw \in DirectAmounts,
           SwapDirectly(taker, p, side, kind, raw)
    PROVE  \E runtime, entry, fill :
              /\ runtime \in Runtimes /\ entry \in [Tokens -> Nat]
              /\ runtime.initialized /\ runtime.version = stored[p].version + 1
              /\ stored' = [stored EXCEPT ![p] = runtime]
              /\ allocation' = [allocation EXCEPT ![p] = entry]
              /\ balance' \in Wallets
              /\ fill.amountIn \in Nat \ {0} /\ fill.amountOut \in Nat \ {0}
              /\ Entered(entry, allocation[p], SideIn(Config[p], side),
                         SideOut(Config[p], side), fill)
              /\ Moved(balance', balance, SideIn(Config[p], side), SideOut(Config[p], side),
                       taker, taker, Config[p].maker, fill)
  <1> DEFINE Chains == [stored : [Positions -> Runtimes], allocation : Allocations,
                        balance : Wallets]
             chain == [stored |-> stored, allocation |-> allocation, balance |-> balance]
             fill == FillOf(chain, p, side, kind, raw)
             runtime == Transition(Runtime(chain, p), side, fill)
             entry == EntryAfter(chain, p, side, fill)
             wallets == WalletsAfter(chain, p, side, fill, taker, taker)
             after == Swap(chain, p, side, fill, taker, taker)
  <1>1. /\ chain \in Chains /\ chain.stored = stored /\ chain.allocation = allocation
        /\ chain.balance = balance
    BY DEF TypeOK, Allocations, Wallets
  <1>2. /\ MakerDelivers(chain, p, side, kind, raw, stored[p].version)
        /\ TakerDelivers(chain, p, side, fill, taker, fill.amountIn)
        /\ stored' = after.stored /\ allocation' = after.allocation
        /\ balance' = after.balance
    BY DEF SwapDirectly
  <1>3. after = [chain EXCEPT !.stored[p] = runtime, !.allocation[p] = entry,
                              !.balance = wallets]
    BY DEF Swap
  <1>4. taker \in Accounts /\ raw \in Nat
    BY SettlementAssumption
  <1> HIDE DEF chain
  <1>5. fill.amountIn \in Nat
    <2>1. /\ Representable(Config[p]) /\ Runtime(chain, p) \in Runtimes
      BY <1>1, PositionFacts, ResolveType DEF Runtime
    <2>2. Quotable(Config[p], Runtime(chain, p), side, kind, raw)
      BY <1>2 DEF MakerDelivers, CanFill
    <2>3. FillType(fill, Runtime(chain, p)[side])
      BY <1>4, <2>1, <2>2, AcceptedFill DEF FillOf
    <2> QED
      BY <2>3 DEF FillType
  <1>6. Accepted(chain, p, side, kind, raw, stored[p].version, taker, taker, fill.amountIn)
    BY <1>1, <1>2, <1>4, <1>5 DEF Accepted
  <1>7. /\ runtime \in Runtimes /\ runtime.initialized
        /\ runtime.version = stored[p].version + 1
        /\ entry \in [Tokens -> Nat] /\ wallets \in Wallets
        /\ fill.amountIn \in Nat \ {0} /\ fill.amountOut \in Nat \ {0}
        /\ Entered(entry, allocation[p], SideIn(Config[p], side), SideOut(Config[p], side),
                   fill)
        /\ Moved(wallets, balance, SideIn(Config[p], side), SideOut(Config[p], side),
                 taker, taker, Config[p].maker, fill)
    BY <1>1, <1>6, ExchangeFacts DEF Settled, Exchanges
  <1> HIDE DEF fill, runtime, entry, wallets, after
  <1>8. /\ after.stored = [stored EXCEPT ![p] = runtime]
        /\ after.allocation = [allocation EXCEPT ![p] = entry]
        /\ after.balance = wallets
    BY <1>1, <1>3, <1>7 DEF Allocations, Wallets
  <1> QED
    BY <1>2, <1>7, <1>8
-----------------------------------------------------------------------------
(* Types.                                                                   *)

LEMMA Bounds == MaxFills \in Nat /\ MaxTime \in Nat /\ MaxExternal \in Nat
  BY SettlementAssumption

LEMMA InitTypeInv ==
    ASSUME Init
    PROVE  TypeInv
  <1>1. Unset \in Runtimes
    BY WireDomain, PositionAssumption
    DEF Unset, FreshState, Runtimes, CurveStates, Amounts
  <1>2. /\ stored \in [Positions -> Runtimes]
        /\ lifecycle \in [Positions -> Lifecycles]
        /\ allocation \in [Positions -> [Tokens -> Nat]]
        /\ balance \in [Accounts -> [Tokens -> Nat]]
        /\ approved \in [Accounts -> SUBSET Tokens]
        /\ now \in 0 .. MaxTime /\ external \in 0 .. MaxExternal
        /\ settled \in [Calls -> Nat]
    BY <1>1, SettlementAssumption DEF Init, Lifecycles
  <1> QED
    BY <1>2 DEF Init, TypeInv, TypeOK, Validated

LEMMA BeginKeepsType ==
    ASSUME TypeInv, NEW c \in Calls, BeginRoute(c)
    PROVE  TypeInv'
  <1>1. /\ work' \in Journals /\ work'.call = c /\ work'.next = 1
    BY BeginFacts DEF TypeInv
  <1>2. TypeOK'
    BY <1>1 DEF TypeInv, TypeOK, BeginRoute
  <1>3. /\ Len(Route[c].fills) >= 1 /\ Route[c].base # Route[c].quote
        /\ \A i \in FillIndexes(c) :
             /\ Config[Route[c].fills[i].position].base = Route[c].base
             /\ Config[Route[c].fills[i].position].quote = Route[c].quote
    <2>1. ValidCommon(Route[c]) /\ ValidFills(Route[c])
      BY DEF BeginRoute
    <2>2. Len(Route[c].fills) >= 1 /\ Route[c].base # Route[c].quote
      BY <2>1, RouteFacts, Bounds DEF ValidCommon
    <2> QED
      BY <2>1, <2>2 DEF ValidFills, FillIndexes
  <1>4. Validated'
    BY <1>1, <1>3 DEF Validated, CurrentRoute, FillIndexes
  <1> QED
    BY <1>2, <1>4 DEF TypeInv

LEMMA FillKeepsType ==
    ASSUME TypeInv, FillNext
    PROVE  TypeInv'
  <1>1. /\ work' \in Journals /\ work'.call = work.call /\ work'.next = work.next + 1
        /\ work # Idle /\ work.next \in Nat
    BY NextJournal, NextFillFacts, RouteInProgress
  <1>2. TypeOK'
    BY <1>1 DEF TypeInv, TypeOK, FillNext
  <1>3. Validated'
    BY <1>1 DEF TypeInv, Validated, CurrentRoute, FillIndexes
  <1> QED
    BY <1>2, <1>3 DEF TypeInv

LEMMA SettleKeepsType ==
    ASSUME TypeInv, SettleRoute
    PROVE  TypeInv'
  <1>1. /\ work \in Journals /\ work.call \in Calls
        /\ work.stored \in [Positions -> Runtimes] /\ work.allocation \in Allocations
    BY RouteInProgress DEF SettleRoute
  <1>2. /\ stored' \in [Positions -> Runtimes]
        /\ allocation' \in [Positions -> [Tokens -> Nat]]
        /\ balance' \in [Accounts -> [Tokens -> Nat]]
        /\ settled' \in [Calls -> Nat]
        /\ work' = Idle
    BY <1>1, SettleFacts DEF SettleRoute, TypeInv, TypeOK, Allocations, Wallets
  <1> QED
    BY <1>2 DEF SettleRoute, TypeInv, TypeOK, Validated

\* Everyone else acts between routes.
Others ==
    \/ \E taker \in DirectTakers, p \in Positions, side \in Sides, kind \in Kinds,
          raw \in DirectAmounts : SwapDirectly(taker, p, side, kind, raw)
    \/ \E p \in Positions, b, q \in ShipAmounts : Ship(p, b, q)
    \/ \E p \in Positions : Dock(p)
    \/ \E from \in Senders, to \in Accounts, token \in Tokens, amount \in TransferAmounts :
          Transfer(from, to, token, amount)
    \/ \E from \in Senders, p \in Positions, token \in Tokens, amount \in TransferAmounts :
          Push(from, p, token, amount)
    \/ \E p \in Positions, token \in Tokens : SetApproval(Config[p].maker, token)
    \/ Tick

LEMMA OthersKeepType ==
    ASSUME TypeInv, Others
    PROVE  TypeInv' /\ work = Idle /\ work' = Idle /\ settled' = settled
  <1>1. TypeOK
    BY DEF TypeInv
  <1>2. ASSUME NEW taker \in DirectTakers, NEW p \in Positions, NEW side \in Sides,
               NEW kind \in Kinds, NEW raw \in DirectAmounts,
               SwapDirectly(taker, p, side, kind, raw)
        PROVE  TypeOK' /\ work = Idle /\ work' = Idle /\ settled' = settled
    <2>1. /\ stored' \in [Positions -> Runtimes]
          /\ allocation' \in [Positions -> [Tokens -> Nat]]
          /\ balance' \in [Accounts -> [Tokens -> Nat]]
      <3>1. PICK runtime, entry :
               /\ runtime \in Runtimes /\ entry \in [Tokens -> Nat]
               /\ stored' = [stored EXCEPT ![p] = runtime]
               /\ allocation' = [allocation EXCEPT ![p] = entry]
               /\ balance' \in Wallets
        BY <1>1, <1>2, DirectFacts
      <3> QED
        BY <1>1, <3>1 DEF TypeOK, Wallets
    <2> QED
      BY <1>1, <1>2, <2>1 DEF TypeOK, SwapDirectly
  <1>3. ASSUME NEW p \in Positions, NEW b \in ShipAmounts, NEW q \in ShipAmounts, Ship(p, b, q)
        PROVE  TypeOK' /\ work = Idle /\ work' = Idle /\ settled' = settled
    BY <1>1, <1>3, SettlementAssumption DEF TypeOK, Ship, Lifecycles
  <1>4. ASSUME NEW p \in Positions, Dock(p)
        PROVE  TypeOK' /\ work = Idle /\ work' = Idle /\ settled' = settled
    BY <1>1, <1>4 DEF TypeOK, Dock, Lifecycles
  <1>5. ASSUME NEW from \in Senders, NEW to \in Accounts, NEW token \in Tokens,
               NEW amount \in TransferAmounts, Transfer(from, to, token, amount)
        PROVE  TypeOK' /\ work = Idle /\ work' = Idle /\ settled' = settled
    <2>1. balance \in Wallets /\ amount \in Nat /\ amount <= balance[from][token]
          /\ from \in Accounts
      BY <1>1, <1>5, SettlementAssumption DEF TypeOK, Wallets, Transfer, CanSpend
    <2>2. balance' \in [Accounts -> [Tokens -> Nat]]
      BY <1>5, <2>1, MoveFacts DEF Transfer, Wallets
    <2> QED
      BY <1>1, <1>5, <2>2, Bounds DEF TypeOK, Transfer, ExternalStep
  <1>6. ASSUME NEW from \in Senders, NEW p \in Positions, NEW token \in Tokens,
               NEW amount \in TransferAmounts, Push(from, p, token, amount)
        PROVE  TypeOK' /\ work = Idle /\ work' = Idle /\ settled' = settled
    <2>1. balance \in Wallets /\ amount \in Nat /\ amount <= balance[from][token]
          /\ from \in Accounts
      BY <1>1, <1>6, SettlementAssumption DEF TypeOK, Wallets, Push, CanSpend
    <2>2. Config[p].maker \in Accounts
      BY SettlementAssumption
    <2>3. balance' \in [Accounts -> [Tokens -> Nat]]
      BY <1>6, <2>1, <2>2, MoveFacts DEF Push, Wallets
    <2>4. allocation' \in [Positions -> [Tokens -> Nat]]
      BY <1>1, <1>6, <2>1 DEF TypeOK, Push
    <2> QED
      BY <1>1, <1>6, <2>3, <2>4, Bounds DEF TypeOK, Push, ExternalStep
  <1>7. ASSUME NEW p \in Positions, NEW token \in Tokens, SetApproval(Config[p].maker, token)
        PROVE  TypeOK' /\ work = Idle /\ work' = Idle /\ settled' = settled
    <2>1. approved' \in [Accounts -> SUBSET Tokens]
      BY <1>1, <1>7 DEF TypeOK, SetApproval
    <2> QED
      BY <1>1, <1>7, <2>1, Bounds DEF TypeOK, SetApproval, ExternalStep
  <1>8. ASSUME Tick
        PROVE  TypeOK' /\ work = Idle /\ work' = Idle /\ settled' = settled
    BY <1>1, <1>8, Bounds DEF TypeOK, Tick
  <1>9. TypeOK' /\ work = Idle /\ work' = Idle /\ settled' = settled
    BY <1>2, <1>3, <1>4, <1>5, <1>6, <1>7, <1>8 DEF Others
  <1> QED
    BY <1>9 DEF TypeInv, Validated

\* The next-state relation, with everyone else's transactions taken together.
LEMMA NextCases ==
    Next <=> \/ \E c \in Calls : BeginRoute(c)
             \/ FillNext
             \/ SettleRoute
             \/ RevertRoute
             \/ Others
  BY DEF Next, Others

LEMMA NextKeepsType ==
    ASSUME TypeInv, [Next]_vars
    PROVE  TypeInv'
  <1>1. CASE RevertRoute
    BY <1>1 DEF RevertRoute, TypeInv, TypeOK, Validated
  <1>2. CASE UNCHANGED vars
    BY <1>2 DEF vars, TypeInv, TypeOK, Validated, CurrentRoute
  <1> QED
    BY <1>1, <1>2, BeginKeepsType, FillKeepsType, SettleKeepsType, OthersKeepType, NextCases

\* Runtimes, allocations, wallets and journals stay well typed: no sequence of
\* routes, swaps, gifts and docks overdraws a wallet, a strategy or a reserve.
THEOREM SettlementTypeOK == Spec => []TypeOK
  <1>1. Init => TypeInv
    BY InitTypeInv
  <1>2. TypeInv /\ [Next]_vars => TypeInv'
    BY NextKeepsType
  <1>3. TypeInv => TypeOK
    BY DEF TypeInv
  <1> QED
    BY <1>1, <1>2, <1>3, PTL DEF Spec
-----------------------------------------------------------------------------
(* Versions as replay protection.                                           *)

\* Resolving a runtime that may never have been stored keeps its version.
LEMMA RuntimeVersion ==
    ASSUME NEW ledger, NEW p \in Positions, ledger.stored \in [Positions -> Runtimes],
           Marked(ledger.stored[p])
    PROVE  Runtime(ledger, p).version = ledger.stored[p].version
  <1> DEFINE runtime == ledger.stored[p]
  <1>1. runtime \in Runtimes /\ Representable(Config[p])
    BY PositionFacts DEF Sides
  <1>2. Runtime(ledger, p).version = IF runtime.initialized THEN runtime.version ELSE 0
    BY <1>1, ResolveType DEF Runtime
  <1> QED
    BY <1>2 DEF Marked

LEMMA InitVersionInv ==
    ASSUME Init
    PROVE  VersionInv /\ OneRoutePerVersion
  <1>1. /\ \A p \in Positions : stored[p] = Unset
        /\ work = Idle /\ \A c \in Calls : settled[c] = 0
    BY DEF Init
  <1>2. Marked(Unset)
    BY DEF Marked, Unset
  <1> QED
    BY <1>1, <1>2 DEF VersionInv, OneRoutePerVersion

LEMMA BeginKeepsVersions ==
    ASSUME TypeInv, VersionInv, NEW c \in Calls, BeginRoute(c)
    PROVE  VersionInv'
  <1>1. work'.stored = stored /\ work'.next = 1
    BY BeginFacts DEF TypeInv
  <1>2. stored' = stored /\ settled' = settled
    BY DEF BeginRoute
  <1>3. \A p \in Positions : stored[p].version \in Nat
    BY DEF TypeInv, TypeOK, Runtimes
  <1>4. \A i \in FillIndexes(work'.call) : ~(i < work'.next)
    BY <1>1 DEF FillIndexes
  <1> QED
    BY <1>1, <1>2, <1>3, <1>4 DEF VersionInv, Marked, FillIndexes

LEMMA FillKeepsVersions ==
    ASSUME TypeInv, VersionInv, FillNext
    PROVE  VersionInv'
  <1> DEFINE p == CurrentFill.position
  <1>1. /\ work # Idle /\ p \in Positions /\ work.next \in FillIndexes(work.call)
        /\ work.next \in Nat
        /\ CurrentFill.version \in Nat
        /\ FilledRuntime.initialized /\ FilledRuntime.version = CurrentFill.version + 1
        /\ Runtime(work, p).version = CurrentFill.version
    BY NextFillFacts, RouteInProgress DEF CurrentFill
  <1>2. /\ work'.call = work.call /\ work'.next = work.next + 1
        /\ work'.stored = [work.stored EXCEPT ![p] = FilledRuntime]
        /\ work.stored \in [Positions -> Runtimes]
    BY <1>1, NextJournal, RouteInProgress
  <1>3. stored' = stored /\ settled' = settled
    BY DEF FillNext
  <1>4. \A q \in Positions :
           /\ stored[q].version \in Nat /\ work.stored[q].version \in Nat
           /\ Marked(work.stored[q]) /\ work.stored[q].version >= stored[q].version
    BY <1>1, <1>2 DEF TypeInv, TypeOK, Runtimes, VersionInv
  <1>5. work.stored[p].version = CurrentFill.version
    BY <1>1, <1>2, <1>4, RuntimeVersion
  <1>6. \A q \in Positions :
           /\ Marked(work'.stored[q])
           /\ work'.stored[q].version >= work.stored[q].version
           /\ work'.stored[q].version \in Nat
    BY <1>1, <1>2, <1>4, <1>5 DEF Marked
  <1>7. work'.stored[p].version = CurrentFill.version + 1
    BY <1>1, <1>2
  <1>8. ASSUME NEW i \in FillIndexes(work.call), i < work.next + 1
        PROVE  LET f == CurrentRoute.fills[i]
               IN  /\ stored[f.position].version <= f.version
                   /\ f.version < work'.stored[f.position].version
    <2>1. /\ CurrentRoute.fills[i].position \in Positions
          /\ CurrentRoute.fills[i].version \in Nat
      BY <1>1, RouteInProgress
    <2>2. CASE i = work.next
      BY <1>1, <1>4, <1>5, <1>7, <2>2 DEF CurrentFill
    <2>3. CASE i # work.next
      <3>1. i < work.next
        BY <1>1, <1>8, <2>3 DEF FillIndexes
      <3>2. /\ stored[CurrentRoute.fills[i].position].version <= CurrentRoute.fills[i].version
            /\ CurrentRoute.fills[i].version
                 < work.stored[CurrentRoute.fills[i].position].version
        BY <1>1, <3>1 DEF VersionInv
      <3> QED
        BY <1>4, <1>6, <2>1, <3>2
    <2> QED
      BY <2>2, <2>3
  <1>9. CurrentRoute' = CurrentRoute
    BY <1>2 DEF CurrentRoute
  <1>10. \A q \in Positions :
            Marked(work'.stored[q]) /\ work'.stored[q].version >= stored[q].version
    BY <1>4, <1>6
  <1>11. \A i \in FillIndexes(work'.call) : i < work'.next =>
            LET f == CurrentRoute'.fills[i]
            IN  /\ stored'[f.position].version <= f.version
                /\ f.version < work'.stored[f.position].version
    BY <1>2, <1>3, <1>8, <1>9
  <1> QED
    BY <1>3, <1>10, <1>11 DEF VersionInv, Marked, FillIndexes

\* Every version a settling route binds was free, and is taken now.
LEMMA SettleKeepsVersions ==
    ASSUME TypeInv, VersionInv, OneRoutePerVersion, SettleRoute
    PROVE  VersionInv' /\ OneRoutePerVersion'
  <1> DEFINE c == work.call
  <1>1. /\ work # Idle /\ c \in Calls /\ Route[c] = CurrentRoute
        /\ stored' = work.stored /\ settled' = [settled EXCEPT ![c] = @ + 1]
        /\ work' = Idle
        /\ work.next \in Nat /\ Len(CurrentRoute.fills) \in Nat
        /\ settled \in [Calls -> Nat]
    BY RouteInProgress DEF SettleRoute, CurrentRoute, TypeInv, TypeOK
  <1>2. 1 \in FillIndexes(c) /\ \A i \in FillIndexes(c) : i < work.next
    <2>1. Len(CurrentRoute.fills) >= 1 /\ ~(work.next <= Len(CurrentRoute.fills))
      BY <1>1 DEF TypeInv, Validated, SettleRoute, FillsPending
    <2> QED
      BY <1>1, <2>1 DEF FillIndexes
  <1>3. \A q \in Positions :
           /\ stored[q].version \in Nat /\ work.stored[q].version \in Nat
           /\ Marked(work.stored[q]) /\ work.stored[q].version >= stored[q].version
    BY <1>1, RouteInProgress DEF TypeInv, TypeOK, Runtimes, VersionInv
  <1>4. \A d \in Calls : \A i \in FillIndexes(d) :
           Route[d].fills[i].position \in Positions /\ Route[d].fills[i].version \in Nat
    BY RouteFacts DEF FillIndexes
  <1>5. \A i \in FillIndexes(c) :
           /\ stored[Route[c].fills[i].position].version <= Route[c].fills[i].version
           /\ Route[c].fills[i].version < work.stored[Route[c].fills[i].position].version
    BY <1>1, <1>2 DEF VersionInv
  <1>6. \A d \in Calls : settled[d] > 0 =>
           \A i \in FillIndexes(d) :
              stored[Route[d].fills[i].position].version > Route[d].fills[i].version
    BY DEF VersionInv
  <1>7. settled[c] = 0
    <2> DEFINE p == Route[c].fills[1].position
               taken == Route[c].fills[1].version
    <2>1. p \in Positions /\ taken \in Nat /\ stored[p].version <= taken
      BY <1>1, <1>2, <1>4, <1>5
    <2>2. settled[c] > 0 => stored[p].version > taken
      BY <1>1, <1>2, <1>6
    <2>3. stored[p].version \in Nat /\ settled[c] \in Nat
      BY <1>1, <1>3, <2>1
    <2> HIDE DEF c, p, taken
    <2> QED
      BY <2>1, <2>2, <2>3
  <1>8. \A d \in Calls : d # c /\ (Compete(c, d) \/ Compete(d, c)) => settled[d] = 0
    <2> SUFFICES ASSUME NEW d \in Calls, d # c, Compete(c, d) \/ Compete(d, c), settled[d] > 0
                 PROVE  FALSE
      BY <1>1
    <2>1. PICK i \in FillIndexes(c), j \in FillIndexes(d) :
             /\ Route[c].fills[i].position = Route[d].fills[j].position
             /\ Route[c].fills[i].version = Route[d].fills[j].version
      BY DEF Compete
    <2>2. stored[Route[d].fills[j].position].version > Route[d].fills[j].version
      BY <1>6
    <2>3. stored[Route[c].fills[i].position].version <= Route[c].fills[i].version
      BY <1>5
    <2> QED
      BY <1>1, <1>3, <1>4, <2>1, <2>2, <2>3
  <1>9. \A d \in Calls : settled'[d] = IF d = c THEN 1 ELSE settled[d]
    BY <1>1, <1>7
  <1>10. OneRoutePerVersion'
    <2>1. \A d, e \in Calls :
             /\ settled[d] <= 1
             /\ d # e /\ Compete(d, e) => settled[d] + settled[e] <= 1
      BY DEF OneRoutePerVersion
    <2>2. \A d, e \in Calls :
             /\ settled'[d] <= 1
             /\ d # e /\ Compete(d, e) => settled'[d] + settled'[e] <= 1
      BY <1>1, <1>8, <1>9, <2>1
    <2> QED
      BY <2>2 DEF OneRoutePerVersion, Compete, FillIndexes
  <1>11. \A d \in Calls : settled'[d] > 0 =>
            \A i \in FillIndexes(d) :
               work.stored[Route[d].fills[i].position].version > Route[d].fills[i].version
    BY <1>3, <1>4, <1>5, <1>6, <1>9
  <1>12. VersionInv'
    BY <1>1, <1>3, <1>11 DEF VersionInv, Marked, FillIndexes
  <1> QED
    BY <1>10, <1>12

LEMMA OthersKeepVersions ==
    ASSUME TypeInv, VersionInv, Others
    PROVE  VersionInv'
  <1>1. work' = Idle /\ settled' = settled
    BY OthersKeepType
  <1>2. \A p \in Positions : Marked(stored[p]) /\ stored[p].version \in Nat
    BY DEF VersionInv, TypeInv, TypeOK, Runtimes
  <1>3. ASSUME NEW taker \in DirectTakers, NEW p \in Positions, NEW side \in Sides,
               NEW kind \in Kinds, NEW raw \in DirectAmounts,
               SwapDirectly(taker, p, side, kind, raw)
        PROVE  \A q \in Positions :
                  Marked(stored'[q]) /\ stored'[q].version >= stored[q].version
    <2>1. PICK runtime \in Runtimes :
             /\ runtime.initialized /\ runtime.version = stored[p].version + 1
             /\ stored' = [stored EXCEPT ![p] = runtime]
      BY <1>3, DirectFacts DEF TypeInv
    <2>2. stored \in [Positions -> Runtimes]
      BY DEF TypeInv, TypeOK
    <2> QED
      BY <1>2, <2>1, <2>2 DEF Marked
  <1>4. \/ stored' = stored
        \/ \A q \in Positions : Marked(stored'[q]) /\ stored'[q].version >= stored[q].version
    BY <1>3 DEF Others, Ship, Dock, Transfer, Push, SetApproval, Tick
  <1>5. \A q \in Positions : Marked(stored'[q]) /\ stored'[q].version >= stored[q].version
    BY <1>2, <1>4
  <1>6. stored' \in [Positions -> Runtimes]
    BY OthersKeepType DEF TypeInv, TypeOK
  <1>7. \A q \in Positions : stored'[q].version \in Nat
    BY <1>6 DEF Runtimes
  <1>8. \A d \in Calls : \A i \in FillIndexes(d) :
           Route[d].fills[i].position \in Positions /\ Route[d].fills[i].version \in Nat
    BY RouteFacts DEF FillIndexes
  <1>9. \A d \in Calls : settled'[d] > 0 =>
           \A i \in FillIndexes(d) :
              stored'[Route[d].fills[i].position].version > Route[d].fills[i].version
    <2>1. \A d \in Calls : settled[d] > 0 =>
             \A i \in FillIndexes(d) :
                stored[Route[d].fills[i].position].version > Route[d].fills[i].version
      BY DEF VersionInv
    <2> QED
      BY <1>1, <1>2, <1>5, <1>7, <1>8, <2>1
  <1> QED
    BY <1>1, <1>5, <1>9 DEF VersionInv, Marked, FillIndexes

LEMMA NextKeepsVersions ==
    ASSUME TypeInv, VersionInv, OneRoutePerVersion, [Next]_vars
    PROVE  VersionInv' /\ OneRoutePerVersion'
  <1>1. ASSUME settled' = settled
        PROVE  OneRoutePerVersion'
    BY <1>1 DEF OneRoutePerVersion, Compete, FillIndexes
  <1>2. CASE \E c \in Calls : BeginRoute(c)
    BY <1>1, <1>2, BeginKeepsVersions DEF BeginRoute
  <1>3. CASE FillNext
    BY <1>1, <1>3, FillKeepsVersions DEF FillNext
  <1>4. CASE SettleRoute
    BY <1>4, SettleKeepsVersions
  <1>5. CASE RevertRoute
    <2>1. stored' = stored /\ settled' = settled /\ work' = Idle
      BY <1>5 DEF RevertRoute
    <2> QED
      BY <1>1, <2>1 DEF VersionInv, Marked, FillIndexes
  <1>6. CASE Others
    BY <1>1, <1>6, OthersKeepVersions, OthersKeepType
  <1>7. CASE UNCHANGED vars
    BY <1>1, <1>7 DEF vars, VersionInv, Marked, FillIndexes, CurrentRoute
  <1> QED
    BY <1>2, <1>3, <1>4, <1>5, <1>6, <1>7, NextCases

\* The expected runtime versions are the replay protection of the executor:
\* whatever the mempool holds, a signed call settles at most once, and of two
\* calls bound to the same version of a position at most one settles.
THEOREM EachVersionSettlesOnce == Spec => []OneRoutePerVersion
  <1> DEFINE IInv == TypeInv /\ VersionInv /\ OneRoutePerVersion
  <1>1. Init => IInv
    BY InitTypeInv, InitVersionInv
  <1>2. IInv /\ [Next]_vars => IInv'
    BY NextKeepsType, NextKeepsVersions
  <1>3. IInv => OneRoutePerVersion
    OBVIOUS
  <1> QED
    BY <1>1, <1>2, <1>3, PTL DEF Spec
-----------------------------------------------------------------------------
(* The executor's wallet and the router's allowance.                        *)

LEMMA BeginKeepsWallet ==
    ASSUME TypeInv, NEW c \in Calls, BeginRoute(c)
    PROVE  WalletInv'
  <1>1. /\ work'.call = c /\ work'.amountIn = 0
        /\ work'.allowance = Funding(Route[c]) /\ Funding(Route[c]) \in Nat
        /\ work'.balance[Executor][RouteIn(Route[c])]
             = balance[Executor][RouteIn(Route[c])] + Funding(Route[c])
        /\ \A t \in Tokens : t # RouteIn(Route[c]) =>
             work'.balance[Executor][t] = balance[Executor][t]
    BY BeginFacts, RouteFacts DEF TypeInv
  <1>2. CurrentRoute' = Route[c] /\ balance' = balance
    BY <1>1 DEF BeginRoute, CurrentRoute
  <1>3. AllowanceIsFunded'
    BY <1>1, <1>2 DEF AllowanceIsFunded
  <1> QED
    BY <1>1, <1>2, <1>3 DEF WalletInv

LEMMA FillKeepsWallet ==
    ASSUME TypeInv, WalletInv, FillNext
    PROVE  WalletInv'
  <1> DEFINE in == RouteIn(CurrentRoute)
             out == RouteOut(CurrentRoute)
             maker == Config[CurrentFill.position].maker
  <1>1. /\ work # Idle /\ maker # Executor /\ Executor \in Accounts
        /\ in \in Tokens /\ in # out
        /\ Filled.amountIn \in Nat /\ Filled.amountIn <= work.allowance
        /\ Settled(FilledWallets, work.balance, in, out, Executor, CurrentRoute.recipient,
                   maker, Filled)
        /\ work.allowance \in Nat /\ work.amountIn \in Nat
        /\ work.balance \in Wallets /\ balance \in Wallets
        /\ Funding(CurrentRoute) \in Nat
    BY NextFillFacts, RouteInProgress DEF TypeInv, TypeOK, Wallets
  <1>2. /\ work'.call = work.call
        /\ work'.amountIn = work.amountIn + Filled.amountIn
        /\ work'.allowance = work.allowance - Filled.amountIn
        /\ work'.balance = FilledWallets
        /\ balance' = balance
    BY NextJournal DEF FillNext
  <1>3. CurrentRoute' = CurrentRoute
    BY <1>2 DEF CurrentRoute
  <1>4. \A a \in Accounts, t \in Tokens :
           work.balance[a][t] \in Nat /\ balance[a][t] \in Nat
    BY <1>1 DEF Wallets
  <1> HIDE DEF in, out, maker
  <1>5. /\ FilledWallets[Executor][in] = work.balance[Executor][in] - Filled.amountIn
        /\ CurrentRoute.recipient # Executor =>
             \A t \in Tokens \ {in} : FilledWallets[Executor][t] = work.balance[Executor][t]
    BY <1>1 DEF Settled
  <1>6. /\ work.allowance + work.amountIn = Funding(CurrentRoute)
        /\ work.balance[Executor][in] = balance[Executor][in] + work.allowance
        /\ CurrentRoute.recipient # Executor =>
             \A t \in Tokens \ {in} : work.balance[Executor][t] = balance[Executor][t]
    BY <1>1 DEF WalletInv, AllowanceIsFunded, in
  <1>7. /\ work'.allowance + work'.amountIn = Funding(CurrentRoute)
        /\ work'.balance[Executor][in] = balance[Executor][in] + work'.allowance
    BY <1>1, <1>2, <1>4, <1>5, <1>6
  <1>8. AllowanceIsFunded'
    BY <1>2, <1>3, <1>7 DEF AllowanceIsFunded, in
  <1>9. CurrentRoute.recipient # Executor =>
           \A t \in Tokens \ {in} : work'.balance[Executor][t] = balance[Executor][t]
    BY <1>2, <1>5, <1>6
  <1> QED
    BY <1>2, <1>3, <1>8, <1>9 DEF WalletInv, in

LEMMA NextKeepsWallet ==
    ASSUME TypeInv, WalletInv, [Next]_vars
    PROVE  WalletInv'
  <1>1. CASE \E c \in Calls : BeginRoute(c)
    BY <1>1, BeginKeepsWallet
  <1>2. CASE FillNext
    BY <1>2, FillKeepsWallet
  <1>3. CASE SettleRoute \/ RevertRoute
    BY <1>3 DEF SettleRoute, RevertRoute, WalletInv, AllowanceIsFunded
  <1>4. CASE Others
    BY <1>4, OthersKeepType DEF WalletInv, AllowanceIsFunded
  <1>5. CASE UNCHANGED vars
    BY <1>5 DEF vars, WalletInv, AllowanceIsFunded, CurrentRoute
  <1> QED
    BY <1>1, <1>2, <1>3, <1>4, <1>5, NextCases

\* The unspent funding and the input paid so far add up to what the payer
\* signed, and the executor holds the unspent part above its own balance: the
\* router's approval never reaches tokens of anyone else.
THEOREM RouterDrawsOnlyFunding == Spec => []AllowanceIsFunded
  <1> DEFINE IInv == TypeInv /\ WalletInv
  <1>1. Init => IInv
    BY InitTypeInv DEF Init, WalletInv, AllowanceIsFunded
  <1>2. IInv /\ [Next]_vars => IInv'
    BY NextKeepsType, NextKeepsWallet
  <1>3. IInv => AllowanceIsFunded
    BY DEF WalletInv
  <1> QED
    BY <1>1, <1>2, <1>3, PTL DEF Spec

\* A route is a conduit in one step: settling it gives everything back.
ConduitStep ==
    \A c \in Calls :
        /\ settled'[c] # settled[c]
        /\ Executor \notin {Route[c].recipient, Route[c].refund}
        => balance'[Executor] = balance[Executor]

LEMMA SettleIsConduit ==
    ASSUME TypeInv, WalletInv, SettleRoute
    PROVE  ConduitStep
  <1> SUFFICES ASSUME NEW c \in Calls, settled'[c] # settled[c],
                      Route[c].recipient # Executor, Route[c].refund # Executor
               PROVE  balance'[Executor] = balance[Executor]
    BY DEF ConduitStep
  <1> DEFINE in == RouteIn(CurrentRoute)
  <1>1. /\ work # Idle /\ balance' = Refunded
        /\ settled' = [settled EXCEPT ![work.call] = @ + 1]
        /\ settled \in [Calls -> Nat] /\ balance \in Wallets
    BY DEF SettleRoute, TypeInv, TypeOK, Wallets
  <1>2. CurrentRoute = Route[c]
    BY <1>1 DEF CurrentRoute
  <1>3. /\ work.balance[Executor][in] = balance[Executor][in] + work.allowance
        /\ \A t \in Tokens \ {in} : work.balance[Executor][t] = balance[Executor][t]
    BY <1>1, <1>2 DEF WalletInv, AllowanceIsFunded
  <1>4. /\ work.allowance \in Nat /\ in \in Tokens /\ Executor \in Accounts
    BY <1>1, RouteInProgress
  <1>5. balance[Executor][in] \in Nat
    BY <1>1, <1>4 DEF Wallets
  <1>6. work.balance[Executor][in] >= balance[Executor][in]
    BY <1>3, <1>4, <1>5
  <1>7. \A t \in Tokens : Refunded[Executor][t] = balance[Executor][t]
    BY <1>2, <1>3, <1>6, SettleFacts
  <1>8. Refunded \in Wallets
    BY SettleFacts
  <1> QED
    BY <1>1, <1>4, <1>7, <1>8 DEF Wallets

LEMMA NextIsConduit ==
    ASSUME TypeInv, WalletInv, [Next]_vars
    PROVE  ConduitStep
  <1>1. CASE SettleRoute
    BY <1>1, SettleIsConduit
  <1>2. CASE settled' = settled
    BY <1>2 DEF ConduitStep
  <1>3. \/ SettleRoute
        \/ settled' = settled
    BY NextCases, OthersKeepType DEF BeginRoute, FillNext, RevertRoute, vars
  <1> QED
    BY <1>1, <1>2, <1>3

\* Whatever a settled route did, and whatever was sent to the executor by
\* mistake before it, the executor's wallet is what it was, unless the route
\* names the executor itself.
THEOREM NothingStaysInTheExecutor == Spec => ExecutorIsConduit
  <1> DEFINE IInv == TypeInv /\ WalletInv
  <1>1. Init => IInv
    BY InitTypeInv DEF Init, WalletInv, AllowanceIsFunded
  <1>2. IInv /\ [Next]_vars => IInv'
    BY NextKeepsType, NextKeepsWallet
  <1>3. IInv /\ [Next]_vars => [ConduitStep]_vars
    BY NextIsConduit
  <1>4. ExecutorIsConduit <=> [][ConduitStep]_vars
    BY DEF ExecutorIsConduit, ConduitStep
  <1> QED
    BY <1>1, <1>2, <1>3, <1>4, PTL DEF Spec
-----------------------------------------------------------------------------
(* What the Lens reports as backed.                                         *)

\* A fill delivers at most the reserve of its side, in raw units rounded up.
LEMMA OutputWithinReserve ==
    ASSUME NEW position, Representable(position), NEW runtime \in Runtimes,
           NEW side \in Sides, NEW kind \in Kinds, NEW raw \in Nat,
           Quotable(position, runtime, side, kind, raw)
    PROVE  PositionFill(position, runtime, side, kind, raw).amountOut
             <= WadToRaw(runtime[side].y, FactorOut(position, side), "Up")
  <1> DEFINE fill == PositionFill(position, runtime, side, kind, raw)
             factor == FactorOut(position, side)
             reserve == runtime[side].y
             required == WadToRaw(reserve, factor, "Up")
  <1>1. FillType(fill, runtime[side])
    BY AcceptedFill
  <1>2. factor \in Nat \ {0} /\ reserve \in Nat
    BY FactorFacts, SideFacts, WireDomain DEF Runtimes, CurveStates
  <1>3. fill.outWad = fill.amountOut * factor
    BY DEF PositionFill, RawToWad
  <1> HIDE DEF fill, factor, reserve, required
  <1>4. /\ fill.amountOut \in Nat /\ fill.outWad \in Nat
        /\ fill.yAfter = reserve - fill.outWad /\ fill.yAfter \in Nat
    BY <1>1, WireDomain DEF FillType, reserve
  <1>5. factor * fill.amountOut <= reserve
    BY <1>2, <1>3, <1>4
  <1>6. required \in Nat /\ reserve <= factor * required
    BY <1>2, MulDivUp DEF required, WadToRaw
  <1>7. factor * fill.amountOut <= factor * required
    BY <1>2, <1>4, <1>5, <1>6, ProductNat
  <1>8. fill.amountOut <= required
    BY <1>2, <1>4, <1>6, <1>7, CancelFactor
  <1> QED
    BY <1>8 DEF fill, required, reserve, factor

LEMMA BeginKeepsBacking ==
    ASSUME TypeInv, NEW c \in Calls, BeginRoute(c)
    PROVE  BackingInv'
  <1>1. /\ work'.call = c /\ work'.stored = stored /\ work'.allocation = allocation
        /\ \A a \in Accounts, t \in Tokens :
             t # RouteIn(Route[c]) => work'.balance[a][t] = balance[a][t]
    BY BeginFacts DEF TypeInv
  <1>2. RouteIn(Route[c]) # RouteOut(Route[c]) /\ RouteOut(Route[c]) \in Tokens
    BY RouteFacts DEF BeginRoute, ValidCommon, RouteIn, RouteOut, TokenIn, TokenOut
  <1>3. /\ CurrentRoute' = Route[c]
        /\ stored' = stored /\ allocation' = allocation /\ balance' = balance
    BY <1>1 DEF BeginRoute, CurrentRoute
  <1>4. \A p \in Positions : Config[p].maker \in Accounts
    BY PositionFacts DEF Sides
  <1>5. \A a \in Accounts : balance[a][RouteOut(Route[c])] \in Nat
    BY <1>2 DEF TypeInv, TypeOK
  <1> QED
    BY <1>1, <1>2, <1>3, <1>4, <1>5 DEF BackingInv

LEMMA FillKeepsBacking ==
    ASSUME TypeInv, BackingInv, FillNext
    PROVE  BackingInv'
  <1> DEFINE drawn == Config[CurrentFill.position].maker
             out == RouteOut(CurrentRoute)
  <1>1. /\ work # Idle /\ work.next \in FillIndexes(work.call) /\ work.next \in Nat
        /\ CurrentFill.position \in Positions
        /\ out \in Tokens
        /\ Settled(FilledWallets, work.balance, RouteIn(CurrentRoute), out, Executor,
                   CurrentRoute.recipient, drawn, Filled)
        /\ work.stored \in [Positions -> Runtimes] /\ work.allocation \in Allocations
        /\ work.balance \in Wallets /\ balance \in Wallets
    BY NextFillFacts, RouteInProgress DEF TypeInv, TypeOK, Wallets
  <1>2. /\ work'.call = work.call /\ work'.next = work.next + 1
        /\ work'.stored = [work.stored EXCEPT ![CurrentFill.position] = FilledRuntime]
        /\ work'.allocation = [work.allocation EXCEPT ![CurrentFill.position] = FilledEntry]
        /\ work'.balance = FilledWallets
        /\ stored' = stored /\ allocation' = allocation /\ balance' = balance
    BY NextJournal DEF FillNext
  <1>3. CurrentRoute' = CurrentRoute
    BY <1>2 DEF CurrentRoute
  <1>4. ASSUME NEW p \in Positions, Undrawn(Config[p].maker)'
        PROVE  /\ work'.stored[p] = stored[p] /\ work'.allocation[p] = allocation[p]
               /\ work'.balance[Config[p].maker][out] >= balance[Config[p].maker][out]
    <2>1. \A i \in FillIndexes(work.call) : i < work.next + 1 =>
             Config[CurrentRoute.fills[i].position].maker # Config[p].maker
      BY <1>2, <1>3, <1>4 DEF Undrawn, FillIndexes
    <2>2. Undrawn(Config[p].maker) /\ drawn # Config[p].maker
      BY <1>1, <2>1 DEF Undrawn, CurrentFill, FillIndexes
    <2>3. /\ work.stored[p] = stored[p] /\ work.allocation[p] = allocation[p]
          /\ work.balance[Config[p].maker][out] >= balance[Config[p].maker][out]
      BY <1>1, <2>2 DEF BackingInv
    <2>4. p # CurrentFill.position
      BY <2>2
    <2>5. work'.stored[p] = stored[p] /\ work'.allocation[p] = allocation[p]
      BY <1>1, <1>2, <2>3, <2>4 DEF Allocations
    <2>6. Config[p].maker \in Accounts
      BY PositionFacts DEF Sides
    <2> HIDE DEF drawn, out
    <2>7. FilledWallets[Config[p].maker][out] >= work.balance[Config[p].maker][out]
      BY <1>1, <2>2, <2>6 DEF Settled
    <2>8. /\ FilledWallets[Config[p].maker][out] \in Nat
          /\ work.balance[Config[p].maker][out] \in Nat
          /\ balance[Config[p].maker][out] \in Nat
      BY <1>1, <2>6 DEF Settled, Wallets
    <2> QED
      BY <1>2, <2>3, <2>5, <2>7, <2>8
  <1> QED
    BY <1>2, <1>3, <1>4 DEF BackingInv, out

LEMMA NextKeepsBacking ==
    ASSUME TypeInv, BackingInv, [Next]_vars
    PROVE  BackingInv'
  <1>1. CASE \E c \in Calls : BeginRoute(c)
    BY <1>1, BeginKeepsBacking
  <1>2. CASE FillNext
    BY <1>2, FillKeepsBacking
  <1>3. CASE SettleRoute \/ RevertRoute
    BY <1>3 DEF SettleRoute, RevertRoute, BackingInv
  <1>4. CASE Others
    BY <1>4, OthersKeepType DEF BackingInv
  <1>5. CASE UNCHANGED vars
    BY <1>5 DEF vars, BackingInv, Undrawn, FillIndexes, CurrentRoute
  <1> QED
    BY <1>1, <1>2, <1>3, <1>4, <1>5, NextCases

\* The next fill of a route on the position p, under the premises of
\* BackedFillIsDelivered.
LEMMA BackedFill ==
    ASSUME TypeInv, BackingInv, work # Idle, FillsPending,
           NEW p, p = CurrentFill.position,
           SufficientlyBacked(p, CurrentRoute.side),
           \A i \in 1 .. work.next - 1 :
              Config[CurrentRoute.fills[i].position].maker # Config[p].maker,
           CurrentFill.version = Runtime(work, p).version,
           Quotable(Config[p], Runtime(work, p), CurrentRoute.side, CurrentRoute.kind,
                    CurrentFill.amount),
           CanTransition(Runtime(work, p), CurrentRoute.side,
                         FillOf(work, p, CurrentRoute.side, CurrentRoute.kind,
                                CurrentFill.amount))
    PROVE  MakerDelivers(work, p, CurrentRoute.side, CurrentRoute.kind, CurrentFill.amount,
                         CurrentFill.version)
  <1> DEFINE side == CurrentRoute.side
             out == SideOut(Config[p], side)
             maker == Config[p].maker
             fill == FillOf(work, p, side, CurrentRoute.kind, CurrentFill.amount)
             required == RequiredRaw(p, side)
  <1>1. /\ work.next \in FillIndexes(work.call) /\ work.next \in Nat
        /\ side \in Sides /\ CurrentRoute.kind \in Kinds
        /\ work.stored \in [Positions -> Runtimes]
        /\ work.allocation \in Allocations /\ work.balance \in Wallets
    <2>1. /\ work.next \in Nat \ {0} /\ Len(CurrentRoute.fills) \in Nat
          /\ CurrentRoute.side \in Sides /\ CurrentRoute.kind \in Kinds
          /\ work.stored \in [Positions -> Runtimes]
          /\ work.allocation \in Allocations /\ work.balance \in Wallets
      BY RouteInProgress
    <2>2. work.next \in FillIndexes(work.call)
      BY <2>1 DEF FillsPending, FillIndexes, CurrentRoute
    <2> QED
      BY <2>1, <2>2
  <1>2. /\ p \in Positions /\ CurrentFill.amount \in Nat /\ out = RouteOut(CurrentRoute)
    BY <1>1, RouteInProgress DEF CurrentFill
  <1>3. /\ Representable(Config[p]) /\ maker \in Accounts /\ out \in Tokens
    BY <1>1, <1>2, PositionFacts
  <1>4. Undrawn(maker)
    BY <1>1 DEF Undrawn, FillIndexes
  <1>5. /\ work.stored[p] = stored[p] /\ work.allocation[p] = allocation[p]
        /\ work.balance[maker][out] >= balance[maker][out]
    BY <1>2, <1>4 DEF BackingInv
  <1>6. required = WadToRaw(Runtime(work, p)[side].y, FactorOut(Config[p], side), "Up")
    BY <1>5 DEF RequiredRaw, Runtime
  <1>7. Runtime(work, p) \in Runtimes
    BY <1>1, <1>2, <1>3, ResolveType DEF Runtime
  <1>8. fill.amountOut <= required
    BY <1>1, <1>2, <1>3, <1>6, <1>7, OutputWithinReserve DEF FillOf
  <1>9. /\ lifecycle[p] = "Active"
        /\ allocation[p][out] >= required
        /\ balance[maker][out] >= required
        /\ out \in approved[maker]
    BY DEF SufficientlyBacked
  <1>10. fill.amountOut \in Nat /\ required \in Nat
    <2>1. FillType(fill, Runtime(work, p)[side])
      BY <1>1, <1>2, <1>3, <1>7, AcceptedFill DEF FillOf
    <2>2. Runtime(work, p)[side].y \in Nat /\ FactorOut(Config[p], side) \in Nat \ {0}
      BY <1>1, <1>3, <1>7, FactorFacts, SideFacts, WireDomain DEF Runtimes, CurveStates
    <2> QED
      BY <1>6, <2>1, <2>2, WadToRawType DEF FillType, Rounding
  <1> HIDE DEF required, fill, out, maker, side
  <1>11. /\ work.allocation[p][out] \in Nat
         /\ work.balance[maker][out] \in Nat /\ balance[maker][out] \in Nat
    BY <1>1, <1>2, <1>3 DEF Allocations, Wallets, TypeInv, TypeOK
  <1>12. /\ fill.amountOut <= work.allocation[p][out]
         /\ fill.amountOut <= work.balance[maker][out]
    BY <1>5, <1>8, <1>9, <1>10, <1>11
  <1> QED
    BY <1>9, <1>12 DEF MakerDelivers, CanFill, FillOf, fill, out, maker, side

\* A side the Lens reports as backed delivers the route's first fill on its
\* maker, whatever the route's earlier fills did to other makers: allocation,
\* wallet and approval suffice for everything the reserve can still pay out.
THEOREM LensBackingIsSound == Spec => []BackedFillIsDelivered
  <1> DEFINE IInv == TypeInv /\ BackingInv
  <1>1. Init => IInv
    BY InitTypeInv DEF Init, BackingInv
  <1>2. IInv /\ [Next]_vars => IInv'
    BY NextKeepsType, NextKeepsBacking
  <1>3. IInv => BackedFillIsDelivered
    BY BackedFill DEF BackedFillIsDelivered
  <1> QED
    BY <1>1, <1>2, <1>3, PTL DEF Spec
-----------------------------------------------------------------------------
(* Settlement implements AtomicRoutes.                                      *)

\* The positions that the route in progress has filled, and what their
\* entries gained and lost of the tokens of the route since it began.
Done == {CurrentRoute.fills[i].position : i \in {j \in FillIndexes(work.call) : j < work.next}}
DoneBy(a) == {p \in Done : Config[p].maker = a}
Gained == [p \in Positions |-> work.allocation[p][RouteIn(CurrentRoute)]
                                 - allocation[p][RouteIn(CurrentRoute)]]
Lost == [p \in Positions |-> allocation[p][RouteOut(CurrentRoute)]
                               - work.allocation[p][RouteOut(CurrentRoute)]]

\* What validation established.
RouteBound ==
    /\ now <= CurrentRoute.deadline
    /\ work.next <= Len(CurrentRoute.fills) + 1
    /\ \A i, j \in FillIndexes(work.call) :
         i # j => CurrentRoute.fills[i].position # CurrentRoute.fills[j].position

\* The fills so far advanced their positions, at the versions and by the
\* amounts that the route names, and nothing else.
FillsDone ==
    /\ \A p \in Positions :
         work.stored[p].version = stored[p].version + OnlyIf(p \in Done, 1)
    /\ \A p \in Positions, t \in Tokens :
         p \notin Done \/ t \notin {RouteIn(CurrentRoute), RouteOut(CurrentRoute)}
           => work.allocation[p][t] = allocation[p][t]
    /\ \A i \in FillIndexes(work.call) : i < work.next =>
         LET f == CurrentRoute.fills[i]
         IN  /\ stored[f.position].version = f.version
             /\ Gained[f.position] > 0 /\ Lost[f.position] > 0
             /\ IF CurrentRoute.kind = "ExactInput" THEN Gained[f.position] = f.amount
                                                    ELSE Lost[f.position] = f.amount

TotalsAdd ==
    /\ work.amountIn = SumFunctionOnSet(Gained, Done)
    /\ work.amountOut = SumFunctionOnSet(Lost, Done)

\* Every wallet, from what it held when the route began.
WalletAdds(a, t) ==
    work.balance[a][t] =
        balance[a][t]
          + OnlyIf(t = RouteIn(CurrentRoute),
                   SumFunctionOnSet(Gained, DoneBy(a))
                     - OnlyIf(a = CurrentRoute.payer, Funding(CurrentRoute))
                     + OnlyIf(a = Executor, work.allowance))
          + OnlyIf(t = RouteOut(CurrentRoute),
                   OnlyIf(a = CurrentRoute.recipient, work.amountOut)
                     - SumFunctionOnSet(Lost, DoneBy(a)))

JournalInv ==
    work # Idle =>
        /\ RouteBound /\ FillsDone /\ TotalsAdd
        /\ \A a \in Accounts, t \in Tokens : WalletAdds(a, t)

LEMMA DoneFacts ==
    ASSUME TypeInv, work # Idle
    PROVE  /\ IsFiniteSet(Done) /\ Done \subseteq Positions
           /\ \A a \in Accounts : IsFiniteSet(DoneBy(a)) /\ DoneBy(a) \subseteq Done
           /\ \A p \in Positions : Gained[p] \in Int /\ Lost[p] \in Int
  <1> DEFINE past == {j \in FillIndexes(work.call) : j < work.next}
             place == [i \in past |-> CurrentRoute.fills[i].position]
  <1>1. IsFiniteSet(past)
    <2>1. IsFiniteSet(1 .. Len(CurrentRoute.fills))
      BY RouteInProgress, FS_Interval
    <2>2. past \subseteq 1 .. Len(CurrentRoute.fills)
      BY DEF FillIndexes, CurrentRoute
    <2> QED
      BY <2>1, <2>2, FS_Subset
  <1>2. place \in Surjection(past, Done)
    BY DEF Surjection, Done
  <1>3. IsFiniteSet(Done)
    <2> HIDE DEF past, place
    <2> QED
      BY <1>1, <1>2, FS_Surjection
  <1>4. Done \subseteq Positions
    BY RouteInProgress DEF Done
  <1>5. ASSUME NEW a \in Accounts PROVE IsFiniteSet(DoneBy(a)) /\ DoneBy(a) \subseteq Done
    <2>1. DoneBy(a) \subseteq Done
      BY DEF DoneBy
    <2> QED
      BY <1>3, <2>1, FS_Subset
  <1>6. ASSUME NEW p \in Positions PROVE Gained[p] \in Int /\ Lost[p] \in Int
    <2>1. /\ work.allocation[p] \in [Tokens -> Nat] /\ allocation[p] \in [Tokens -> Nat]
          /\ RouteIn(CurrentRoute) \in Tokens /\ RouteOut(CurrentRoute) \in Tokens
      BY RouteInProgress DEF TypeInv, TypeOK, Allocations
    <2> QED
      BY <2>1 DEF Gained, Lost
  <1> QED
    BY <1>3, <1>4, <1>5, <1>6

\* A sum over nothing.
LEMMA NoSum == ASSUME NEW f PROVE SumFunctionOnSet(f, {}) = 0
  BY SumStep, FS_EmptySet

LEMMA BeginKeepsJournal ==
    ASSUME TypeOK, NEW c \in Calls, BeginRoute(c)
    PROVE  JournalInv'
  <1> DEFINE in == RouteIn(Route[c])
             out == RouteOut(Route[c])
  <1>1. /\ work'.call = c /\ work'.next = 1
        /\ work'.amountIn = 0 /\ work'.amountOut = 0 /\ work'.allowance = Funding(Route[c])
        /\ work'.stored = stored /\ work'.allocation = allocation
        /\ \A a \in Accounts, t \in Tokens :
              t # in => work'.balance[a][t] = balance[a][t]
        /\ \A a \in Accounts :
              work'.balance[a][in] = balance[a][in] + OnlyIf(a = Executor, Funding(Route[c]))
                                       - OnlyIf(a = Route[c].payer, Funding(Route[c]))
    BY BeginFacts
  <1>2. /\ stored' = stored /\ allocation' = allocation /\ balance' = balance /\ now' = now
        /\ ValidCommon(Route[c]) /\ ValidFills(Route[c])
    BY DEF BeginRoute
  <1>3. CurrentRoute' = Route[c] /\ FillIndexes(work.call)' = 1 .. Len(Route[c].fills)
    BY <1>1 DEF CurrentRoute, FillIndexes
  <1>4. in # out /\ in \in Tokens /\ out \in Tokens /\ Funding(Route[c]) \in Nat
    BY <1>2, RouteFacts DEF ValidCommon, RouteIn, RouteOut, TokenIn, TokenOut
  <1>5. Done' = {} /\ \A a \in Accounts : DoneBy(a)' = {}
    <2>1. ~ \E i \in FillIndexes(work.call)' : i < work'.next
      BY <1>1, <1>3
    <2> QED
      BY <2>1 DEF Done, DoneBy
  <1>6. RouteBound'
    BY <1>1, <1>2, <1>3, RouteFacts DEF RouteBound, ValidCommon, ValidFills
  <1>7. FillsDone'
    <2>1. \A p \in Positions : stored[p].version \in Nat
      BY DEF TypeOK, Runtimes
    <2>2. ~ \E i \in FillIndexes(work.call)' : i < work'.next
      BY <1>1, <1>3
    <2> QED
      BY <1>1, <1>2, <1>5, <2>1, <2>2 DEF FillsDone, OnlyIf
  <1>8. TotalsAdd'
    BY <1>1, <1>5, NoSum DEF TotalsAdd
  <1>9. ASSUME NEW a \in Accounts, NEW t \in Tokens PROVE WalletAdds(a, t)'
    <2>1. /\ SumFunctionOnSet(Gained, DoneBy(a))' = 0
          /\ SumFunctionOnSet(Lost, DoneBy(a))' = 0
      BY <1>5, NoSum
    <2>2. balance[a][t] \in Nat
      BY DEF TypeOK
    <2> HIDE DEF in, out
    <2>3. CurrentRoute' = Route[c] /\ RouteIn(CurrentRoute)' = in /\ RouteOut(CurrentRoute)' = out
      BY <1>3 DEF in, out, RouteIn, RouteOut
    <2>4. /\ Funding(CurrentRoute)' = Funding(Route[c])
          /\ CurrentRoute.payer' = Route[c].payer /\ CurrentRoute.recipient' = Route[c].recipient
      BY <1>3 DEF Funding
    <2> QED
      BY <1>1, <1>2, <1>4, <2>1, <2>2, <2>3, <2>4 DEF WalletAdds, OnlyIf
  <1> QED
    BY <1>6, <1>7, <1>8, <1>9 DEF JournalInv

\* The next fill adds its position to those done, with what it moved.
LEMMA FillAdds ==
    ASSUME TypeInv, VersionInv, JournalInv, FillNext
    PROVE  LET q == CurrentFill.position
           IN  /\ work # Idle /\ CurrentRoute' = CurrentRoute
               /\ FillIndexes(work.call)' = FillIndexes(work.call)
               /\ work.next \in FillIndexes(work.call) /\ work'.next = work.next + 1
               /\ q \in Positions /\ q \notin Done /\ Done' = Done \cup {q}
               /\ \A p \in Done : Gained'[p] = Gained[p] /\ Lost'[p] = Lost[p]
               /\ Gained'[q] = Filled.amountIn /\ Lost'[q] = Filled.amountOut
               /\ Filled.amountIn \in Nat /\ Filled.amountOut \in Nat
  <1> DEFINE q == CurrentFill.position
             in == RouteIn(CurrentRoute)
             out == RouteOut(CurrentRoute)
  <1>1. /\ work # Idle /\ work.next \in FillIndexes(work.call) /\ work.next \in Nat
        /\ q \in Positions
        /\ Filled.amountIn \in Nat /\ Filled.amountOut \in Nat
        /\ FilledEntry \in [Tokens -> Nat]
        /\ Entered(FilledEntry, work.allocation[q], in, out, Filled)
        /\ work.allocation \in Allocations /\ allocation \in Allocations
        /\ in \in Tokens /\ out \in Tokens /\ in # out
    BY NextFillFacts, RouteInProgress DEF TypeInv, TypeOK, Allocations
  <1>2. /\ work'.call = work.call /\ work'.next = work.next + 1
        /\ work'.allocation = [work.allocation EXCEPT ![q] = FilledEntry]
        /\ allocation' = allocation
    BY NextJournal DEF FillNext
  <1>3. CurrentRoute' = CurrentRoute /\ FillIndexes(work.call)' = FillIndexes(work.call)
    BY <1>2 DEF CurrentRoute, FillIndexes
  <1>4. RouteBound /\ FillsDone
    BY <1>1 DEF JournalInv
  <1>5. q = CurrentRoute.fills[work.next].position
    BY DEF CurrentFill
  <1>6. q \notin Done
    <2> SUFFICES ASSUME NEW i \in FillIndexes(work.call), i < work.next,
                        q = CurrentRoute.fills[i].position
                 PROVE  FALSE
      BY DEF Done
    <2>1. i # work.next
      BY <1>1
    <2> QED
      BY <1>1, <1>4, <1>5, <2>1 DEF RouteBound
  <1>7. Done' = Done \cup {q}
    <2>1. {j \in FillIndexes(work.call) : j < work.next + 1}
            = {j \in FillIndexes(work.call) : j < work.next} \cup {work.next}
      BY <1>1 DEF FillIndexes
    <2>2. Done' = {CurrentRoute.fills[i].position :
                     i \in {j \in FillIndexes(work.call) : j < work.next + 1}}
      BY <1>2, <1>3 DEF Done
    <2> QED
      BY <1>5, <2>1, <2>2 DEF Done
  <1>8. Done \subseteq Positions
    BY <1>1, DoneFacts
  <1>9. RouteIn(CurrentRoute)' = in /\ RouteOut(CurrentRoute)' = out
    BY <1>3
  <1>10. ASSUME NEW p \in Positions
         PROVE  /\ Gained'[p] = work'.allocation[p][in] - allocation[p][in]
                /\ Lost'[p] = allocation[p][out] - work'.allocation[p][out]
                /\ Gained[p] = work.allocation[p][in] - allocation[p][in]
                /\ Lost[p] = allocation[p][out] - work.allocation[p][out]
    BY <1>2, <1>9 DEF Gained, Lost
  <1>11. \A p \in Done : work'.allocation[p] = work.allocation[p]
    BY <1>1, <1>2, <1>6, <1>8 DEF Allocations
  <1>12. Gained'[q] = Filled.amountIn /\ Lost'[q] = Filled.amountOut
    <2>1. work'.allocation[q] = FilledEntry
      BY <1>1, <1>2 DEF Allocations
    <2>2. work.allocation[q][in] = allocation[q][in] /\ work.allocation[q][out] = allocation[q][out]
      BY <1>1, <1>4, <1>6 DEF FillsDone
    <2>3. /\ FilledEntry[in] = allocation[q][in] + Filled.amountIn
          /\ FilledEntry[out] = allocation[q][out] - Filled.amountOut
      <3>1. allocation[q][in] \in Nat /\ allocation[q][out] \in Nat
        BY <1>1 DEF Allocations
      <3> QED
        BY <1>1, <2>2, <3>1 DEF Entered, OnlyIf
    <2>4. allocation[q][in] \in Nat /\ allocation[q][out] \in Nat
      BY <1>1 DEF Allocations
    <2> HIDE DEF in, out, q
    <2> QED
      BY <1>1, <1>10, <2>1, <2>3, <2>4
  <1> QED
    BY <1>1, <1>2, <1>3, <1>6, <1>7, <1>8, <1>10, <1>11, <1>12

LEMMA FillKeepsDone ==
    ASSUME TypeInv, VersionInv, JournalInv, FillNext
    PROVE  RouteBound' /\ FillsDone' /\ TotalsAdd'
  <1> DEFINE q == CurrentFill.position
             in == RouteIn(CurrentRoute)
             out == RouteOut(CurrentRoute)
  <1>1. /\ work # Idle /\ CurrentRoute' = CurrentRoute
        /\ FillIndexes(work.call)' = FillIndexes(work.call)
        /\ work.next \in FillIndexes(work.call) /\ work'.next = work.next + 1
        /\ q \in Positions /\ q \notin Done /\ Done' = Done \cup {q}
        /\ \A p \in Done : Gained'[p] = Gained[p] /\ Lost'[p] = Lost[p]
        /\ Gained'[q] = Filled.amountIn /\ Lost'[q] = Filled.amountOut
        /\ Filled.amountIn \in Nat /\ Filled.amountOut \in Nat
    BY FillAdds
  <1>2. /\ RouteBound /\ FillsDone /\ TotalsAdd
    BY <1>1 DEF JournalInv
  <1>3. /\ work'.stored = [work.stored EXCEPT ![q] = FilledRuntime]
        /\ work'.allocation = [work.allocation EXCEPT ![q] = FilledEntry]
        /\ work'.amountIn = work.amountIn + Filled.amountIn
        /\ work'.amountOut = work.amountOut + Filled.amountOut
        /\ stored' = stored /\ allocation' = allocation /\ now' = now
    BY NextJournal DEF FillNext
  <1>4. /\ work.stored \in [Positions -> Runtimes] /\ work.allocation \in Allocations
        /\ work.next \in Nat /\ stored \in [Positions -> Runtimes]
        /\ IsFiniteSet(Done) /\ Done \subseteq Positions
        /\ \A p \in Positions : Gained[p] \in Int /\ Lost[p] \in Int
    BY <1>1, RouteInProgress, DoneFacts DEF TypeInv, TypeOK
  <1>5. RouteBound'
    BY <1>1, <1>2, <1>3, <1>4 DEF RouteBound, FillIndexes, CurrentRoute
  <1>6. ASSUME NEW p \in Positions
        PROVE  work'.stored[p].version = stored[p].version + OnlyIf(p \in Done', 1)
    <2>1. CASE p = q
      <3>1. FilledRuntime.version = CurrentFill.version + 1
        BY NextFillFacts
      <3>2. Runtime(work, q).version = CurrentFill.version
        BY NextFillFacts
      <3>3. Runtime(work, q).version = work.stored[q].version
        BY <1>1, <1>4, RuntimeVersion DEF VersionInv
      <3>4. work.stored[q].version = stored[q].version + OnlyIf(q \in Done, 1)
        BY <1>1, <1>2 DEF FillsDone
      <3>5. work.stored[q].version = stored[q].version
        BY <1>1, <1>4, <3>4 DEF OnlyIf, Runtimes
      <3>6. work'.stored[q] = FilledRuntime
        BY <1>1, <1>3, <1>4
      <3> QED
        BY <1>1, <2>1, <3>1, <3>2, <3>3, <3>5, <3>6 DEF OnlyIf
    <2>2. CASE p # q
      <3>1. work'.stored[p] = work.stored[p]
        BY <1>3, <1>4, <2>2
      <3>2. p \in Done' <=> p \in Done
        BY <1>1, <2>2
      <3> QED
        BY <1>2, <3>1, <3>2 DEF FillsDone, OnlyIf
    <2> QED
      BY <2>1, <2>2
  <1>7. ASSUME NEW p \in Positions, NEW t \in Tokens, p \notin Done' \/ t \notin {in, out}
        PROVE  work'.allocation[p][t] = allocation[p][t]
    <2>1. work.allocation[p][t] = allocation[p][t]
      BY <1>1, <1>2, <1>7 DEF FillsDone
    <2>2. CASE p = q
      <3>1. t \notin {in, out}
        BY <1>1, <1>7, <2>2
      <3>2. Entered(FilledEntry, work.allocation[q], in, out, Filled)
        BY NextFillFacts
      <3>3. work.allocation[q][t] \in Nat
        BY <1>1, <1>4 DEF Allocations
      <3>4. FilledEntry[t] = work.allocation[q][t]
        BY <3>1, <3>2, <3>3 DEF Entered, OnlyIf
      <3> QED
        BY <1>1, <1>3, <1>4, <2>1, <2>2, <3>4 DEF Allocations
    <2>3. CASE p # q
      BY <1>3, <1>4, <2>1, <2>3 DEF Allocations
    <2> QED
      BY <2>2, <2>3
  <1>8. ASSUME NEW i \in FillIndexes(work.call), i < work.next + 1
        PROVE  LET f == CurrentRoute.fills[i]
               IN  /\ stored[f.position].version = f.version
                   /\ Gained'[f.position] > 0 /\ Lost'[f.position] > 0
                   /\ IF CurrentRoute.kind = "ExactInput"
                      THEN Gained'[f.position] = f.amount
                      ELSE Lost'[f.position] = f.amount
    <2>1. CASE i < work.next
      <3>1. CurrentRoute.fills[i].position \in Done
        BY <2>1 DEF Done
      <3> QED
        BY <1>1, <1>2, <2>1, <3>1 DEF FillsDone
    <2>2. CASE ~(i < work.next)
      <3>1. i = work.next
        BY <1>1, <1>4, <1>8, <2>2 DEF FillIndexes
      <3>2. CurrentRoute.fills[i] = CurrentFill
        BY <3>1 DEF CurrentFill
      <3>3. Exchanges(Filled, CurrentRoute.kind, CurrentFill.amount)
        BY NextFillFacts
      <3>4. Runtime(work, q).version = CurrentFill.version
        BY NextFillFacts
      <3>5. Runtime(work, q).version = work.stored[q].version
        BY <1>1, <1>4, RuntimeVersion DEF VersionInv
      <3>6. work.stored[q].version = stored[q].version
        BY <1>1, <1>2, <1>4 DEF FillsDone, OnlyIf, Runtimes
      <3> QED
        BY <1>1, <3>2, <3>3, <3>4, <3>5, <3>6 DEF Exchanges
    <2> QED
      BY <2>1, <2>2
  <1>9. FillsDone'
    BY <1>1, <1>3, <1>6, <1>7, <1>8 DEF FillsDone
  <1>10. TotalsAdd'
    <2>1. /\ SumFunctionOnSet(Gained', Done \cup {q})
               = SumFunctionOnSet(Gained, Done) + Filled.amountIn
          /\ SumFunctionOnSet(Lost', Done \cup {q})
               = SumFunctionOnSet(Lost, Done) + Filled.amountOut
      <3>1. /\ \A p \in Done : Gained[p] \in Int /\ Lost[p] \in Int
            /\ Gained'[q] \in Int /\ Lost'[q] \in Int
        BY <1>1, <1>4
      <3> HIDE DEF q
      <3>2. SumFunctionOnSet(Gained', Done \cup {q}) = SumFunctionOnSet(Gained, Done) + Gained'[q]
        BY <1>1, <1>4, <3>1, SumExtend
      <3>3. SumFunctionOnSet(Lost', Done \cup {q}) = SumFunctionOnSet(Lost, Done) + Lost'[q]
        BY <1>1, <1>4, <3>1, SumExtend
      <3> QED
        BY <1>1, <3>2, <3>3
    <2> QED
      BY <1>1, <1>2, <1>3, <2>1 DEF TotalsAdd
  <1> QED
    BY <1>5, <1>9, <1>10

\* What the maker of a filled position is credited and debited is the change
\* of the sums over its positions.
LEMMA FillAddsOf ==
    ASSUME TypeInv, VersionInv, JournalInv, FillNext, NEW a \in Accounts
    PROVE  LET maker == Config[CurrentFill.position].maker
           IN  /\ SumFunctionOnSet(Gained', DoneBy(a)')
                    = SumFunctionOnSet(Gained, DoneBy(a)) + OnlyIf(a = maker, Filled.amountIn)
               /\ SumFunctionOnSet(Lost', DoneBy(a)')
                    = SumFunctionOnSet(Lost, DoneBy(a)) + OnlyIf(a = maker, Filled.amountOut)
               /\ SumFunctionOnSet(Gained, DoneBy(a)) \in Int
               /\ SumFunctionOnSet(Lost, DoneBy(a)) \in Int
  <1> DEFINE q == CurrentFill.position
             maker == Config[q].maker
  <1>1. /\ work # Idle
        /\ q \in Positions /\ q \notin Done /\ Done' = Done \cup {q}
        /\ \A p \in Done : Gained'[p] = Gained[p] /\ Lost'[p] = Lost[p]
        /\ Gained'[q] = Filled.amountIn /\ Lost'[q] = Filled.amountOut
        /\ Filled.amountIn \in Nat /\ Filled.amountOut \in Nat
    BY FillAdds
  <1>2. /\ IsFiniteSet(DoneBy(a)) /\ DoneBy(a) \subseteq Done
        /\ \A p \in DoneBy(a) : Gained[p] \in Int /\ Lost[p] \in Int
    BY <1>1, DoneFacts
  <1>3. /\ SumFunctionOnSet(Gained, DoneBy(a)) \in Int
        /\ SumFunctionOnSet(Lost, DoneBy(a)) \in Int
    BY <1>2, SumInt
  <1>4. CASE a = maker
    <2>1. DoneBy(a)' = DoneBy(a) \cup {q} /\ q \notin DoneBy(a)
      BY <1>1, <1>2, <1>4 DEF DoneBy
    <2>2. /\ \A p \in DoneBy(a) : Gained[p] \in Int /\ Gained'[p] = Gained[p]
          /\ \A p \in DoneBy(a) : Lost[p] \in Int /\ Lost'[p] = Lost[p]
          /\ Gained'[q] \in Int /\ Lost'[q] \in Int
      BY <1>1, <1>2
    <2>3. /\ Gained'[q] = OnlyIf(a = maker, Filled.amountIn)
          /\ Lost'[q] = OnlyIf(a = maker, Filled.amountOut)
      BY <1>1, <1>4 DEF OnlyIf
    <2> HIDE DEF q, maker
    <2>4. SumFunctionOnSet(Gained', DoneBy(a) \cup {q})
            = SumFunctionOnSet(Gained, DoneBy(a)) + Gained'[q]
      BY <1>2, <2>1, <2>2, SumExtend
    <2>5. SumFunctionOnSet(Lost', DoneBy(a) \cup {q})
            = SumFunctionOnSet(Lost, DoneBy(a)) + Lost'[q]
      BY <1>2, <2>1, <2>2, SumExtend
    <2> QED
      BY <1>3, <2>1, <2>3, <2>4, <2>5 DEF maker, q
  <1>5. CASE a # maker
    <2>1. DoneBy(a)' = DoneBy(a)
      BY <1>1, <1>5 DEF DoneBy
    <2>2. /\ \A p \in DoneBy(a) : Gained'[p] \in Int /\ Gained'[p] = Gained[p]
          /\ \A p \in DoneBy(a) : Lost'[p] \in Int /\ Lost'[p] = Lost[p]
      BY <1>1, <1>2
    <2>3. SumFunctionOnSet(Gained', DoneBy(a)) = SumFunctionOnSet(Gained, DoneBy(a))
      BY <1>2, <2>2, SumSame
    <2>4. SumFunctionOnSet(Lost', DoneBy(a)) = SumFunctionOnSet(Lost, DoneBy(a))
      BY <1>2, <2>2, SumSame
    <2>5. OnlyIf(a = maker, Filled.amountIn) = 0 /\ OnlyIf(a = maker, Filled.amountOut) = 0
      BY <1>5 DEF OnlyIf
    <2> HIDE DEF q, maker
    <2> QED
      BY <1>3, <2>1, <2>3, <2>4, <2>5 DEF maker, q
  <1> QED
    BY <1>4, <1>5

LEMMA FillKeepsWallets ==
    ASSUME TypeInv, VersionInv, JournalInv, FillNext, NEW a \in Accounts, NEW t \in Tokens
    PROVE  WalletAdds(a, t)'
  <1> DEFINE q == CurrentFill.position
             maker == Config[q].maker
             in == RouteIn(CurrentRoute)
             out == RouteOut(CurrentRoute)
             gained == SumFunctionOnSet(Gained, DoneBy(a))
             lost == SumFunctionOnSet(Lost, DoneBy(a))
             funding == Funding(CurrentRoute)
  <1>1. /\ work # Idle /\ CurrentRoute' = CurrentRoute
        /\ Filled.amountIn \in Nat /\ Filled.amountOut \in Nat
    BY FillAdds
  <1>2. /\ work'.balance = FilledWallets
        /\ work'.amountOut = work.amountOut + Filled.amountOut
        /\ work'.allowance = work.allowance - Filled.amountIn
        /\ balance' = balance
    BY NextJournal DEF FillNext
  <1>3. /\ SumFunctionOnSet(Gained', DoneBy(a)') = gained + OnlyIf(a = maker, Filled.amountIn)
        /\ SumFunctionOnSet(Lost', DoneBy(a)') = lost + OnlyIf(a = maker, Filled.amountOut)
        /\ gained \in Int /\ lost \in Int
    BY FillAddsOf
  <1>4. /\ work.allowance \in Nat /\ work.amountOut \in Nat /\ funding \in Nat
        /\ in # out /\ balance[a][t] \in Nat
    BY <1>1, RouteInProgress DEF TypeInv, TypeOK
  <1>5. work.balance[a][t] =
          balance[a][t]
            + OnlyIf(t = in, gained - OnlyIf(a = CurrentRoute.payer, funding)
                               + OnlyIf(a = Executor, work.allowance))
            + OnlyIf(t = out, OnlyIf(a = CurrentRoute.recipient, work.amountOut) - lost)
    BY <1>1 DEF JournalInv, WalletAdds
  <1>6. FilledWallets[a][t] =
          work.balance[a][t]
            + OnlyIf(t = in, OnlyIf(a = maker, Filled.amountIn)
                               - OnlyIf(a = Executor, Filled.amountIn))
            + OnlyIf(t = out, OnlyIf(a = CurrentRoute.recipient, Filled.amountOut)
                                - OnlyIf(a = maker, Filled.amountOut))
    BY NextFillFacts DEF Moved
  <1>7. RouteIn(CurrentRoute)' = in /\ RouteOut(CurrentRoute)' = out
        /\ Funding(CurrentRoute)' = funding
    BY <1>1
  <1> HIDE DEF q, maker, in, out, gained, lost, funding
  <1>8. FilledWallets[a][t] =
          balance[a][t]
            + OnlyIf(t = in, gained + OnlyIf(a = maker, Filled.amountIn)
                               - OnlyIf(a = CurrentRoute.payer, funding)
                               + OnlyIf(a = Executor, work.allowance - Filled.amountIn))
            + OnlyIf(t = out, OnlyIf(a = CurrentRoute.recipient,
                                     work.amountOut + Filled.amountOut)
                                - (lost + OnlyIf(a = maker, Filled.amountOut)))
    <2>1. CASE t = in
      BY <1>1, <1>3, <1>4, <1>5, <1>6, <2>1 DEF OnlyIf
    <2>2. CASE t = out
      BY <1>1, <1>3, <1>4, <1>5, <1>6, <2>2 DEF OnlyIf
    <2>3. CASE t # in /\ t # out
      BY <1>1, <1>3, <1>4, <1>5, <1>6, <2>3 DEF OnlyIf
    <2> QED
      BY <2>1, <2>2, <2>3
  <1>9. WalletAdds(a, t)' <=>
          work'.balance[a][t] =
            balance'[a][t]
              + OnlyIf(t = RouteIn(CurrentRoute'),
                       SumFunctionOnSet(Gained', DoneBy(a)')
                         - OnlyIf(a = CurrentRoute'.payer, Funding(CurrentRoute'))
                         + OnlyIf(a = Executor, work'.allowance))
              + OnlyIf(t = RouteOut(CurrentRoute'),
                       OnlyIf(a = CurrentRoute'.recipient, work'.amountOut)
                         - SumFunctionOnSet(Lost', DoneBy(a)'))
    BY DEF WalletAdds
  <1>10. /\ OnlyIf(t = RouteIn(CurrentRoute'),
                   SumFunctionOnSet(Gained', DoneBy(a)')
                     - OnlyIf(a = CurrentRoute'.payer, Funding(CurrentRoute'))
                     + OnlyIf(a = Executor, work'.allowance))
              = OnlyIf(t = in, gained + OnlyIf(a = maker, Filled.amountIn)
                                 - OnlyIf(a = CurrentRoute.payer, funding)
                                 + OnlyIf(a = Executor, work.allowance - Filled.amountIn))
    <2>1. OnlyIf(a = CurrentRoute'.payer, Funding(CurrentRoute'))
            = OnlyIf(a = CurrentRoute.payer, funding)
      BY <1>1, <1>7 DEF OnlyIf
    <2>2. OnlyIf(a = Executor, work'.allowance)
            = OnlyIf(a = Executor, work.allowance - Filled.amountIn)
      BY <1>2 DEF OnlyIf
    <2> DEFINE paid == OnlyIf(a = CurrentRoute.payer, funding)
               left == OnlyIf(a = Executor, work.allowance - Filled.amountIn)
               got == OnlyIf(a = maker, Filled.amountIn)
               total == SumFunctionOnSet(Gained', DoneBy(a)')
               charged == OnlyIf(a = CurrentRoute'.payer, Funding(CurrentRoute'))
               unspent == OnlyIf(a = Executor, work'.allowance)
    <2>3. total = gained + got /\ charged = paid /\ unspent = left
      BY <1>3, <2>1, <2>2
    <2>4. gained \in Int /\ got \in Int /\ paid \in Int /\ left \in Int
      BY <1>1, <1>3, <1>4 DEF OnlyIf
    <2> HIDE DEF paid, left, got, total, charged, unspent
    <2>5. total - charged + unspent = gained + got - paid + left
      BY <2>3, <2>4
    <2>6. OnlyIf(t = RouteIn(CurrentRoute'), total - charged + unspent)
            = OnlyIf(t = in, gained + got - paid + left)
      BY <1>7, <2>5 DEF OnlyIf
    <2> QED
      BY <2>6 DEF paid, left, got, total, charged, unspent
  <1>11. OnlyIf(t = RouteOut(CurrentRoute'),
                OnlyIf(a = CurrentRoute'.recipient, work'.amountOut)
                  - SumFunctionOnSet(Lost', DoneBy(a)'))
           = OnlyIf(t = out, OnlyIf(a = CurrentRoute.recipient,
                                    work.amountOut + Filled.amountOut)
                               - (lost + OnlyIf(a = maker, Filled.amountOut)))
    BY <1>1, <1>2, <1>3, <1>7 DEF OnlyIf
  <1> QED
    BY <1>2, <1>8, <1>9, <1>10, <1>11

LEMMA NextKeepsJournal ==
    ASSUME TypeInv, VersionInv, JournalInv, [Next]_vars
    PROVE  JournalInv'
  <1>1. CASE \E c \in Calls : BeginRoute(c)
    BY <1>1, BeginKeepsJournal DEF TypeInv
  <1>2. CASE FillNext
    BY <1>2, FillKeepsDone, FillKeepsWallets DEF JournalInv
  <1>3. CASE SettleRoute \/ RevertRoute
    BY <1>3 DEF SettleRoute, RevertRoute, JournalInv
  <1>4. CASE Others
    BY <1>4, OthersKeepType DEF JournalInv
  <1>5. CASE UNCHANGED vars
    <2>1. /\ work' = work /\ stored' = stored /\ allocation' = allocation
          /\ balance' = balance /\ now' = now
      BY <1>5 DEF vars
    <2>2. CurrentRoute' = CurrentRoute /\ Done' = Done /\ Gained' = Gained /\ Lost' = Lost
      BY <2>1 DEF CurrentRoute, Done, FillIndexes, Gained, Lost
    <2>3. \A a \in Accounts : DoneBy(a)' = DoneBy(a)
      BY <2>2 DEF DoneBy
    <2>4. RouteBound' = RouteBound /\ TotalsAdd' = TotalsAdd /\ FillsDone' = FillsDone
      BY <2>1, <2>2 DEF RouteBound, FillsDone, TotalsAdd, FillIndexes
    <2>5. \A a \in Accounts, t \in Tokens : WalletAdds(a, t)' = WalletAdds(a, t)
      BY <2>1, <2>2, <2>3 DEF WalletAdds
    <2> QED
      BY <2>1, <2>4, <2>5 DEF JournalInv
  <1> QED
    BY <1>1, <1>2, <1>3, <1>4, <1>5, NextCases

\* The refund returns the unspent funding.
LEMMA RefundFacts ==
    ASSUME TypeInv, AllowanceIsFunded, SettleRoute
    PROVE  /\ balance' \in Wallets
           /\ \A a \in Accounts, t \in Tokens :
                balance'[a][t] =
                    work.balance[a][t]
                      + OnlyIf(t = RouteIn(CurrentRoute),
                               OnlyIf(a = CurrentRoute.refund, work.allowance)
                                 - OnlyIf(a = Executor, work.allowance))
  <1> DEFINE in == RouteIn(CurrentRoute)
             refund == CurrentRoute.refund
             left == work.allowance
             wallets == Move(work.balance, Executor, refund, in, left)
  <1>1. /\ work # Idle /\ balance' = Refunded
        /\ work.balance \in Wallets /\ Executor \in Accounts /\ refund \in Accounts
        /\ in \in Tokens /\ left \in Nat
        /\ balance[Executor][in] \in Nat
        /\ work.balance[Executor][in] = balance[Executor][in] + left
    BY RouteInProgress DEF SettleRoute, TypeInv, TypeOK, AllowanceIsFunded
  <1>2. \A a \in Accounts, t \in Tokens : work.balance[a][t] \in Nat
    BY <1>1 DEF Wallets
  <1>3. Refunded = IF left > 0 THEN wallets ELSE work.balance
    <2>1. work.balance[Executor][in] - balance[Executor][in] = left
      BY <1>1
    <2> HIDE DEF left
    <2> QED
      BY <2>1 DEF Refunded
  <1> HIDE DEF in, refund, left
  <1>4. CASE left > 0
    <2>1. left <= work.balance[Executor][in]
      BY <1>1
    <2>2. /\ wallets \in Wallets
          /\ \A a \in Accounts, t \in Tokens :
                wallets[a][t] =
                    IF t # in \/ Executor = refund \/ a \notin {Executor, refund}
                    THEN work.balance[a][t]
                    ELSE IF a = Executor THEN work.balance[a][t] - left
                    ELSE work.balance[a][t] + left
      BY <1>1, <2>1, MoveFacts
    <2>3. balance' = wallets
      BY <1>1, <1>3, <1>4
    <2> HIDE DEF wallets
    <2>4. \A a \in Accounts, t \in Tokens :
             wallets[a][t] = work.balance[a][t]
               + OnlyIf(t = in, OnlyIf(a = refund, left) - OnlyIf(a = Executor, left))
      <3> SUFFICES ASSUME NEW a \in Accounts, NEW t \in Tokens
                   PROVE  wallets[a][t] = work.balance[a][t]
                            + OnlyIf(t = in, OnlyIf(a = refund, left)
                                               - OnlyIf(a = Executor, left))
        OBVIOUS
      <3> DEFINE held == work.balance[a][t]
      <3>1. held \in Nat /\ left \in Nat
        BY <1>1, <1>2
      <3>2. wallets[a][t] =
               IF t # in \/ Executor = refund \/ a \notin {Executor, refund} THEN held
               ELSE IF a = Executor THEN held - left ELSE held + left
        BY <2>2
      <3> HIDE DEF held
      <3>3. wallets[a][t] = held + OnlyIf(t = in, OnlyIf(a = refund, left)
                                                    - OnlyIf(a = Executor, left))
        <4>1. CASE t = in /\ Executor # refund
          BY <3>1, <3>2, <4>1 DEF OnlyIf
        <4>2. CASE t = in /\ Executor = refund
          BY <3>1, <3>2, <4>2 DEF OnlyIf
        <4>3. CASE t # in
          BY <3>1, <3>2, <4>3 DEF OnlyIf
        <4> QED
          BY <4>1, <4>2, <4>3
      <3> QED
        BY <3>3 DEF held
    <2> QED
      BY <2>2, <2>3, <2>4 DEF in, refund, left
  <1>5. CASE ~(left > 0)
    <2>1. left = 0 /\ balance' = work.balance
      BY <1>1, <1>3, <1>5
    <2>2. \A a \in Accounts, t \in Tokens :
             work.balance[a][t] = work.balance[a][t]
               + OnlyIf(t = in, OnlyIf(a = refund, left) - OnlyIf(a = Executor, left))
      BY <1>2, <2>1 DEF OnlyIf
    <2> QED
      BY <1>1, <2>1, <2>2 DEF in, refund, left
  <1> QED
    BY <1>4, <1>5

\* The sums of AtomicRoutes are those of the lemmas.
LEMMA AtomicSum ==
    ASSUME NEW f, NEW S
    PROVE  Atomic!SumFunctionOnSet(f, S) = SumFunctionOnSet(f, S)
BY DEF Atomic!SumFunctionOnSet, SumFunctionOnSet, Atomic!FoldFunctionOnSet,
         FoldFunctionOnSet, Atomic!MapThenFoldSet, MapThenFoldSet

\* A route seen from AtomicRoutes when all of its fills are done.
LEMMA RouteIsDone ==
    ASSUME TypeInv, JournalInv, SettleRoute
    PROVE  /\ work # Idle /\ CurrentRoute = Route[work.call]
           /\ work' = Idle /\ stored' = work.stored /\ allocation' = work.allocation
           /\ work.next = Len(CurrentRoute.fills) + 1
           /\ Atomic!FillIndexes(CurrentRoute) = FillIndexes(work.call)
           /\ \A i \in FillIndexes(work.call) : i < work.next
           /\ Atomic!Filled(CurrentRoute) = Done
           /\ Atomic!RouteIn(CurrentRoute) = RouteIn(CurrentRoute)
           /\ Atomic!RouteOut(CurrentRoute) = RouteOut(CurrentRoute)
           /\ Atomic!Funding(CurrentRoute) = Funding(CurrentRoute)
           /\ Atomic!Received(RouteIn(CurrentRoute)) = Gained
           /\ Atomic!Delivered(RouteOut(CurrentRoute)) = Lost
  <1>1. /\ work # Idle /\ work' = Idle /\ ~FillsPending
        /\ stored' = work.stored /\ allocation' = work.allocation
    BY DEF SettleRoute
  <1>2. /\ work.next \in Nat /\ Len(CurrentRoute.fills) \in Nat
        /\ CurrentRoute.side \in Sides
    BY <1>1, RouteInProgress
  <1>3. work.next = Len(CurrentRoute.fills) + 1
    BY <1>1, <1>2 DEF JournalInv, RouteBound, FillsPending
  <1>4. /\ CurrentRoute = Route[work.call]
        /\ Atomic!FillIndexes(CurrentRoute) = FillIndexes(work.call)
        /\ FillIndexes(work.call) = 1 .. Len(CurrentRoute.fills)
    BY DEF CurrentRoute, FillIndexes, Atomic!FillIndexes
  <1>5. \A i \in FillIndexes(work.call) : i < work.next
    BY <1>2, <1>3, <1>4
  <1>6. Atomic!Filled(CurrentRoute) = Done
    BY <1>4, <1>5 DEF Atomic!Filled, Done
  <1>7. /\ Atomic!RouteIn(CurrentRoute) = RouteIn(CurrentRoute)
        /\ Atomic!RouteOut(CurrentRoute) = RouteOut(CurrentRoute)
        /\ Atomic!Funding(CurrentRoute) = Funding(CurrentRoute)
    BY DEF Atomic!RouteIn, Atomic!RouteOut, Atomic!Funding, RouteIn, RouteOut, Funding,
           TokenIn, TokenOut
  <1>8. /\ Atomic!Received(RouteIn(CurrentRoute)) = Gained
        /\ Atomic!Delivered(RouteOut(CurrentRoute)) = Lost
    BY <1>1 DEF Atomic!Received, Atomic!Delivered, Gained, Lost
  <1> QED
    BY <1>1, <1>3, <1>4, <1>5, <1>6, <1>7, <1>8

\* The wallet side of a settled route is that of AtomicRoutes.
LEMMA SettledWallets ==
    ASSUME TypeInv, WalletInv, JournalInv, SettleRoute, NEW a \in Accounts, NEW t \in Tokens
    PROVE  LET r == CurrentRoute
           IN  balance'[a][t] =
                 balance[a][t]
                   + OnlyIf(t = RouteIn(r),
                            SumFunctionOnSet(Gained, DoneBy(a))
                              - OnlyIf(a = r.payer, Funding(r))
                              + OnlyIf(a = r.refund,
                                       Funding(r) - SumFunctionOnSet(Gained, Done)))
                   + OnlyIf(t = RouteOut(r),
                            OnlyIf(a = r.recipient, SumFunctionOnSet(Lost, Done))
                              - SumFunctionOnSet(Lost, DoneBy(a)))
  <1> DEFINE r == CurrentRoute
             in == RouteIn(r)
             out == RouteOut(r)
             funding == Funding(r)
             gained == SumFunctionOnSet(Gained, DoneBy(a))
             lost == SumFunctionOnSet(Lost, DoneBy(a))
             left == work.allowance
             held == balance[a][t]
             kept == work.balance[a][t]
  <1>1. work # Idle
    BY DEF SettleRoute
  <1>2. /\ in \in Tokens /\ out \in Tokens /\ in # out /\ funding \in Nat /\ left \in Nat
        /\ work.amountIn \in Nat /\ work.amountOut \in Nat
        /\ kept \in Nat /\ held \in Nat
    BY <1>1, RouteInProgress DEF Wallets, TypeInv, TypeOK
  <1>3. gained \in Int /\ lost \in Int
    <2>1. /\ IsFiniteSet(DoneBy(a)) /\ DoneBy(a) \subseteq Positions
          /\ \A p \in Positions : Gained[p] \in Int /\ Lost[p] \in Int
      BY <1>1, DoneFacts
    <2> QED
      BY <2>1, SumInt
  <1>4. balance'[a][t] = kept + OnlyIf(t = in, OnlyIf(a = r.refund, left)
                                                 - OnlyIf(a = Executor, left))
    BY RefundFacts DEF WalletInv
  <1>5. kept = held + OnlyIf(t = in, gained - OnlyIf(a = r.payer, funding)
                                       + OnlyIf(a = Executor, left))
                    + OnlyIf(t = out, OnlyIf(a = r.recipient, work.amountOut) - lost)
    BY <1>1 DEF JournalInv, WalletAdds
  <1>6. /\ SumFunctionOnSet(Gained, Done) = work.amountIn
        /\ SumFunctionOnSet(Lost, Done) = work.amountOut
    BY <1>1 DEF JournalInv, TotalsAdd
  <1>7. left = funding - work.amountIn
    BY <1>1, <1>2 DEF WalletInv, AllowanceIsFunded
  <1> DEFINE moved == balance'[a][t]
             spent == work.amountIn
             got == work.amountOut
             payer == r.payer
             refund == r.refund
             recipient == r.recipient
  <1>8. /\ moved = kept + OnlyIf(t = in, OnlyIf(a = refund, left) - OnlyIf(a = Executor, left))
        /\ kept = held + OnlyIf(t = in, gained - OnlyIf(a = payer, funding)
                                          + OnlyIf(a = Executor, left))
                       + OnlyIf(t = out, OnlyIf(a = recipient, got) - lost)
        /\ left = funding - spent /\ spent \in Nat /\ got \in Nat
    BY <1>2, <1>4, <1>5, <1>7
  <1> HIDE DEF moved, spent, got, payer, refund, recipient, in, out, funding, gained, lost,
               left, held, kept
  <1>9. moved = held + OnlyIf(t = in, gained - OnlyIf(a = payer, funding)
                                        + OnlyIf(a = refund, funding - spent))
                     + OnlyIf(t = out, OnlyIf(a = recipient, got) - lost)
    <2>1. CASE t = in
      BY <1>2, <1>3, <1>8, <2>1 DEF OnlyIf
    <2>2. CASE t = out
      BY <1>2, <1>3, <1>8, <2>2 DEF OnlyIf
    <2>3. CASE t # in /\ t # out
      BY <1>2, <1>3, <1>8, <2>3 DEF OnlyIf
    <2> QED
      BY <2>1, <2>2, <2>3
  <1>10. SumFunctionOnSet(Gained, Done) = spent /\ SumFunctionOnSet(Lost, Done) = got
    BY <1>6 DEF spent, got
  <1> QED
    BY <1>9, <1>10 DEF moved, payer, refund, recipient, in, out, funding, gained, lost, held

\* Settling a route is one step of AtomicRoutes.
LEMMA SettleIsAtomic ==
    ASSUME TypeInv, WalletInv, JournalInv, SettleRoute
    PROVE  \E c \in Calls : Atomic!SettleRoute(c)
  <1> DEFINE r == CurrentRoute
             c == work.call
             in == RouteIn(r)
             out == RouteOut(r)
             version == [p \in Positions |-> stored[p].version]
  <1>1. /\ work # Idle /\ r = Route[c]
        /\ work' = Idle /\ stored' = work.stored /\ allocation' = work.allocation
        /\ \A i \in FillIndexes(c) : i < work.next
        /\ Atomic!FillIndexes(r) = FillIndexes(c)
        /\ Atomic!Filled(r) = Done
        /\ Atomic!RouteIn(r) = in /\ Atomic!RouteOut(r) = out
        /\ Atomic!Funding(r) = Funding(r)
        /\ Atomic!Received(in) = Gained /\ Atomic!Delivered(out) = Lost
    BY RouteIsDone
  <1>2. c \in Calls
    BY <1>1, RouteInProgress
  <1>3. RouteBound /\ FillsDone /\ TotalsAdd
    BY <1>1 DEF JournalInv
  <1>4. /\ settled' = [settled EXCEPT ![c] = @ + 1] /\ now' = now /\ WithinLimit
    BY DEF SettleRoute
  <1>5. now <= r.deadline
    BY <1>3 DEF RouteBound
  <1>6. /\ IsFiniteSet(Done) /\ Done \subseteq Positions
        /\ \A i \in FillIndexes(c) : r.fills[i].position \in Done
        /\ \A p \in Done : \E i \in FillIndexes(c) : p = r.fills[i].position
    BY <1>1, DoneFacts DEF Done
  <1>7. \A i \in FillIndexes(c) : version[r.fills[i].position] = r.fills[i].version
    BY <1>1, <1>3, <1>6 DEF FillsDone
  <1>8. \A i \in FillIndexes(c) :
           /\ Gained[r.fills[i].position] > 0 /\ Lost[r.fills[i].position] > 0
           /\ IF r.kind = "ExactInput" THEN Gained[r.fills[i].position] = r.fills[i].amount
                                       ELSE Lost[r.fills[i].position] = r.fills[i].amount
    BY <1>1, <1>3 DEF FillsDone
  <1>9. Atomic!Exchanged(Done, in, out)
    <2>1. [p \in Positions |-> stored'[p].version]
            = [p \in Positions |-> version[p] + Atomic!If(p \in Done, 1)]
      BY <1>1, <1>3 DEF FillsDone, Atomic!If, OnlyIf
    <2>2. \A p \in Done : Atomic!Received(in)[p] > 0 /\ Atomic!Delivered(out)[p] > 0
      BY <1>1, <1>6, <1>8
    <2>3. allocation' = [p \in Positions |-> [t \in Tokens |->
                           IF p \in Done /\ t \in {in, out} THEN allocation'[p][t]
                                                            ELSE allocation[p][t]]]
      <3>1. allocation' \in [Positions -> [Tokens -> Nat]]
        BY <1>1, RouteInProgress DEF Allocations
      <3>2. \A p \in Positions, t \in Tokens :
               p \notin Done \/ t \notin {in, out} => allocation'[p][t] = allocation[p][t]
        BY <1>1, <1>3 DEF FillsDone
      <3> HIDE DEF in, out
      <3> QED
        BY <3>1, <3>2
    <2> HIDE DEF in, out
    <2> QED
      BY <2>1, <2>2, <2>3 DEF Atomic!Exchanged, version
  <1>10. Atomic!Paid(Done, in, out, r.payer, Funding(r), r.recipient, r.refund)
    <2>1. balance' \in Wallets
      BY RefundFacts DEF WalletInv
    <2>2. \A a \in Accounts : {p \in Done : [q \in Positions |-> Config[q].maker][p] = a}
                                = DoneBy(a)
      BY <1>6 DEF DoneBy
    <2>3. \A a \in Accounts, t \in Tokens :
             balance'[a][t] =
               balance[a][t]
                 + OnlyIf(t = in, SumFunctionOnSet(Gained, DoneBy(a))
                                    - OnlyIf(a = r.payer, Funding(r))
                                    + OnlyIf(a = r.refund,
                                             Funding(r) - SumFunctionOnSet(Gained, Done)))
                 + OnlyIf(t = out, OnlyIf(a = r.recipient, SumFunctionOnSet(Lost, Done))
                                     - SumFunctionOnSet(Lost, DoneBy(a)))
      BY SettledWallets
    <2>4. \A condition, amount : Atomic!If(condition, amount) = OnlyIf(condition, amount)
      BY DEF Atomic!If, OnlyIf
    <2> DEFINE payer == r.payer
               refund == r.refund
               recipient == r.recipient
               funding == Funding(r)
    <2> HIDE DEF in, out, payer, refund, recipient, funding
    <2> DEFINE makers == [q \in Positions |-> Config[q].maker]
               share(f, a) == Atomic!SumFunctionOnSet(f, {p \in Done : makers[p] = a})
               totalIn == Atomic!SumFunctionOnSet(Atomic!Received(in), Done)
               totalOut == Atomic!SumFunctionOnSet(Atomic!Delivered(out), Done)
               entry(a, t) ==
                 balance[a][t]
                   + Atomic!If(t = in, share(Atomic!Received(in), a)
                                         - Atomic!If(a = payer, funding)
                                         + Atomic!If(a = refund, funding - totalIn))
                   + Atomic!If(t = out, Atomic!If(a = recipient, totalOut)
                                          - share(Atomic!Delivered(out), a))
    <2>5. Atomic!Paid(Done, in, out, payer, funding, recipient, refund)
            <=> balance' = [a \in Accounts |-> [t \in Tokens |-> entry(a, t)]]
      BY DEF Atomic!Paid
    <2>6. ASSUME NEW a \in Accounts, NEW t \in Tokens PROVE balance'[a][t] = entry(a, t)
      <3>1. /\ share(Atomic!Received(in), a) = SumFunctionOnSet(Gained, DoneBy(a))
            /\ share(Atomic!Delivered(out), a) = SumFunctionOnSet(Lost, DoneBy(a))
            /\ totalIn = SumFunctionOnSet(Gained, Done)
            /\ totalOut = SumFunctionOnSet(Lost, Done)
        BY <1>1, <2>2, AtomicSum DEF in, out
      <3> HIDE DEF share, totalIn, totalOut
      <3> QED
        BY <2>3, <2>4, <3>1 DEF payer, refund, recipient, funding
    <2> HIDE DEF entry
    <2>7. balance' = [a \in Accounts |-> [t \in Tokens |-> entry(a, t)]]
      BY <2>1, <2>6 DEF Wallets
    <2> QED
      BY <2>5, <2>7 DEF payer, refund, recipient, funding
  <1>11. IF r.kind = "ExactInput"
         THEN /\ \A i \in FillIndexes(c) : Gained[r.fills[i].position] = r.fills[i].amount
              /\ SumFunctionOnSet(Lost, Done) >= r.limit
         ELSE /\ \A i \in FillIndexes(c) : Lost[r.fills[i].position] = r.fills[i].amount
              /\ SumFunctionOnSet(Gained, Done) <= r.limit
    BY <1>3, <1>4, <1>8 DEF WithinLimit, TotalsAdd
  <1> HIDE DEF c, in, out
  <1>12. Atomic!SettleRoute(c)
    <2>1. /\ Atomic!SumFunctionOnSet(Atomic!Delivered(out), Done) = SumFunctionOnSet(Lost, Done)
          /\ Atomic!SumFunctionOnSet(Atomic!Received(in), Done) = SumFunctionOnSet(Gained, Done)
      BY <1>1, AtomicSum
    <2>2. /\ Atomic!RouteIn(Route[c]) = in /\ Atomic!RouteOut(Route[c]) = out
          /\ Atomic!Filled(Route[c]) = Done /\ Atomic!FillIndexes(Route[c]) = FillIndexes(c)
          /\ Atomic!Received(in) = Gained /\ Atomic!Delivered(out) = Lost
      BY <1>1
    <2>3. Atomic!Paid(Done, in, out, Route[c].payer, Atomic!Funding(Route[c]),
                      Route[c].recipient, Route[c].refund)
      BY <1>1, <1>10
    <2>4. /\ now <= Route[c].deadline
          /\ \A i \in FillIndexes(c) :
               version[Route[c].fills[i].position] = Route[c].fills[i].version
      BY <1>1, <1>5, <1>7
    <2>5. IF Route[c].kind = "ExactInput"
          THEN /\ \A i \in FillIndexes(c) :
                    Gained[Route[c].fills[i].position] = Route[c].fills[i].amount
               /\ SumFunctionOnSet(Lost, Done) >= Route[c].limit
          ELSE /\ \A i \in FillIndexes(c) :
                    Lost[Route[c].fills[i].position] = Route[c].fills[i].amount
               /\ SumFunctionOnSet(Gained, Done) <= Route[c].limit
      BY <1>1, <1>11
    <2>6. /\ settled' = [settled EXCEPT ![c] = @ + 1] /\ now' = now
          /\ Atomic!Exchanged(Done, in, out)
      BY <1>4, <1>9
    <2> DEFINE q == Route[c]
               P == Atomic!Filled(q)
               i1 == Atomic!RouteIn(q)
               o1 == Atomic!RouteOut(q)
    <2>7. P = Done /\ i1 = in /\ o1 = out /\ Atomic!FillIndexes(q) = FillIndexes(c)
      BY <2>2
    <2>8. /\ \A i \in Atomic!FillIndexes(q) : version[q.fills[i].position] = q.fills[i].version
          /\ now <= q.deadline
      BY <2>4, <2>7
    <2>9. /\ Atomic!Exchanged(P, i1, o1)
          /\ Atomic!Paid(P, i1, o1, q.payer, Atomic!Funding(q), q.recipient, q.refund)
      <3> HIDE DEF P, i1, o1
      <3>1. Atomic!Exchanged(P, i1, o1)
        BY <2>6, <2>7 DEF Atomic!Exchanged
      <3>2. Atomic!Paid(P, i1, o1, q.payer, Atomic!Funding(q), q.recipient, q.refund)
        BY <2>3, <2>7 DEF Atomic!Paid
      <3> QED
        BY <3>1, <3>2
    <2>10. IF q.kind = "ExactInput"
           THEN /\ \A i \in Atomic!FillIndexes(q) :
                     Atomic!Received(i1)[q.fills[i].position] = q.fills[i].amount
                /\ Atomic!SumFunctionOnSet(Atomic!Delivered(o1), P) >= q.limit
           ELSE /\ \A i \in Atomic!FillIndexes(q) :
                     Atomic!Delivered(o1)[q.fills[i].position] = q.fills[i].amount
                /\ Atomic!SumFunctionOnSet(Atomic!Received(i1), P) <= q.limit
      BY <2>1, <2>2, <2>5, <2>7
    <2> HIDE DEF r
    <2> QED
      BY <2>6, <2>8, <2>9, <2>10 DEF Atomic!SettleRoute, version
  <1> QED
    BY <1>2, <1>12

LEMMA SumOfOne ==
    ASSUME NEW f, NEW x, f[x] \in Int
    PROVE  SumFunctionOnSet(f, {x}) = f[x]
  <1>1. IsFiniteSet({x})
    BY FS_Singleton
  <1>2. SumFunctionOnSet(f, {x}) = f[x] + SumFunctionOnSet(f, {x} \ {x})
    BY <1>1, SumRemove
  <1>3. {x} \ {x} = {}
    OBVIOUS
  <1> QED
    BY <1>2, <1>3, NoSum

\* A swap without the executor is one step of AtomicRoutes.
LEMMA DirectIsAtomic ==
    ASSUME TypeInv, NEW taker \in DirectTakers, NEW p \in Positions, NEW side \in Sides,
           NEW kind \in Kinds, NEW raw \in DirectAmounts,
           SwapDirectly(taker, p, side, kind, raw)
    PROVE  Atomic!SwapDirectly(taker, p, SideIn(Config[p], side), SideOut(Config[p], side))
  <1> DEFINE in == SideIn(Config[p], side)
             out == SideOut(Config[p], side)
             maker == Config[p].maker
             received == Atomic!Received(in)
             delivered == Atomic!Delivered(out)
  <1>1. /\ in \in Tokens /\ out \in Tokens /\ in # out /\ maker \in Accounts
        /\ taker \in Accounts
    BY PositionFacts, SettlementAssumption
  <1>2. TypeOK
    BY DEF TypeInv
  <1>3. PICK runtime, entry, fill :
           /\ runtime \in Runtimes /\ entry \in [Tokens -> Nat]
           /\ runtime.initialized /\ runtime.version = stored[p].version + 1
           /\ stored' = [stored EXCEPT ![p] = runtime]
           /\ allocation' = [allocation EXCEPT ![p] = entry]
           /\ balance' \in Wallets
           /\ fill.amountIn \in Nat \ {0} /\ fill.amountOut \in Nat \ {0}
           /\ Entered(entry, allocation[p], in, out, fill)
           /\ Moved(balance', balance, in, out, taker, taker, maker, fill)
    BY <1>2, DirectFacts
  <1>4. settled' = settled /\ now' = now
    BY DEF SwapDirectly
  <1>5. /\ stored \in [Positions -> Runtimes] /\ allocation \in Allocations
        /\ balance \in Wallets
        /\ \A q \in Positions : stored[q].version \in Nat
        /\ \A t \in Tokens : allocation[p][t] \in Nat
    BY <1>2 DEF TypeOK, Allocations, Wallets, Runtimes
  <1>6. /\ allocation' \in [Positions -> [Tokens -> Nat]]
        /\ allocation'[p] = entry
        /\ \A q \in Positions \ {p} : allocation'[q] = allocation[q]
    BY <1>3, <1>5 DEF Allocations
  <1>7. received[p] = fill.amountIn /\ delivered[p] = fill.amountOut
    <2>1. received[p] = allocation'[p][in] - allocation[p][in]
      BY DEF Atomic!Received
    <2>2. delivered[p] = allocation[p][out] - allocation'[p][out]
      BY DEF Atomic!Delivered
    <2> HIDE DEF in, out, received, delivered
    <2>3. entry[in] = allocation[p][in] + fill.amountIn
      BY <1>1, <1>3, <1>5 DEF Entered, OnlyIf
    <2>4. entry[out] = allocation[p][out] - fill.amountOut
      BY <1>1, <1>3, <1>5 DEF Entered, OnlyIf
    <2> QED
      BY <1>1, <1>3, <1>5, <1>6, <2>1, <2>2, <2>3, <2>4
  <1> HIDE DEF in, out, maker
  <1>8. Atomic!Exchanged({p}, in, out)
    <2>1. [q \in Positions |-> stored'[q].version]
            = [q \in Positions |-> [r \in Positions |-> stored[r].version][q]
                                     + Atomic!If(q \in {p}, 1)]
      BY <1>3, <1>5 DEF Atomic!If
    <2>2. \A q \in {p} : Atomic!Received(in)[q] > 0 /\ Atomic!Delivered(out)[q] > 0
      BY <1>3, <1>7
    <2>3. allocation' = [q \in Positions |-> [t \in Tokens |->
                           IF q \in {p} /\ t \in {in, out} THEN allocation'[q][t]
                                                           ELSE allocation[q][t]]]
      <3>1. \A t \in Tokens : t \notin {in, out} => allocation'[p][t] = allocation[p][t]
        BY <1>3, <1>5, <1>6 DEF Entered, OnlyIf
      <3> QED
        BY <1>6, <3>1
    <2> QED
      BY <2>1, <2>2, <2>3 DEF Atomic!Exchanged
  <1>9. Atomic!Paid({p}, in, out, taker, received[p], taker, taker)
    <2> DEFINE makers == [q \in Positions |-> Config[q].maker]
               share(f, a) == Atomic!SumFunctionOnSet(f, {q \in {p} : makers[q] = a})
               totalIn == Atomic!SumFunctionOnSet(Atomic!Received(in), {p})
               totalOut == Atomic!SumFunctionOnSet(Atomic!Delivered(out), {p})
               charge == received[p]
               wallet(a, t) ==
                 balance[a][t]
                   + Atomic!If(t = in, share(Atomic!Received(in), a)
                                         - Atomic!If(a = taker, charge)
                                         + Atomic!If(a = taker, charge - totalIn))
                   + Atomic!If(t = out, Atomic!If(a = taker, totalOut)
                                          - share(Atomic!Delivered(out), a))
    <2> HIDE DEF charge
    <2>1. Atomic!Paid({p}, in, out, taker, charge, taker, taker)
            <=> balance' = [a \in Accounts |-> [t \in Tokens |-> wallet(a, t)]]
      BY DEF Atomic!Paid
    <2>2. totalIn = fill.amountIn /\ totalOut = fill.amountOut /\ charge = fill.amountIn
      <3>1. received[p] \in Int /\ delivered[p] \in Int
        BY <1>3, <1>7
      <3>2. totalIn = SumFunctionOnSet(received, {p}) /\ totalOut = SumFunctionOnSet(delivered, {p})
        BY AtomicSum
      <3> HIDE DEF received, delivered, totalIn, totalOut
      <3> QED
        BY <1>7, <3>1, <3>2, SumOfOne DEF charge
    <2>3. ASSUME NEW a \in Accounts
          PROVE  /\ share(Atomic!Received(in), a) = OnlyIf(a = maker, fill.amountIn)
                 /\ share(Atomic!Delivered(out), a) = OnlyIf(a = maker, fill.amountOut)
      <3>1. makers[p] = maker
        BY DEF maker
      <3>2. CASE a = maker
        <4>1. {q \in {p} : makers[q] = a} = {p}
          BY <3>1, <3>2
        <4>2. /\ share(Atomic!Received(in), a) = totalIn
              /\ share(Atomic!Delivered(out), a) = totalOut
          BY <4>1
        <4> HIDE DEF totalIn, totalOut, share
        <4> QED
          BY <2>2, <3>2, <4>2 DEF OnlyIf
      <3>3. CASE a # maker
        <4>1. {q \in {p} : makers[q] = a} = {}
          BY <3>1, <3>3
        <4>2. /\ share(Atomic!Received(in), a) = 0
              /\ share(Atomic!Delivered(out), a) = 0
          BY <4>1, AtomicSum, NoSum
        <4> HIDE DEF share
        <4> QED
          BY <3>3, <4>2 DEF OnlyIf
      <3> QED
        BY <3>2, <3>3
    <2>4. \A condition, amount : Atomic!If(condition, amount) = OnlyIf(condition, amount)
      BY DEF Atomic!If, OnlyIf
    <2>5. ASSUME NEW a \in Accounts, NEW t \in Tokens PROVE balance'[a][t] = wallet(a, t)
      <3> DEFINE gained == share(Atomic!Received(in), a)
                 lost == share(Atomic!Delivered(out), a)
                 held == balance[a][t]
                 moved == balance'[a][t]
                 spent == fill.amountIn
                 got == fill.amountOut
      <3>1. wallet(a, t) =
              held + OnlyIf(t = in, gained - OnlyIf(a = taker, charge)
                                      + OnlyIf(a = taker, charge - totalIn))
                   + OnlyIf(t = out, OnlyIf(a = taker, totalOut) - lost)
        BY <2>4
      <3>2. moved = held + OnlyIf(t = in, OnlyIf(a = maker, spent) - OnlyIf(a = taker, spent))
                         + OnlyIf(t = out, OnlyIf(a = taker, got) - OnlyIf(a = maker, got))
        BY <1>3 DEF Moved
      <3>3. /\ gained = OnlyIf(a = maker, spent) /\ lost = OnlyIf(a = maker, got)
            /\ totalIn = spent /\ totalOut = got /\ charge = spent
            /\ spent \in Nat /\ got \in Nat /\ held \in Nat
        BY <1>3, <1>5, <2>2, <2>3 DEF Wallets
      <3> HIDE DEF wallet, gained, lost, held, spent, got, totalIn, totalOut, moved
      <3>4. moved = wallet(a, t)
        <4>1. CASE t = in
          BY <1>1, <3>1, <3>2, <3>3, <4>1 DEF OnlyIf
        <4>2. CASE t = out
          BY <1>1, <3>1, <3>2, <3>3, <4>2 DEF OnlyIf
        <4>3. CASE t # in /\ t # out
          BY <3>1, <3>2, <3>3, <4>3 DEF OnlyIf
        <4> QED
          BY <4>1, <4>2, <4>3
      <3> QED
        BY <3>4 DEF moved
    <2> HIDE DEF wallet
    <2>6. balance' = [a \in Accounts |-> [t \in Tokens |-> wallet(a, t)]]
      BY <1>3, <2>5 DEF Wallets
    <2> QED
      BY <2>1, <2>6 DEF charge
  <1>10. Atomic!SwapDirectly(taker, p, in, out)
    BY <1>4, <1>8, <1>9 DEF Atomic!SwapDirectly
  <1> QED
    BY <1>10 DEF in, out

\* Plain transfers and pushes by others than the maker.
LEMMA MoveIsAtomic ==
    ASSUME TypeOK, NEW from \in Accounts, NEW to \in Accounts, NEW token \in Tokens,
           NEW amount \in Nat, from # to, from # Executor, amount > 0,
           amount <= balance[from][token],
           balance' = Move(balance, from, to, token, amount),
           stored' = stored, settled' = settled, now' = now,
           \/ allocation' = allocation
           \/ \E p \in Positions :
                 /\ to = Config[p].maker
                 /\ allocation' = [allocation EXCEPT ![p][token] = @ + amount]
    PROVE  Atomic!Transfer(from, to, token)
  <1>1. balance \in Wallets
    BY DEF TypeOK, Wallets
  <1>2. /\ balance' \in Wallets
        /\ \A a \in Accounts, t \in Tokens :
              balance'[a][t] =
                IF t # token \/ from = to \/ a \notin {from, to} THEN balance[a][t]
                ELSE IF a = from THEN balance[a][t] - amount
                ELSE balance[a][t] + amount
    BY <1>1, MoveFacts
  <1>3. \A a \in Accounts, t \in Tokens : balance[a][t] \in Nat
    BY <1>1 DEF Wallets
  <1>4. balance[from][token] - balance'[from][token] = amount
    BY <1>2, <1>3
  <1>5. balance' = [balance EXCEPT ![from][token] = @ - amount, ![to][token] = @ + amount]
    BY DEF Move, Credited, Debit
  <1>6. \/ allocation' = allocation
        \/ \E p \in Positions : /\ to = [q \in Positions |-> Config[q].maker][p]
                                /\ allocation' = [allocation EXCEPT ![p][token] = @ + amount]
    OBVIOUS
  <1>7. [p \in Positions |-> stored'[p].version] = [p \in Positions |-> stored[p].version]
    OBVIOUS
  <1> QED
    BY <1>4, <1>5, <1>6, <1>7 DEF Atomic!Transfer

LEMMA ManageIsAtomic ==
    ASSUME NEW p \in Positions, allocation' \in Allocations, allocation \in Allocations,
           \A q \in Positions \ {p} : allocation'[q] = allocation[q],
           stored' = stored, balance' = balance, settled' = settled, now' = now
    PROVE  Atomic!Manage(p)
  <1>1. allocation' = [allocation EXCEPT ![p] = allocation'[p]]
    BY DEF Allocations
  <1>2. [q \in Positions |-> stored'[q].version] = [q \in Positions |-> stored[q].version]
    OBVIOUS
  <1> QED
    BY <1>1, <1>2 DEF Atomic!Manage

LEMMA PushIsAtomic ==
    ASSUME TypeInv, TypeInv', NEW from \in Senders, NEW p \in Positions, NEW token \in Tokens,
           NEW amount \in TransferAmounts, Push(from, p, token, amount)
    PROVE  Atomic!Next
  <1> DEFINE maker == Config[p].maker
  <1>1. /\ from \in Accounts /\ amount \in Nat /\ maker \in Accounts
    BY SettlementAssumption
  <1>2. TypeOK /\ allocation \in Allocations /\ allocation' \in Allocations /\ balance \in Wallets
    BY DEF TypeInv, TypeOK, Allocations, Wallets
  <1>3. /\ from # Executor /\ amount > 0 /\ amount <= balance[from][token]
        /\ balance' = Move(balance, from, maker, token, amount)
        /\ allocation' = [allocation EXCEPT ![p][token] = @ + amount]
        /\ stored' = stored /\ settled' = settled /\ now' = now
    BY DEF Push, CanSpend, ExternalStep
  <1>4. CASE from # maker
    <2>1. Atomic!Transfer(from, maker, token)
      BY <1>1, <1>2, <1>3, <1>4, MoveIsAtomic
    <2> QED
      BY <1>1, <1>4, <2>1 DEF Atomic!Next
  <1>5. CASE from = maker
    <2>1. /\ balance' \in Wallets
          /\ \A a \in Accounts, t \in Tokens : balance'[a][t] = balance[a][t]
      BY <1>1, <1>2, <1>3, <1>5, MoveFacts
    <2>2. balance' = balance
      BY <1>2, <2>1 DEF Wallets
    <2>3. Atomic!Manage(p)
      BY <1>2, <1>3, <2>2, ManageIsAtomic DEF Allocations
    <2> QED
      BY <2>3 DEF Atomic!Next
  <1> QED
    BY <1>4, <1>5

\* Everyone else's transactions are steps of AtomicRoutes, or change nothing
\* that it speaks of.
LEMMA OthersAreAtomic ==
    ASSUME TypeInv, Others
    PROVE  Atomic!Next \/ UNCHANGED Atomic!vars
  <1>1. TypeInv' /\ settled' = settled
    BY OthersKeepType
  <1>2. TypeOK /\ allocation \in Allocations /\ allocation' \in Allocations
    BY <1>1 DEF TypeInv, TypeOK, Allocations
  <1>3. ASSUME NEW taker \in DirectTakers, NEW p \in Positions, NEW side \in Sides,
               NEW kind \in Kinds, NEW raw \in DirectAmounts,
               SwapDirectly(taker, p, side, kind, raw)
        PROVE  Atomic!Next
    <2>1. Atomic!SwapDirectly(taker, p, SideIn(Config[p], side), SideOut(Config[p], side))
      BY <1>3, DirectIsAtomic
    <2>2. /\ SideIn(Config[p], side) \in Tokens /\ SideOut(Config[p], side) \in Tokens
          /\ SideIn(Config[p], side) # SideOut(Config[p], side)
          /\ taker \in Accounts \ {Executor}
      BY PositionFacts, SettlementAssumption
    <2> QED
      BY <2>1, <2>2 DEF Atomic!Next
  <1>4. ASSUME NEW p \in Positions, NEW b \in ShipAmounts, NEW q \in ShipAmounts, Ship(p, b, q)
        PROVE  Atomic!Next
    <2>1. Atomic!Manage(p)
      BY <1>2, <1>4, ManageIsAtomic DEF Ship, Allocations
    <2> QED
      BY <2>1 DEF Atomic!Next
  <1>5. ASSUME NEW p \in Positions, Dock(p)
        PROVE  Atomic!Next
    <2>1. Atomic!Manage(p)
      BY <1>2, <1>5, ManageIsAtomic DEF Dock, Allocations
    <2> QED
      BY <2>1 DEF Atomic!Next
  <1>6. ASSUME NEW from \in Senders, NEW to \in Accounts, NEW token \in Tokens,
               NEW amount \in TransferAmounts, Transfer(from, to, token, amount)
        PROVE  Atomic!Next
    <2>1. from \in Accounts /\ amount \in Nat
      BY SettlementAssumption
    <2>2. /\ from # to /\ from # Executor /\ amount > 0 /\ amount <= balance[from][token]
          /\ balance' = Move(balance, from, to, token, amount)
          /\ stored' = stored /\ settled' = settled /\ now' = now /\ allocation' = allocation
      BY <1>6 DEF Transfer, CanSpend, ExternalStep
    <2>3. Atomic!Transfer(from, to, token)
      BY <1>2, <2>1, <2>2, MoveIsAtomic
    <2> QED
      BY <2>1, <2>2, <2>3 DEF Atomic!Next
  <1>7. ASSUME NEW from \in Senders, NEW p \in Positions, NEW token \in Tokens,
               NEW amount \in TransferAmounts, Push(from, p, token, amount)
        PROVE  Atomic!Next
    BY <1>1, <1>7, PushIsAtomic
  <1>8. ASSUME NEW p \in Positions, NEW token \in Tokens, SetApproval(Config[p].maker, token)
        PROVE  UNCHANGED Atomic!vars
    BY <1>8 DEF SetApproval, Atomic!vars
  <1>9. ASSUME Tick
        PROVE  Atomic!Next
    <2>1. now' > now /\ UNCHANGED <<stored, allocation, balance, settled>>
      BY <1>2, <1>9 DEF Tick, TypeOK
    <2>2. [q \in Positions |-> stored'[q].version] = [q \in Positions |-> stored[q].version]
      BY <2>1
    <2>3. Atomic!Tick
      BY <2>1, <2>2 DEF Atomic!Tick
    <2> QED
      BY <2>3 DEF Atomic!Next
  <1> QED
    BY <1>3, <1>4, <1>5, <1>6, <1>7, <1>8, <1>9 DEF Others

\* A route in progress is invisible until it settles, and all of its steps at
\* once then are one step.
LEMMA NextIsAtomic ==
    ASSUME TypeInv, WalletInv, JournalInv, [Next]_vars
    PROVE  Atomic!Next \/ UNCHANGED Atomic!vars
  <1>1. CASE (\E c \in Calls : BeginRoute(c)) \/ FillNext \/ RevertRoute \/ UNCHANGED vars
    <2>1. UNCHANGED <<stored, allocation, balance, settled, now>>
      BY <1>1 DEF BeginRoute, FillNext, RevertRoute, vars
    <2> QED
      BY <2>1 DEF Atomic!vars
  <1>2. CASE SettleRoute
    BY <1>2, SettleIsAtomic DEF Atomic!Next
  <1>3. CASE Others
    BY <1>3, OthersAreAtomic
  <1> QED
    BY <1>1, <1>2, <1>3, NextCases

LEMMA InitIsAtomic ==
    ASSUME Init
    PROVE  Atomic!Init
  <1>1. [p \in Positions |-> stored[p].version] = [p \in Positions |-> 0]
    BY DEF Init, Unset
  <1>2. balance \in [Accounts -> [Tokens -> Nat]] /\ now \in Nat
    BY SettlementAssumption DEF Init
  <1> QED
    BY <1>1, <1>2 DEF Init, Atomic!Init

\* The executor's journal, the fills one by one, the refund, the shared makers
\* and whatever else runs between two routes amount to AtomicRoutes: a signed
\* call settles completely, at the versions and within the limit and deadline
\* that it names, with every wallet charged and paid what the positions record,
\* or it changes nothing.
THEOREM SettlementIsAtomic == Spec => ImplementsAtomicRoutes
  <1> DEFINE IInv == TypeInv /\ VersionInv /\ OneRoutePerVersion /\ WalletInv
                       /\ JournalInv
  <1>1. Init => IInv
    BY InitTypeInv, InitVersionInv DEF Init, WalletInv, AllowanceIsFunded, JournalInv
  <1>2. IInv /\ [Next]_vars => IInv'
    BY NextKeepsType, NextKeepsVersions, NextKeepsWallet, NextKeepsJournal
  <1>3. Init => Atomic!Init
    BY InitIsAtomic
  <1>4. IInv /\ [Next]_vars => [Atomic!Next]_(Atomic!vars)
    BY NextIsAtomic
  <1> QED
    BY <1>1, <1>2, <1>3, <1>4, PTL DEF Spec, ImplementsAtomicRoutes, Atomic!Spec
=============================================================================
