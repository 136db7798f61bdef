---------------------------- MODULE AtomicRoutes ----------------------------
(***************************************************************************)
(* What Liquid OB promises to takers and makers, without curves, wallets'  *)
(* approvals or the steps of a transaction: a signed call either settles   *)
(* completely, at the runtime versions it was quoted at, within its limit  *)
(* and before its deadline, or it changes nothing.                         *)
(*                                                                         *)
(* Settlement implements this specification: see Settlement!Atomic.        *)
(***************************************************************************)
EXTENDS Integers, Sequences, Functions

CONSTANTS
    Accounts,    \* every wallet, the executor's included
    Executor,    \* the wallet of LiquidOBBatchExecutor
    Tokens,
    Positions,
    Maker,       \* Positions -> Accounts
    Calls,       \* the signed route calls that may be submitted
    Route        \* Calls -> the calldata of the call

VARIABLES
    version,      \* runtime version of every position
    allocation,   \* Aqua's balance per position and token
    balance,      \* ERC-20 balances
    settled,      \* how often each call has settled
    now           \* block.timestamp

vars == <<version, allocation, balance, settled, now>>

FillIndexes(r) == 1 .. Len(r.fills)
Filled(r) == {r.fills[i].position : i \in FillIndexes(r)}

RouteIn(r) == IF r.side = "Sell" THEN r.quote ELSE r.base
RouteOut(r) == IF r.side = "Sell" THEN r.base ELSE r.quote

\* The amount the executor collects up front.
Funding(r) == IF r.kind = "ExactInput" THEN r.amount ELSE r.limit

If(condition, amount) == IF condition THEN amount ELSE 0

Init ==
    /\ version = [p \in Positions |-> 0]
    /\ allocation = [p \in Positions |-> [t \in Tokens |-> 0]]
    /\ balance \in [Accounts -> [Tokens -> Nat]]
    /\ settled = [c \in Calls |-> 0]
    /\ now \in Nat

\* What each position receives or delivers of a token.
Received(token) == [p \in Positions |-> allocation'[p][token] - allocation[p][token]]
Delivered(token) == [p \in Positions |-> allocation[p][token] - allocation'[p][token]]

\* The positions of a set exchange in for out.
Exchanged(P, in, out) ==
    /\ version' = [p \in Positions |-> version[p] + If(p \in P, 1)]
    /\ \A p \in P : Received(in)[p] > 0 /\ Delivered(out)[p] > 0
    /\ allocation' = [p \in Positions |-> [t \in Tokens |->
                        IF p \in P /\ t \in {in, out} THEN allocation'[p][t]
                                                      ELSE allocation[p][t]]]

\* The wallet side of an exchange: makers receive what their positions are
\* credited and deliver what they are debited; the payer is charged charge,
\* of which what the positions did not receive goes to refund.
Paid(P, in, out, payer, charge, recipient, refund) ==
    LET totalIn  == SumFunctionOnSet(Received(in), P)
        totalOut == SumFunctionOnSet(Delivered(out), P)
        OfMaker(a) == {p \in P : Maker[p] = a}
    IN  balance' =
          [a \in Accounts |-> [t \in Tokens |->
             balance[a][t]
               + If(t = in, SumFunctionOnSet(Received(in), OfMaker(a))
                              - If(a = payer, charge)
                              + If(a = refund, charge - totalIn))
               + If(t = out, If(a = recipient, totalOut)
                              - SumFunctionOnSet(Delivered(out), OfMaker(a)))]]

\* A whole route in one step.
SettleRoute(c) ==
    LET r   == Route[c]
        P   == Filled(r)
        in  == RouteIn(r)
        out == RouteOut(r)
    IN  /\ settled' = [settled EXCEPT ![c] = @ + 1]
        /\ UNCHANGED now
        /\ now <= r.deadline
        /\ \A i \in FillIndexes(r) : version[r.fills[i].position] = r.fills[i].version
        /\ Exchanged(P, in, out)
        /\ Paid(P, in, out, r.payer, Funding(r), r.recipient, r.refund)
        /\ IF r.kind = "ExactInput"
           THEN /\ \A i \in FillIndexes(r) :
                     Received(in)[r.fills[i].position] = r.fills[i].amount
                /\ SumFunctionOnSet(Delivered(out), P) >= r.limit
           ELSE /\ \A i \in FillIndexes(r) :
                     Delivered(out)[r.fills[i].position] = r.fills[i].amount
                /\ SumFunctionOnSet(Received(in), P) <= r.limit

\* A taker that swaps one position without the executor.
SwapDirectly(taker, p, in, out) ==
    /\ UNCHANGED <<settled, now>>
    /\ Exchanged({p}, in, out)
    /\ Paid({p}, in, out, taker, Received(in)[p], taker, taker)

\* The maker publishes, docks or tops up a position: no token moves.
Manage(p) ==
    /\ UNCHANGED <<version, balance, settled, now>>
    /\ allocation' = [allocation EXCEPT ![p] = allocation'[p]]

\* Anyone but the executor moves tokens, plainly or as credit to a position.
Transfer(from, to, token) ==
    LET amount == balance[from][token] - balance'[from][token]
    IN  /\ UNCHANGED <<version, settled, now>>
        /\ from # Executor /\ amount > 0
        /\ balance' = [balance EXCEPT ![from][token] = @ - amount, ![to][token] = @ + amount]
        /\ \/ UNCHANGED allocation
           \/ \E p \in Positions : /\ to = Maker[p]
                                   /\ allocation' = [allocation EXCEPT ![p][token] = @ + amount]

Tick == now' > now /\ UNCHANGED <<version, allocation, balance, settled>>

Next ==
    \/ \E c \in Calls : SettleRoute(c)
    \/ \E p \in Positions, taker \in Accounts \ {Executor}, in, out \in Tokens :
         in # out /\ SwapDirectly(taker, p, in, out)
    \/ \E p \in Positions : Manage(p)
    \/ \E from, to \in Accounts, token \in Tokens : from # to /\ Transfer(from, to, token)
    \/ Tick

Spec == Init /\ [][Next]_vars
=============================================================================
