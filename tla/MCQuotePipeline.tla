-------------------------- MODULE MCQuotePipeline --------------------------
(***************************************************************************)
(* Values of QuotePipeline for TLC: three positions of two makers, and a    *)
(* few transactions that reorder, drain, dock or unback them.               *)
(***************************************************************************)
EXTENDS QuotePipeline

CONSTANTS m1, m2

MCPositions == 1 .. 3
MCMakers == {m1, m2}
MCMakerOf == <<m1, m1, m2>>
MCCapacity == <<4, 3, 4>>

\* The first side starts best and falls behind the second once it sells.
MCPrice(p, sold) == (<<9, 8, 6>>)[p] - sold

\* A worse rate for the taker after each sale.
MCCounter(kind, p, sold, raw) ==
    IF kind = "ExactInput" THEN raw * ((<<9, 8, 6>>)[p] - sold)
                           ELSE raw * ((<<4, 4, 5>>)[p] + sold)

\* The first side has sold a little, so that a fill of the other side improves it.
MCSold == <<1, 0, 0>>

MCOutgoing(p, sold) == 5 * (MCCapacity[p] - sold)
MCFunds == [m \in MCMakers |-> IF m = m1 THEN 35 ELSE 20]

MCTransactions ==
    {[type |-> "Take", position |-> 2, amount |-> 3],
     [type |-> "Recycle", position |-> 1, amount |-> 1], [type |-> "Dock", position |-> 3],
     [type |-> "Withdraw", maker |-> m1], [type |-> "Empty"]}

MCRequests ==
    {[kind |-> "ExactInput", amount |-> 2, slippageBps |-> 0, simulate |-> TRUE],
     [kind |-> "ExactOutput", amount |-> 4, slippageBps |-> 50, simulate |-> FALSE]}
=============================================================================
