----------------------------- MODULE MCFrontend -----------------------------
(***************************************************************************)
(* Values of Frontend for TLC.                                              *)
(***************************************************************************)
EXTENDS Frontend

CONSTANTS a1, a2, o1, o2, bad, s1, s2, c1, c2

MCTickets ==
    {[order |-> o1, slippage |-> s1], [order |-> o1, slippage |-> s2],
     [order |-> o2, slippage |-> s1], [order |-> bad, slippage |-> s1]}

MCInitialTicket == [order |-> o1, slippage |-> s1]

Session(times) ==
    [a \in UserActions |-> IF a \in DOMAIN times THEN times[a] ELSE 0]

\* A taker who edits the ticket and switches accounts; one who clicks twice; a
\* maker who reviews and publishes repeatedly, or from another account; one who
\* leaves the studio or reloads the page, and publishes again; one who docks and
\* replaces what was published.
MCSessions ==
    {Session([ticket |-> 2, wallet |-> 1, execute |-> 1]),
     Session([execute |-> 2, reload |-> 1]),
     Session([draft |-> 1, close |-> 1, review |-> 2, publish |-> 2]),
     Session([wallet |-> 1, review |-> 1, publish |-> 2]),
     Session([navigate |-> 2, review |-> 2, publish |-> 2]),
     Session([reload |-> 1, review |-> 2, publish |-> 2]),
     Session([wallet |-> 1, navigate |-> 1, review |-> 1, publish |-> 1, dock |-> 1,
              replace |-> 1])}
=============================================================================
