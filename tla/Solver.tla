------------------------------- MODULE Solver -------------------------------
(***************************************************************************)
(* Route optimization (packages/solver-core/src/solver.ts).  A fixed amount *)
(* is split over the eligible sides of a market so that their marginal      *)
(* rates meet: two nested binary searches find, for a rate, how much each   *)
(* side gives at that rate or better, and the rate at which the market      *)
(* gives the amount.  While the split uses more than maxFills positions,    *)
(* the one whose removal costs least is removed and the rest solved again.  *)
(*                                                                         *)
(* A candidate is a record of its fields in the code; its positionKey is a  *)
(* number, in the order of localeCompare.  Each turn of the removal loop is *)
(* one step.                                                               *)
(***************************************************************************)
EXTENDS QuoteMath, Sequences, FiniteSets, SequencesExt, FiniteSetsExt

CONSTANT Requests   \* [market, side, kind, amount, maxFills, reserveCount, candidates]

\* The fields of a candidate are integers, and its curve is a compiled one.
WellFormed(c) ==
    /\ c.key \in Nat
    /\ c.curve.kappa \in Nat \ {0} /\ (c.curve.branch = "Flat" \/ c.curve.mu \in 1 .. WAD - 1)
    /\ c.state.y \in Int /\ c.state.yInt \in Int

ASSUME SolverAssumption ==
    \A r \in Requests :
        /\ r.kind \in Kinds /\ r.amount \in Int /\ r.reserveCount \in Int
        /\ r.candidates \in Seq(ToSet(r.candidates))
        /\ \A c \in ToSet(r.candidates) : WellFormed(c)

VARIABLES
    request,     \* the SolveRequest being served
    available,   \* candidates the removal loop still considers
    solution,    \* the split over them, or None before the first
    reserves,    \* reserve shortlist of the certificate
    outcome      \* Pending, Route, or the code of the error thrown

vars == <<request, available, solution, reserves, outcome>>

Outcomes == {"Pending", "Route", "InvalidRequest", "DuplicateCandidate",
             "InsufficientLiquidity", "MaxFillsExceeded", "Crash"}

None == [status |-> "None"]
Thrown(status) == [status |-> status]

\* Result of a search that evaluated a quote which throws.
Crash == -1
-----------------------------------------------------------------------------
(* Candidates and their metrics.                                            *)

\* Mutant of Admitted: the backing is not looked at.
AdmittedUnbacked(c, r) ==
    c.market = r.market /\ c.side = r.side /\ c.active /\ c.state.y > 0

\* rejectionFor finds nothing to say.
Admitted(c, r) ==
    c.market = r.market /\ c.side = r.side /\ c.active /\ c.backed /\ c.state.y > 0

\* What a candidate can give in the fixed amount of the request, its rates at
\* both ends, and quoteAt: its answer to every amount up to that capacity.
Measured(c, kind) ==
    LET full     == QuoteExactOutput(c.curve, c.state, c.state.y)
        capacity == IF kind = "ExactInput" THEN full.in ELSE c.state.y
    IN  [key |-> c.key, flat |-> c.curve.branch = "Flat", capacity |-> capacity,
         startRate |-> full.rateBefore, endRate |-> full.rateAfter,
         quoteAt |-> [amount \in 1 .. capacity |->
                        IF CanQuote(kind, c.curve, c.state, c.side, amount)
                        THEN QuoteOf(kind, c.curve, c.state, amount)
                        ELSE None]]

\* measureCandidate does not throw.
Measurable(c, kind) ==
    /\ CanQuoteExactOutput(c.curve, c.state, c.side, c.state.y)
    /\ MarginalRate(c.curve, c.state) > 0

Metrics(r) ==
    {Measured(c, r.kind) :
       c \in {d \in ToSet(r.candidates) : Admitted(d, r) /\ Measurable(d, r.kind)}}

\* compareMetrics: better start rate first, then by key.
Before(c, d) ==
    c.startRate > d.startRate \/ (c.startRate = d.startRate /\ c.key < d.key)

Quotable(c, amount) == amount \in 1 .. c.capacity /\ c.quoteAt[amount] # None

RateAfter(c, amount) == IF amount = 0 THEN c.startRate ELSE c.quoteAt[amount].rateAfter
-----------------------------------------------------------------------------
(* The two searches.                                                        *)

\* Mutant of AllocationAtRate: a side is taken whole once its best rate does.
AllocationAtStartRate(c, threshold) ==
    IF c.startRate < threshold THEN 0 ELSE c.capacity

\* The most that c gives while its rate stays at the threshold or better.
AllocationAtRate(c, threshold) ==
    LET search[range \in (0 .. c.capacity) \X (0 .. c.capacity)] ==
          LET low    == range[1]
              high   == range[2]
              middle == (low + high) \div 2
          IN  IF high - low <= 1 THEN low
              ELSE IF ~Quotable(c, middle) THEN Crash
              ELSE IF RateAfter(c, middle) >= threshold THEN search[<<middle, high>>]
                                                        ELSE search[<<low, middle>>]
    IN  IF c.startRate < threshold THEN 0
        ELSE IF c.endRate >= threshold \/ c.flat THEN c.capacity
        ELSE search[<<0, c.capacity>>]

AllocationsAtRate(M, threshold) == [c \in M |-> AllocationAtRate(c, threshold)]

Total(amounts) == SumFunctionOnSet(amounts, DOMAIN amounts)
Crashed(amounts) == \E c \in DOMAIN amounts : amounts[c] = Crash

\* The highest rate at which the market still gives the target; one unit
\* above it the market gives less.
MarginalMarketRate(M, target) ==
    LET top == Max({c.startRate : c \in M}) + 1
        search[low, high \in 0 .. top] ==
          IF high - low <= 1 THEN low
          ELSE LET middle  == (low + high) \div 2
                   amounts == AllocationsAtRate(M, middle)
               IN  IF Crashed(amounts) THEN Crash
                   ELSE IF Total(amounts) >= target THEN search[middle, high]
                                                    ELSE search[low, middle]
    IN  search[0, top]

\* What the band gives before it reaches c: best rate after the sure part
\* first, then by key.
Ahead(c, atMost, atLeast, rate) ==
    LET earlier == {d \in DOMAIN rate :
                      rate[d] > rate[c] \/ (rate[d] = rate[c] /\ d.key < c.key)}
    IN  SumFunctionOnSet([d \in earlier |-> Max({0, atMost[d] - atLeast[d]})], earlier)

\* The rest goes, in that order, to the sides whose allocation shrinks
\* between the two rates.
Granted(atMost, atLeast, rate, remaining) ==
    [c \in DOMAIN rate |->
       atLeast[c] + Max({0, Min({atMost[c] - atLeast[c],
                                 remaining - Ahead(c, atMost, atLeast, rate)})})]

\* What the fills trade in one token, "in" or "out".
Traded(amount, filled, token) ==
    MapThenSumSet(LAMBDA c : c.quoteAt[amount[c]][token], filled)

\* Mutant of Split: fills of one unit are not worth their gas.
SplitWithoutDust(amount) ==
    LET filled == {c \in DOMAIN amount : amount[c] > 1}
    IN  IF \A c \in filled : Quotable(c, amount[c])
        THEN [status |-> "Solved",
              amount |-> [c \in filled |-> amount[c]],
              in  |-> Traded(amount, filled, "in"),
              out |-> Traded(amount, filled, "out")]
        ELSE Thrown("Crash")

\* The certificate's fills: what each position gives, and what it is quoted.
Split(amount) ==
    LET filled == {c \in DOMAIN amount : amount[c] > 0}
    IN  IF \A c \in filled : Quotable(c, amount[c])
        THEN [status |-> "Solved",
              amount |-> [c \in filled |-> amount[c]],
              in  |-> Traded(amount, filled, "in"),
              out |-> Traded(amount, filled, "out")]
        ELSE Thrown("Crash")

SolveAtRate(M, target, low) ==
    LET atMost  == AllocationsAtRate(M, low)
        atLeast == AllocationsAtRate(M, low + 1)
        priced  == \A c \in M : atLeast[c] = 0 \/ Quotable(c, atLeast[c])
        rate    == [c \in M |-> RateAfter(c, atLeast[c])]
        amount  == Granted(atMost, atLeast, rate, target - Total(atLeast))
    IN  IF Crashed(atMost) \/ Crashed(atLeast) \/ ~priced THEN Thrown("Crash")
        ELSE IF Total(atLeast) > target THEN Thrown("InvalidRequest")
        ELSE IF Total(amount) # target THEN Thrown("InsufficientLiquidity")
        ELSE Split(amount)

TotalCapacity(M) == MapThenSumSet(LAMBDA c : c.capacity, M)

SolveUnbounded(M, target) ==
    IF TotalCapacity(M) < target
    THEN Thrown("InsufficientLiquidity")
    ELSE LET low == MarginalMarketRate(M, target)
         IN  IF low = Crash THEN Thrown("Crash") ELSE SolveAtRate(M, target, low)
-----------------------------------------------------------------------------
(* The removal loop.                                                        *)

Fills(s) == DOMAIN s.amount

\* The position keys of the fills, in the order of the metrics.
RouteKey(s) ==
    LET order == SetToSortSeq(Fills(s), Before)
    IN  [i \in DOMAIN order |-> order[i].key]

PrecedesInOrder(a, b) ==
    \/ (Len(a) < Len(b) /\ SubSeq(b, 1, Len(a)) = a)
    \/ \E i \in DOMAIN a \cap DOMAIN b :
         /\ SubSeq(a, 1, i - 1) = SubSeq(b, 1, i - 1)
         /\ a[i] < b[i]

IsBetter(s, t, kind) ==
    IF kind = "ExactInput" /\ s.out # t.out THEN s.out > t.out
    ELSE IF kind = "ExactOutput" /\ s.in # t.in THEN s.in < t.in
    ELSE PrecedesInOrder(RouteKey(s), RouteKey(t))

\* c leaves the best rest of the removals that leave enough, and comes first
\* in the order of the metrics among equals.
IsBestRemoval(c, tried, kind) ==
    /\ tried[c].status = "Solved"
    /\ \A d \in DOMAIN tried \ {c} :
         tried[d].status = "Solved" =>
            \/ IsBetter(tried[c], tried[d], kind)
            \/ (~IsBetter(tried[d], tried[c], kind) /\ Before(c, d))

\* reserveCandidates: the best of the metrics that do not fill.
Shortlist(M, s, count) ==
    LET rest == M \ Fills(s)
    IN  [i \in 1 .. Min({count, Cardinality(rest)}) |->
           CHOOSE c \in rest : Cardinality({d \in rest : Before(d, c)}) = i - 1]

MaxUint16 == 65535

ValidRequest(r) == r.amount > 0 /\ r.maxFills \in 1 .. MaxUint16 /\ r.reserveCount >= 0

HasDuplicates(candidates) ==
    \E i, j \in DOMAIN candidates : i # j /\ candidates[i].key = candidates[j].key

Init ==
    /\ request \in Requests
    /\ available = {}
    /\ solution = None
    /\ reserves = <<>>
    /\ outcome = "Pending"

Throw(code) ==
    /\ outcome' = code
    /\ UNCHANGED <<request, available, solution, reserves>>

Reject ==
    /\ outcome = "Pending" /\ solution = None
    /\ IF ~ValidRequest(request) THEN Throw("InvalidRequest")
       ELSE IF HasDuplicates(request.candidates) THEN Throw("DuplicateCandidate")
       ELSE Metrics(request) = {} /\ Throw("InsufficientLiquidity")

\* The split over every candidate, before the fill bound.
SolveAll ==
    /\ outcome = "Pending" /\ solution = None
    /\ ValidRequest(request)
    /\ ~HasDuplicates(request.candidates)
    /\ \E M \in {Metrics(request)} :
         /\ M # {}
         /\ \E s \in {SolveUnbounded(M, request.amount)} :
              IF s.status = "Solved"
              THEN /\ available' = M
                   /\ solution' = s
                   /\ UNCHANGED <<request, reserves, outcome>>
              ELSE Throw(s.status)

Searching == outcome = "Pending" /\ solution # None

\* Mutant of RemoveOne: the removed position stays available.
RemoveOneInVain ==
    /\ Searching
    /\ Cardinality(Fills(solution)) > request.maxFills
    /\ \E tried \in {[c \in Fills(solution) |->
                        SolveUnbounded(available \ {c}, request.amount)]} :
         LET aborted == {c \in DOMAIN tried :
                           tried[c].status \notin {"Solved", "InsufficientLiquidity"}}
         IN  IF aborted # {} THEN \E c \in aborted : Throw(tried[c].status)
             ELSE IF \A c \in DOMAIN tried : tried[c].status = "InsufficientLiquidity"
             THEN Throw("MaxFillsExceeded")
             ELSE \E c \in DOMAIN tried :
                    /\ IsBestRemoval(c, tried, request.kind)
                    /\ solution' = tried[c]
                    /\ UNCHANGED <<request, available, reserves, outcome>>

\* Mutant of RemoveOne: the rest is not solved again.
RemoveOneUnsolved ==
    /\ Searching
    /\ Cardinality(Fills(solution)) > request.maxFills
    /\ \E tried \in {[c \in Fills(solution) |-> SolveUnbounded(available, request.amount)]} :
         \E c \in DOMAIN tried :
            /\ IsBestRemoval(c, tried, request.kind)
            /\ available' = available \ {c}
            /\ solution' = tried[c]
            /\ UNCHANGED <<request, reserves, outcome>>

\* One turn of the loop of enforceFillBound.
RemoveOne ==
    /\ Searching
    /\ Cardinality(Fills(solution)) > request.maxFills
    /\ \E tried \in {[c \in Fills(solution) |->
                        SolveUnbounded(available \ {c}, request.amount)]} :
         LET aborted == {c \in DOMAIN tried :
                           tried[c].status \notin {"Solved", "InsufficientLiquidity"}}
         IN  IF aborted # {} THEN \E c \in aborted : Throw(tried[c].status)
             ELSE IF \A c \in DOMAIN tried : tried[c].status = "InsufficientLiquidity"
             THEN Throw("MaxFillsExceeded")
             ELSE \E c \in DOMAIN tried :
                    /\ IsBestRemoval(c, tried, request.kind)
                    /\ available' = available \ {c}
                    /\ solution' = tried[c]
                    /\ UNCHANGED <<request, reserves, outcome>>

\* Mutant of Certify: only what the removal loop kept can be a reserve.
CertifyFromAvailable ==
    /\ Searching
    /\ Cardinality(Fills(solution)) <= request.maxFills
    /\ reserves' = Shortlist(available, solution, request.reserveCount)
    /\ outcome' = "Route"
    /\ UNCHANGED <<request, available, solution>>

Certify ==
    /\ Searching
    /\ Cardinality(Fills(solution)) <= request.maxFills
    /\ reserves' = Shortlist(Metrics(request), solution, request.reserveCount)
    /\ outcome' = "Route"
    /\ UNCHANGED <<request, available, solution>>

\* The call has returned or thrown.
Finished == outcome # "Pending" /\ UNCHANGED vars

Next == Reject \/ SolveAll \/ RemoveOne \/ Certify \/ Finished

Spec == Init /\ [][Next]_vars
-----------------------------------------------------------------------------
(* Properties *)

TypeOK ==
    /\ request \in Requests
    /\ available \subseteq Metrics(request)
    /\ solution # None => solution.status = "Solved" /\ Fills(solution) \subseteq available
    /\ outcome \in Outcomes

\* A certificate serves the request: its fills add up to the amount without a
\* remainder and none gives more than it has, whichever branches of the two
\* searches and of the removal loop produced them.
RouteServesRequest ==
    outcome = "Route" =>
        /\ Total(solution.amount) = request.amount
        /\ \A c \in Fills(solution) : solution.amount[c] \in 1 .. c.capacity

\* The fills of a certificate are at most maxFills positions that were
\* offered as active, backed and on the side and market asked for, also
\* after positions were removed and the rest solved again.
RouteIsEligible ==
    outcome = "Route" =>
        /\ Cardinality(Fills(solution)) <= request.maxFills
        /\ \A c \in Fills(solution) : \E i \in DOMAIN request.candidates :
             LET d == request.candidates[i]
             IN  /\ d.key = c.key
                 /\ d.market = request.market /\ d.side = request.side
                 /\ d.active /\ d.backed

\* What the splits of an amount over a market trade it against.
Totals(M, kind, amount) ==
    LET order == SetToSeq(M)
        against(c, given) ==
          IF given = 0 THEN 0
          ELSE IF kind = "ExactInput" THEN c.quoteAt[given].out ELSE c.quoteAt[given].in
        totals[i \in 0 .. Len(order), rest \in 0 .. amount] ==
          IF i = 0 THEN IF rest = 0 THEN {0} ELSE {}
          ELSE UNION {{t + against(order[i], given) : t \in totals[i - 1, rest - given]} :
                        given \in {g \in 0 .. rest : g = 0 \/ Quotable(order[i], g)}}
    IN  totals[Len(order), amount]

\* Best execution (ARCHITECTURE: "brute-force comparison on small sets"): as
\* long as no position had to be removed for the fill bound, no split of the
\* amount over the eligible positions beats the solver's by more than a
\* unit of rounding.
BestExecution ==
    solution # None /\ available = Metrics(request) =>
        \A total \in Totals(available, request.kind, request.amount) :
            IF request.kind = "ExactInput"
            THEN total <= solution.out + 1
            ELSE solution.in <= total + 1

\* The reserves stand in for fills that turn out to be stale: they never
\* repeat a fill, and no eligible position left out of both starts at a
\* better rate than one of them.
ReservesAreNextBest ==
    outcome = "Route" =>
        /\ Len(reserves) <= request.reserveCount
        /\ \A i \in DOMAIN reserves :
             /\ reserves[i] \in Metrics(request) \ Fills(solution)
             /\ \A c \in Metrics(request) \ (Fills(solution) \cup ToSet(reserves)) :
                  c.startRate <= reserves[i].startRate

\* A certificate is whole: fills that serve the request, and the next best
\* positions in reserve.
CertificateIsWhole == RouteServesRequest /\ ReservesAreNextBest

\* The removal loop ends: each of its turns leaves strictly fewer positions
\* to consider, and the positions of the split are always among them.
EachTurnNarrows ==
    [][ Searching /\ outcome' = "Pending" =>
          /\ available' # available /\ available' \subseteq available
          /\ Fills(solution') \subseteq available' ]_vars

\* Eligible liquidity is routed: if the positions that can be measured give
\* the amount, and the fill bound admits all of them, the answer is a route
\* (solver.test.ts: "fills better flat levels first and splits only at
\* capacity").
LiquidityIsRouted ==
    /\ ValidRequest(request)
    /\ ~HasDuplicates(request.candidates)
    /\ Cardinality(Metrics(request)) <= request.maxFills
    /\ TotalCapacity(Metrics(request)) >= request.amount
    => outcome \in {"Pending", "Route"}
=============================================================================
