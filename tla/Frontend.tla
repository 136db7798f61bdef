------------------------------ MODULE Frontend ------------------------------
(***************************************************************************)
(* The web application in live mode: the trade ticket with its debounced    *)
(* quotes and the maker studio (apps/web/src/App.tsx), the client that      *)
(* prepares transaction plans (packages/frontend-live/src/client.ts) and    *)
(* the execution of a plan by the injected wallet                           *)
(* (apps/web/src/protocol/wallet.ts).                                       *)
(*                                                                         *)
(* A click starts a task, an async function whose awaits are step           *)
(* boundaries: connecting the wallet, preparing a plan, signing a step,     *)
(* waiting for its receipt, refreshing the view.  Two tasks overlap when    *)
(* both were clicked before a button was disabled.  Users, wallet, services *)
(* and chain act between any two of these steps.  The studio is mounted for *)
(* its view alone: leaving it forgets the draft and its review, and the     *)
(* tasks it started change nothing of the studio that is mounted next.      *)
(*                                                                         *)
(* A ticket is what the user typed: an order (side, kind and fixed amount)  *)
(* and a slippage.  The service answers an order with a route, of which the *)
(* limit is what the payer or the receiver can lose to slippage.  A curve   *)
(* is the content of a draft.  Whether the services are healthy, a quote    *)
(* has expired or the chain is wrong shows as a failed preparation.         *)
(***************************************************************************)
EXTENDS Integers, Sequences, FiniteSets, SequencesExt

CONSTANTS
    Accounts,
    Tickets,             \* records of an order and a slippage
    InvalidOrders,       \* amounts that do not parse or are not positive
    Limits,              \* of the routes that the service prepares
    Curves,
    Outgoing,            \* the tokens of which a draft allocates something
    Tasks,               \* slots of concurrent async functions
    None,
    InitialTicket, InitialCurve, InitialAccount,
    Sessions,            \* bounds on what the user does, by kind of action
    MaxPlans,            \* bound on prepared publications
    MaxTxs               \* bound on transactions sent

ASSUME FrontendAssumption ==
    /\ None \notin Accounts
    /\ InitialTicket \in Tickets /\ InitialCurve \in Curves /\ InitialAccount \in Accounts
    /\ Outgoing \subseteq {"base", "quote"}
    /\ Tasks \subseteq Nat
    /\ {MaxPlans, MaxTxs} \subseteq Nat

VARIABLES
    provider,        \* account selected in the wallet, None when locked
    walletAddress,   \* account the page believes connected
    ticket, debounce, requests, quote, quoteLoading,
    view,            \* activeView
    studio,          \* how often the studio was mounted
    draft, reviewOpen, planLoading, plan,
    confirmedPlans, planCount,
    running,         \* operation.running
    tasks,
    approved,        \* <<account, token>> that Aqua may spend without limit
    shipped, docked, \* positions
    txs,             \* every transaction sent, with its outcome
    left             \* how often the user still acts, by kind of action

walletVars == <<provider, walletAddress>>
ticketVars == <<ticket, debounce, requests, quote, quoteLoading>>
studioVars == <<view, studio, draft, reviewOpen, planLoading, plan, planCount>>
chainVars  == <<approved, shipped, docked, txs>>
vars == <<walletVars, ticketVars, studioVars, confirmedPlans, running, tasks, chainVars,
          left>>

UserActions == {"ticket", "wallet", "draft", "close", "navigate", "reload",
                "execute", "review", "publish", "dock", "replace"}

\* The views from which something of the model is done; the landing page and the
\* activity list are left out.
Views == {"trade", "portfolio", "studio"}

ValidTickets == {t \in Tickets : t.order \notin InvalidOrders}

Routes == [order : {t.order : t \in ValidTickets}, limit : Limits]

Uses(action) == left[action] > 0 /\ left' = [left EXCEPT ![action] = @ - 1]
-----------------------------------------------------------------------------
(* The quote effect of App: a change of its inputs aborts the request in    *)
(* flight and starts a timer; the displayed quote stays until it is         *)
(* replaced.                                                                *)

AbortedNever(inFlight) == inFlight

Aborted(inFlight) == {}

RestartQuote ==
    /\ debounce' = TRUE
    /\ requests' = Aborted(requests)
    /\ UNCHANGED <<quote, quoteLoading>>

EditTicket(t) ==
    /\ Uses("ticket")
    /\ view = "trade"
    /\ t # ticket
    /\ ticket' = t
    /\ RestartQuote
    /\ UNCHANGED <<walletVars, studioVars, confirmedPlans, running, tasks, chainVars>>

DebounceEnds ==
    /\ debounce
    /\ debounce' = FALSE
    /\ IF ticket \notin ValidTickets
       THEN quote' = None /\ quoteLoading' = FALSE /\ UNCHANGED requests
       ELSE /\ requests' = requests \cup {[ticket |-> ticket, recipient |-> walletAddress]}
            /\ quoteLoading' = TRUE
            /\ UNCHANGED quote
    /\ UNCHANGED <<left, ticket, walletVars, studioVars, confirmedPlans, running, tasks, chainVars>>

\* A response, or an error that clears the quote.
QuoteEnds(r) ==
    /\ r \in requests
    /\ requests' = requests \ {r}
    /\ quote' \in {r, None}
    /\ quoteLoading' = FALSE
    /\ UNCHANGED <<left, ticket, debounce, walletVars, studioVars, confirmedPlans, running, tasks, chainVars>>
-----------------------------------------------------------------------------
(* The wallet connection.                                                   *)

SetWallet(account) ==
    /\ walletAddress' = account
    /\ IF account = walletAddress THEN UNCHANGED ticketVars
                                  ELSE RestartQuote /\ UNCHANGED ticket

\* The user selects another account in the wallet, or locks it.
AccountsChanged(account) ==
    /\ Uses("wallet")
    /\ account # provider
    /\ provider' = account
    /\ SetWallet(account)
    /\ UNCHANGED <<studioVars, confirmedPlans, running, tasks, chainVars>>

\* Another chain is selected, or the wallet button clicked.
Disconnected ==
    /\ Uses("wallet")
    /\ walletAddress # None
    /\ SetWallet(None)
    /\ UNCHANGED <<provider, studioVars, confirmedPlans, running, tasks, chainVars>>
-----------------------------------------------------------------------------
(* Plans: the steps the client prepares.                                    *)

SaltOfPlan(d) == d.salt + 10 * (planCount + 1)

Salt(d) == d.salt

PositionOf(maker, d) == [maker |-> maker, draft |-> d, salt |-> Salt(d)]

Step(action, subject) == [action |-> action, subject |-> subject]

Approval(maker, token) ==
    IF token \in Outgoing /\ <<maker, token>> \notin approved
    THEN <<Step("approve-aqua", token)>> ELSE <<>>

PublishSteps(maker, d) ==
    Approval(maker, "base") \o Approval(maker, "quote")
      \o <<Step("publish-position", PositionOf(maker, d))>>

\* The approval is of what this route may take: its amount in, or its limit.
ExecuteSteps(route) == <<Step("approve-executor", route), Step("execute-route", route)>>

DockSteps(position) == <<Step("dock-position", position)>>

ReplaceStepsPublishFirst(maker, position, d) == PublishSteps(maker, d) \o DockSteps(position)

ReplaceSteps(maker, position, d) == DockSteps(position) \o PublishSteps(maker, d)

AssertNothing(reviewed, route) == TRUE

\* Market, side, kind and the fixed amount of the answer are those of the quote;
\* its limit, made from a newer snapshot, is not compared.
AssertSameQuote(reviewed, route) == reviewed.ticket.order = route.order
-----------------------------------------------------------------------------
(* Tasks.                                                                   *)

NoPlan == [id |-> 0, maker |-> None, steps |-> <<>>]

Idle == [stage |-> "idle", kind |-> "none", account |-> None, subject |-> None,
         studio |-> 0, plan |-> NoPlan, hashes |-> <<>>]

\* The studio of which the task was started is the one on the page: the setters
\* of one that was left change nothing.
Mounted(task) == view = "studio" /\ task.studio = studio

\* A task that ends or throws lets the buttons be clicked again, although
\* another may still run.
Ends(t) ==
    /\ tasks' = [tasks EXCEPT ![t] = Idle]
    /\ running' = FALSE

AssertNoTransaction(p, account) == TRUE

AssertTransaction(p, account) == p.maker = account

\* submitPlan: the checks before the first signature.
Submit(t, task, p) ==
    IF p.id \notin confirmedPlans /\ AssertTransaction(p, task.account)
    THEN /\ tasks' = [tasks EXCEPT ![t] = [task EXCEPT !.stage = "signing", !.plan = p]]
         /\ running' = TRUE
    ELSE Ends(t)

\* What a click does once its account is known.
Proceed(t, task) ==
    CASE task.kind = "publish" ->
           Submit(t, task, task.subject) /\ UNCHANGED studioVars
      [] task.kind = "review" ->
           /\ tasks' = [tasks EXCEPT ![t] = [task EXCEPT !.stage = "preparing"]]
           /\ IF Mounted(task)
              THEN /\ reviewOpen' = TRUE /\ plan' = NoPlan /\ planLoading' = TRUE
                   /\ UNCHANGED <<view, studio, draft, planCount>>
              ELSE UNCHANGED studioVars
           /\ UNCHANGED running
      [] OTHER ->
           /\ tasks' = [tasks EXCEPT ![t] = [task EXCEPT !.stage = "preparing"]]
           /\ running' = TRUE
           /\ UNCHANGED studioVars

Starts(t, kind, subject) ==
    LET task == [Idle EXCEPT !.kind = kind, !.subject = subject, !.account = walletAddress,
                             !.studio = studio]
    IN  /\ tasks[t].stage = "idle"
        /\ \A u \in Tasks : u < t => tasks[u].stage # "idle"
        /\ IF walletAddress # None
           THEN Proceed(t, task)
           ELSE /\ tasks' = [tasks EXCEPT ![t] = [task EXCEPT !.stage = "connecting"]]
                /\ UNCHANGED <<studioVars, running>>
        /\ UNCHANGED <<walletVars, ticketVars, confirmedPlans, chainVars>>

ClickExecute(t) ==
    /\ Uses("execute")
    /\ view = "trade"
    /\ quote # None /\ ~quoteLoading /\ ~running
    /\ Starts(t, "execute", quote)

ClickReview(t) ==
    /\ Uses("review")
    /\ view = "studio" /\ ~reviewOpen
    /\ Starts(t, "review", draft)

ClickPublish(t) ==
    /\ Uses("publish")
    /\ view = "studio" /\ reviewOpen /\ plan # NoPlan /\ ~planLoading /\ ~running
    /\ Starts(t, "publish", plan)

\* The index may still list a position as active.
ClickDock(t, position) ==
    /\ Uses("dock")
    /\ view = "portfolio" /\ ~running
    /\ position \in shipped
    /\ Starts(t, "dock", position)

\* No page offers it: an integrator calls prepareReplace and runs its plan.
ClickReplace(t, position) ==
    /\ Uses("replace")
    /\ ~running
    /\ position \in shipped
    /\ Starts(t, "replace", [position |-> position, draft |-> draft])

ConnectedAnyway(t) ==
    /\ tasks[t].stage = "connecting"
    /\ SetWallet(provider)
    /\ Proceed(t, [tasks[t] EXCEPT !.account = provider])
    /\ UNCHANGED <<left, provider, confirmedPlans, chainVars>>

Connected(t) ==
    /\ tasks[t].stage = "connecting"
    /\ provider # None
    /\ SetWallet(provider)
    /\ Proceed(t, [tasks[t] EXCEPT !.account = provider])
    /\ UNCHANGED <<left, provider, confirmedPlans, chainVars>>

ConnectFails(t) ==
    /\ tasks[t].stage = "connecting"
    /\ Ends(t)
    /\ UNCHANGED <<left, walletVars, ticketVars, studioVars, confirmedPlans, chainVars>>

EditDraft(c) ==
    /\ Uses("draft")
    /\ view = "studio" /\ ~reviewOpen
    /\ c # draft.curve
    /\ draft' = [draft EXCEPT !.curve = c]
    /\ UNCHANGED <<view, studio, reviewOpen, planLoading, plan, planCount>>
    /\ UNCHANGED <<walletVars, ticketVars, confirmedPlans, running, tasks, chainVars>>

CloseReview ==
    /\ Uses("close")
    /\ reviewOpen
    /\ reviewOpen' = FALSE
    /\ UNCHANGED <<view, studio, draft, planLoading, plan, planCount>>
    /\ UNCHANGED <<walletVars, ticketVars, confirmedPlans, running, tasks, chainVars>>

\* A studio that is mounted starts from the initial curves, with a salt of its own.
Mounts(v) ==
    /\ reviewOpen' = FALSE /\ planLoading' = FALSE /\ plan' = NoPlan
    /\ IF v = "studio"
       THEN studio' = studio + 1 /\ draft' = [curve |-> InitialCurve, salt |-> draft.salt + 1]
       ELSE UNCHANGED <<studio, draft>>

\* By the navigation, or back and forth in the history, whatever runs.
Navigate(v) ==
    /\ Uses("navigate")
    /\ v # view
    /\ view' = v
    /\ Mounts(v)
    /\ UNCHANGED <<planCount, walletVars, ticketVars, confirmedPlans, running, tasks, chainVars>>

\* The page forgets its tasks, with the transactions they sent still pending.
Reload ==
    /\ Uses("reload")
    /\ walletAddress' \in {provider, None}
    /\ ticket' = InitialTicket
    /\ debounce' = TRUE /\ requests' = {} /\ quote' = None /\ quoteLoading' = FALSE
    /\ Mounts(view)
    /\ confirmedPlans' = {} /\ running' = FALSE
    /\ tasks' = [t \in Tasks |-> Idle]
    /\ UNCHANGED <<provider, view, planCount, chainVars>>
-----------------------------------------------------------------------------
(* Preparation ends: the plan is submitted, or shown for review.            *)

Prepared(t) ==
    LET task  == tasks[t]
        maker == task.account
        Planned(steps) == [id |-> 0, maker |-> maker, steps |-> steps]
    IN  /\ task.stage = "preparing"
        /\ \/ /\ task.kind = "execute"
              /\ \E route \in Routes :
                    IF AssertSameQuote(task.subject, route)
                    THEN Submit(t, task, Planned(ExecuteSteps(route)))
                    ELSE Ends(t)
              /\ UNCHANGED studioVars
           \/ /\ task.kind = "dock"
              /\ task.subject.maker = maker
              /\ Submit(t, task, Planned(DockSteps(task.subject)))
              /\ UNCHANGED studioVars
           \/ /\ task.kind = "replace"
              /\ task.subject.position.maker = maker
              /\ Submit(t, task, Planned(
                    ReplaceSteps(maker, task.subject.position, task.subject.draft)))
              /\ UNCHANGED studioVars
           \/ /\ task.kind = "review"
              /\ planCount < MaxPlans
              /\ planCount' = planCount + 1
              /\ IF Mounted(task)
                 THEN /\ plan' = [id |-> planCount', maker |-> maker,
                                  steps |-> PublishSteps(maker, task.subject)]
                      /\ planLoading' = FALSE
                 ELSE UNCHANGED <<plan, planLoading>>
              /\ tasks' = [tasks EXCEPT ![t] = Idle]
              /\ UNCHANGED <<view, studio, draft, reviewOpen, running>>
        /\ UNCHANGED <<left, walletVars, ticketVars, confirmedPlans, chainVars>>

NeverFails(t) == FALSE /\ UNCHANGED vars

PrepareFails(t) ==
    /\ tasks[t].stage = "preparing"
    /\ IF tasks[t].kind = "review"
       THEN /\ tasks' = [tasks EXCEPT ![t] = Idle]
            /\ planLoading' = (planLoading /\ ~Mounted(tasks[t]))
            /\ UNCHANGED <<view, studio, draft, reviewOpen, plan, planCount, running>>
       ELSE Ends(t) /\ UNCHANGED studioVars
    /\ UNCHANGED <<left, walletVars, ticketVars, confirmedPlans, chainVars>>
-----------------------------------------------------------------------------
(* executeTransactionPlan: one step at a time, each with its receipt.       *)

Sign(t) ==
    LET task == tasks[t]
        step == task.plan.steps[Len(task.hashes) + 1]
    IN  /\ task.stage = "signing"
        /\ Len(txs) < MaxTxs
        /\ txs' = Append(txs, [from |-> task.plan.maker, step |-> step, status |-> "pending"])
        /\ tasks' = [tasks EXCEPT ![t].stage = "confirming", ![t].hashes = Append(@, Len(txs'))]
        /\ UNCHANGED <<approved, shipped, docked>>
        /\ UNCHANGED <<left, walletVars, ticketVars, studioVars, confirmedPlans, running>>

Reject(t) ==
    /\ tasks[t].stage = "signing"
    /\ Ends(t)
    /\ UNCHANGED <<left, walletVars, ticketVars, studioVars, confirmedPlans, chainVars>>

SucceedsOnAnyReceipt(tx) == TRUE

Succeeds(tx) == tx.status = "success"

ReceiptArrives(t) ==
    LET task == tasks[t]
        tx   == txs[Last(task.hashes)]
        done == Len(task.hashes) = Len(task.plan.steps)
    IN  /\ task.stage = "confirming"
        /\ tx.status # "pending"
        /\ IF Succeeds(tx)
           THEN /\ tasks' = [tasks EXCEPT ![t].stage = IF done THEN "refreshing" ELSE "signing"]
                /\ confirmedPlans' = confirmedPlans \cup
                      IF done /\ task.plan.id # 0 THEN {task.plan.id} ELSE {}
                /\ UNCHANGED running
           ELSE Ends(t) /\ UNCHANGED confirmedPlans
        /\ UNCHANGED <<left, walletVars, ticketVars, studioVars, chainVars>>

TimesOutQuietly(t) ==
    /\ tasks[t].stage = "confirming"
    /\ tasks' = [tasks EXCEPT ![t].stage = "refreshing"]
    /\ UNCHANGED <<left, walletVars, ticketVars, studioVars, confirmedPlans, running, chainVars>>

\* 180 seconds passed, or the provider failed; the transaction may yet be mined.
\* The deadline is tested between requests to the provider, which have none: a
\* provider that does not answer is waited for.
TimesOut(t) ==
    /\ tasks[t].stage = "confirming"
    /\ Ends(t)
    /\ UNCHANGED <<left, walletVars, ticketVars, studioVars, confirmedPlans, chainVars>>

\* The view is loaded again, which restarts the quote effect, or the reload
\* fails; a publication then starts a fresh draft.
Refreshed(t) ==
    /\ tasks[t].stage = "refreshing"
    /\ Ends(t)
    /\ \/ RestartQuote /\ UNCHANGED ticket
       \/ UNCHANGED ticketVars
    /\ IF tasks[t].kind = "publish" /\ Mounted(tasks[t])
       THEN /\ reviewOpen' = FALSE /\ plan' = NoPlan
            /\ draft' = [draft EXCEPT !.salt = @ + 1]
            /\ UNCHANGED <<view, studio, planLoading, planCount>>
       ELSE UNCHANGED studioVars
    /\ UNCHANGED <<left, walletVars, confirmedPlans, chainVars>>
-----------------------------------------------------------------------------
(* The chain takes the transactions of an account in order.  Aqua ships a   *)
(* strategy once, and docks only what is active; whether a route settles is *)
(* the subject of Settlement.                                               *)

Outcomes(step) ==
    CASE step.action = "publish-position" -> {step.subject \notin shipped}
      [] step.action = "dock-position"    -> {step.subject \in shipped \ docked}
      [] step.action = "execute-route"    -> BOOLEAN
      [] OTHER                            -> {TRUE}

Mine(h) ==
    LET tx == txs[h]
        OnSuccess(action, set, element) ==
            IF tx.step.action = action /\ txs'[h].status = "success"
            THEN set \cup {element} ELSE set
    IN  /\ tx.status = "pending"
        /\ \A g \in 1 .. h - 1 : txs[g].from = tx.from => txs[g].status # "pending"
        /\ \E ok \in Outcomes(tx.step) :
              txs' = [txs EXCEPT ![h].status = IF ok THEN "success" ELSE "reverted"]
        /\ approved' = OnSuccess("approve-aqua", approved, <<tx.from, tx.step.subject>>)
        /\ shipped'  = OnSuccess("publish-position", shipped, tx.step.subject)
        /\ docked'   = OnSuccess("dock-position", docked, tx.step.subject)
        /\ UNCHANGED <<left, walletVars, ticketVars, studioVars, confirmedPlans, running, tasks>>
-----------------------------------------------------------------------------
Init ==
    /\ provider = InitialAccount
    /\ walletAddress \in {provider, None}
    /\ ticket = InitialTicket
    /\ debounce = TRUE /\ requests = {} /\ quote = None /\ quoteLoading = FALSE
    /\ view \in Views /\ studio = 0
    /\ draft = [curve |-> InitialCurve, salt |-> 0]
    /\ reviewOpen = FALSE /\ planLoading = FALSE /\ plan = NoPlan
    /\ confirmedPlans = {} /\ planCount = 0
    /\ running = FALSE /\ tasks = [t \in Tasks |-> Idle]
    /\ left \in Sessions
    /\ approved = {} /\ shipped = {} /\ docked = {} /\ txs = <<>>

Click(t) ==
    \/ ClickExecute(t) \/ ClickReview(t) \/ ClickPublish(t)
    \/ \E position \in shipped : ClickDock(t, position) \/ ClickReplace(t, position)

\* The awaits of requests to the services, which the client gives a timeout.
Waits(t) == Prepared(t) \/ PrepareFails(t) \/ Refreshed(t)

TaskStep(t) ==
    \/ Click(t) \/ Connected(t) \/ ConnectFails(t) \/ Sign(t) \/ Reject(t)
    \/ ReceiptArrives(t) \/ TimesOut(t)
    \/ Waits(t)

Next ==
    \/ \E t \in Tickets : EditTicket(t)
    \/ DebounceEnds
    \/ \E r \in requests : QuoteEnds(r)
    \/ \E account \in Accounts \cup {None} : AccountsChanged(account)
    \/ Disconnected
    \/ \E c \in Curves : EditDraft(c)
    \/ CloseReview
    \/ \E v \in Views : Navigate(v)
    \/ Reload
    \/ \E t \in Tasks : TaskStep(t)
    \/ \E h \in 1 .. Len(txs) : Mine(h)

\* Timers fire, and every request of the client to the services carries a
\* timeout.  No fairness is assumed of users, of the chain, or of the wallet,
\* which signs and also tells the receipts.
Fairness ==
    /\ WF_vars(DebounceEnds)
    /\ WF_vars(\E r \in requests : QuoteEnds(r))
    /\ \A t \in Tasks : WF_vars(Waits(t))

Spec == Init /\ [][Next]_vars /\ Fairness
-----------------------------------------------------------------------------
(* Properties.                                                              *)

Quotes == [ticket : ValidTickets, recipient : Accounts \cup {None}]
Drafts == [curve : Curves, salt : Nat]
ShippedPositions == [maker : Accounts, draft : Drafts, salt : Nat]
Sent(t) == {txs[h] : h \in Range(tasks[t].hashes)}

\* The state is well formed: requests are valid, every task that goes on has an
\* account, and signs or awaits a step of its plan.
TypeOK ==
    /\ {provider, walletAddress} \subseteq Accounts \cup {None}
    /\ ticket \in Tickets /\ requests \subseteq Quotes /\ quote \in Quotes \cup {None}
    /\ {debounce, quoteLoading, reviewOpen, planLoading, running} \subseteq BOOLEAN
    /\ view \in Views /\ studio \in Nat /\ draft \in Drafts
    /\ planCount \in 0 .. MaxPlans /\ confirmedPlans \subseteq 1 .. planCount
    /\ approved \subseteq Accounts \X Outgoing
    /\ shipped \subseteq ShippedPositions /\ docked \subseteq shipped
    /\ \A t \in Tasks :
          LET task == tasks[t] IN
          /\ task.stage \notin {"idle", "connecting"} => task.account \in Accounts
          /\ Range(task.hashes) \subseteq 1 .. Len(txs)
          /\ task.stage = "signing" => Len(task.hashes) < Len(task.plan.steps)
          /\ task.stage = "confirming" => task.hashes # <<>>

\* Once no timer runs and no request is in flight, the ticket shows no quote or
\* the quote of what it says, for the connected account: no answer to an
\* earlier input survives the debounce and abort of the quote effect.
QuoteMatchesTicket ==
    ~debounce /\ requests = {} =>
        quote \in {None, [ticket |-> ticket, recipient |-> walletAddress]}

RouteActions == {"approve-executor", "execute-route"}

\* Whatever the task awaited in between, what it sends is signed by the account
\* it was started with and moves only positions of that account.  Whatever the
\* service answered to the second request of prepareExecute, it trades the order
\* of the quote that was clicked, and approves what the route it sends may take.
\* The limit of that route may be another than the quote showed.
SignedAsReviewed ==
    \A t \in Tasks : \A tx \in Sent(t) :
        /\ tx.from = tasks[t].account
        /\ tx.step.action \in {"publish-position", "dock-position"} =>
              tx.step.subject.maker = tx.from
        /\ tx.step.action \in RouteActions =>
              tx.step.subject.order = tasks[t].subject.ticket.order
        /\ \A other \in Sent(t) :
              {tx.step.action, other.step.action} \subseteq RouteActions =>
                  tx.step.subject = other.step.subject

\* "Each step is enabled only after the previous transaction receipt is
\* confirmed": all but the last transaction of a task succeeded, in the order
\* of the plan, also when two tasks run the same plan or a transaction of an
\* earlier attempt is still pending; and all of them before it is confirmed.
StepsAwaitReceipts ==
    \A t \in Tasks :
        LET task == tasks[t] IN
        \A i \in 1 .. Len(task.hashes) :
            /\ txs[task.hashes[i]].step = task.plan.steps[i]
            /\ i < Len(task.hashes) \/ task.stage \in {"signing", "refreshing"} =>
                  txs[task.hashes[i]].status = "success"

Publications ==
    {h \in 1 .. Len(txs) : txs[h].step.action = "publish-position" /\ txs[h].status = "success"}

\* A maker who publishes a draft again, after a receipt timed out, from a plan
\* prepared anew or from two clicks, gets one position: its strategies differ
\* in nothing, and Aqua ships a strategy once.  That holds within a visit to the
\* studio: the same curves composed in another are another draft.
DraftIsShippedOnce ==
    \A g, h \in Publications :
        LET p == txs[g].step.subject
            q == txs[h].step.subject
        IN  p.maker = q.maker /\ p.draft = q.draft => g = h

\* Within a visit the studio gives up the salt of a draft only for a position that
\* is on chain: apart from the one it draws whenever it is mounted, it draws no
\* more salts than publications succeeded.
FreshDraftAfterShip == draft.salt - studio <= Cardinality(Publications)

\* A draft and a position on chain correspond: one position for a draft, one
\* draft at least for every salt.
DraftsMatchPositions == DraftIsShippedOnce /\ FreshDraftAfterShip

\* A replacement is sent only once the position it replaces is docked, so that
\* the two are never live on the same inventory, however the plan ends.
ReplacementFollowsDock ==
    \A t \in Tasks : \A tx \in Sent(t) :
        tasks[t].kind = "replace" /\ tx.step.action = "publish-position" =>
            tasks[t].subject.position \in docked

\* What a timeout bounds comes to an end, though chain and wallet may never
\* answer: a quote in flight and its spinner, a preparation and that of the review
\* dialog, the refresh after the last receipt.  No wait for a receipt is among
\* them, and the user edits the ticket only so often.
WaitsEnd ==
    /\ requests # {} ~> requests = {}
    /\ quoteLoading ~> ~quoteLoading
    /\ planLoading ~> ~planLoading
    /\ \A t \in Tasks :
          LET stage == tasks[t].stage IN
          /\ stage = "preparing" ~> stage # "preparing"
          /\ stage = "refreshing" ~> stage # "refreshing"
=============================================================================
