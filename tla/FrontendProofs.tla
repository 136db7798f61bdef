--------------------------- MODULE FrontendProofs ---------------------------
(***************************************************************************)
(* For every number of accounts, tickets, tasks, drafts and transactions:   *)
(* the quote on the ticket is that of its inputs once nothing is pending    *)
(* (QuoteInv); a task sends the steps of the plan that was clicked, in      *)
(* order, each after the receipts of those before it (StepsInv, AppInv),    *)
(* for the account and the order it was started with (PageInv); and of a    *)
(* draft one position at most is published (SaltInv).                       *)
(***************************************************************************)
EXTENDS Frontend, FiniteSetTheorems, TLAPS

(* The quote effect.  At most one request is in flight, for the current     *)
(* inputs, and none while the timer runs.                                   *)
QuoteInv ==
    /\ requests \subseteq {[ticket |-> ticket, recipient |-> walletAddress]}
    /\ debounce => requests = {}
    /\ QuoteMatchesTicket

LEMMA RestartKeepsQuoteInv == RestartQuote => QuoteInv'
BY DEF RestartQuote, QuoteInv, QuoteMatchesTicket, Aborted

LEMMA SetWalletKeepsQuoteInv ==
    ASSUME QuoteInv, NEW account, SetWallet(account)
    PROVE  QuoteInv'
<1>1. CASE account = walletAddress
  BY <1>1 DEF SetWallet, ticketVars, QuoteInv, QuoteMatchesTicket
<1>2. CASE account # walletAddress
  BY <1>2, RestartKeepsQuoteInv DEF SetWallet
<1> QED
  BY <1>1, <1>2

LEMMA IdleTicketKeepsQuoteInv ==
    ASSUME QuoteInv, UNCHANGED ticketVars, UNCHANGED walletAddress
    PROVE  QuoteInv'
BY DEF ticketVars, QuoteInv, QuoteMatchesTicket

LEMMA QuoteInvStep == QuoteInv /\ [Next]_vars => QuoteInv'
<1> SUFFICES ASSUME QuoteInv, [Next]_vars PROVE QuoteInv'
  OBVIOUS
<1>1. ASSUME NEW t \in Tickets, EditTicket(t) PROVE QuoteInv'
  BY <1>1, RestartKeepsQuoteInv DEF EditTicket
<1>2. CASE DebounceEnds
  <2>1. requests = {} /\ ~debounce' /\ UNCHANGED <<ticket, walletAddress>>
    BY <1>2 DEF DebounceEnds, QuoteInv, walletVars
  <2>2. CASE ticket \notin ValidTickets
    BY <1>2, <2>1, <2>2 DEF DebounceEnds, QuoteInv, QuoteMatchesTicket
  <2>3. CASE ticket \in ValidTickets
    BY <1>2, <2>1, <2>3 DEF DebounceEnds, QuoteInv, QuoteMatchesTicket
  <2> QED
    BY <2>2, <2>3
<1>3. ASSUME NEW r \in requests, QuoteEnds(r) PROVE QuoteInv'
  <2>1. r = [ticket |-> ticket, recipient |-> walletAddress] /\ requests' = {}
    BY <1>3 DEF QuoteEnds, QuoteInv
  <2> QED
    BY <1>3, <2>1 DEF QuoteEnds, walletVars, QuoteInv, QuoteMatchesTicket
<1>4. ASSUME NEW account, AccountsChanged(account) PROVE QuoteInv'
  BY <1>4, SetWalletKeepsQuoteInv DEF AccountsChanged
<1>5. CASE Disconnected
  BY <1>5, SetWalletKeepsQuoteInv DEF Disconnected
<1>6. ASSUME NEW t \in Tasks, Connected(t) PROVE QuoteInv'
  BY <1>6, SetWalletKeepsQuoteInv DEF Connected
<1>7. ASSUME NEW t \in Tasks, Refreshed(t) PROVE QuoteInv'
  <2>1. CASE RestartQuote
    BY <2>1, RestartKeepsQuoteInv
  <2>2. CASE UNCHANGED ticketVars
    BY <1>7, <2>2, IdleTicketKeepsQuoteInv DEF Refreshed, walletVars
  <2> QED
    BY <1>7, <2>1, <2>2 DEF Refreshed
<1>8. ASSUME NEW t \in Tasks,
             Click(t) \/ ConnectFails(t) \/ Sign(t) \/ Reject(t) \/ Prepared(t)
               \/ PrepareFails(t) \/ ReceiptArrives(t) \/ TimesOut(t)
      PROVE  UNCHANGED <<ticketVars, walletVars>>
  BY <1>8 DEF Click, ClickExecute, ClickReview, ClickPublish, ClickDock, ClickReplace, Starts,
     ConnectFails, Sign, Reject, Prepared, PrepareFails, ReceiptArrives, TimesOut
<1>9. ASSUME NEW t \in Tasks, TaskStep(t) PROVE QuoteInv'
  BY <1>6, <1>7, <1>8, <1>9, IdleTicketKeepsQuoteInv DEF TaskStep, Waits, walletVars
<1>10. CASE \E c \in Curves : EditDraft(c)
  BY <1>10, IdleTicketKeepsQuoteInv DEF EditDraft, walletVars
<1>11. CASE CloseReview
  BY <1>11, IdleTicketKeepsQuoteInv DEF CloseReview, walletVars
<1>12. CASE \E h \in 1 .. Len(txs) : Mine(h)
  BY <1>12, IdleTicketKeepsQuoteInv DEF Mine, walletVars
<1>13. CASE \E v \in Views : Navigate(v)
  BY <1>13, IdleTicketKeepsQuoteInv DEF Navigate, walletVars
<1>14. CASE Reload
  BY <1>14 DEF Reload, QuoteInv, QuoteMatchesTicket
<1>15. CASE UNCHANGED vars
  BY <1>15, IdleTicketKeepsQuoteInv DEF vars, walletVars
<1> QED
  BY <1>1, <1>2, <1>3, <1>4, <1>5, <1>9, <1>10, <1>11, <1>12, <1>13, <1>14, <1>15 DEF Next

\* No answer to an earlier input survives the debounce and abort of the quote
\* effect (App.tsx), however edits, account changes and refreshes interleave.
THEOREM FrontendQuoteMatchesTicket == Spec => []QuoteMatchesTicket
<1>1. Init => QuoteInv
  BY DEF Init, QuoteInv, QuoteMatchesTicket
<1>2. QuoteInv => QuoteMatchesTicket
  BY DEF QuoteInv
<1> QED
  BY <1>1, <1>2, QuoteInvStep, PTL DEF Spec
-----------------------------------------------------------------------------
(* The tasks.  What a task has sent are transactions of the chain, in the   *)
(* order of its plan; nothing is sent before it signs.                      *)

IsTask(task) ==
    \E s, k, a, u, m, p, h :
        task = [stage |-> s, kind |-> k, account |-> a, subject |-> u, studio |-> m,
                plan |-> p, hashes |-> h]

IsTx(tx) == \E f, s, o : tx = [from |-> f, step |-> s, status |-> o]

InOrder(task, sent) ==
    \A i \in 1 .. Len(task.hashes) :
        /\ sent[task.hashes[i]].step = task.plan.steps[i]
        /\ i < Len(task.hashes) \/ task.stage \in {"signing", "refreshing"} =>
              sent[task.hashes[i]].status = "success"

TaskOK(task, sent) ==
    /\ IsTask(task)
    /\ task.hashes \in Seq(1 .. Len(sent))
    /\ InOrder(task, sent)
    /\ task.stage \in {"idle", "connecting", "preparing"} => task.hashes = <<>>
    /\ task.stage = "confirming" => task.hashes # <<>>

TxsOK == \E S : txs \in Seq(S) /\ \A h \in 1 .. Len(txs) : IsTx(txs[h])

StepsInv ==
    /\ TxsOK
    /\ tasks = [t \in Tasks |-> tasks[t]]
    /\ \A t \in Tasks : TaskOK(tasks[t], txs)

\* The changes that the actions make to a task, and what they keep.
Staged(task, v) == [task EXCEPT !.stage = v]

LEMMA StagedTask ==
    ASSUME NEW task, IsTask(task), NEW v, NEW new, new = Staged(task, v)
    PROVE  /\ IsTask(new)
           /\ new.stage = v
           /\ new.kind = task.kind /\ new.account = task.account /\ new.subject = task.subject
           /\ new.plan = task.plan /\ new.hashes = task.hashes
<1>1. PICK s, k, a, u, m, p, h :
        task = [stage |-> s, kind |-> k, account |-> a, subject |-> u, studio |-> m,
                plan |-> p, hashes |-> h]
  BY DEF IsTask
<1>2. new = [stage |-> v, kind |-> k, account |-> a, subject |-> u, studio |-> m,
             plan |-> p, hashes |-> h]
  BY <1>1 DEF Staged
<1>3. IsTask(new)
  BY <1>2 DEF IsTask
<1> QED
  BY <1>1, <1>2, <1>3

WithAccount(task, v) == [task EXCEPT !.account = v]

LEMMA ConnectedTask ==
    ASSUME NEW task, IsTask(task), NEW v, NEW new, new = WithAccount(task, v)
    PROVE  /\ IsTask(new)
           /\ new.account = v
           /\ new.stage = task.stage /\ new.kind = task.kind /\ new.subject = task.subject
           /\ new.plan = task.plan /\ new.hashes = task.hashes
<1>1. PICK s, k, a, u, m, p, h :
        task = [stage |-> s, kind |-> k, account |-> a, subject |-> u, studio |-> m,
                plan |-> p, hashes |-> h]
  BY DEF IsTask
<1>2. new = [stage |-> s, kind |-> k, account |-> v, subject |-> u, studio |-> m,
             plan |-> p, hashes |-> h]
  BY <1>1 DEF WithAccount
<1>3. IsTask(new)
  BY <1>2 DEF IsTask
<1> QED
  BY <1>1, <1>2, <1>3

Submitted(task, v) == [task EXCEPT !.stage = "signing", !.plan = v]

LEMMA SubmittedTask ==
    ASSUME NEW task, IsTask(task), NEW v, NEW new, new = Submitted(task, v)
    PROVE  /\ IsTask(new)
           /\ new.stage = "signing" /\ new.plan = v
           /\ new.kind = task.kind /\ new.account = task.account /\ new.subject = task.subject
           /\ new.hashes = task.hashes
<1>1. PICK s, k, a, u, m, p, h :
        task = [stage |-> s, kind |-> k, account |-> a, subject |-> u, studio |-> m,
                plan |-> p, hashes |-> h]
  BY DEF IsTask
<1>2. new = [stage |-> "signing", kind |-> k, account |-> a, subject |-> u, studio |-> m,
             plan |-> v, hashes |-> h]
  BY <1>1 DEF Submitted
<1>3. IsTask(new)
  BY <1>2 DEF IsTask
<1> QED
  BY <1>1, <1>2, <1>3

Sending(task, v) == [task EXCEPT !.stage = "confirming", !.hashes = Append(@, v)]

LEMMA SendingTask ==
    ASSUME NEW task, IsTask(task), NEW v, NEW new, new = Sending(task, v)
    PROVE  /\ IsTask(new)
           /\ new.stage = "confirming" /\ new.hashes = Append(task.hashes, v)
           /\ new.kind = task.kind /\ new.account = task.account /\ new.subject = task.subject
           /\ new.plan = task.plan
<1>1. PICK s, k, a, u, m, p, h :
        task = [stage |-> s, kind |-> k, account |-> a, subject |-> u, studio |-> m,
                plan |-> p, hashes |-> h]
  BY DEF IsTask
<1>2. new = [stage |-> "confirming", kind |-> k, account |-> a, subject |-> u, studio |-> m,
             plan |-> p, hashes |-> Append(h, v)]
  BY <1>1 DEF Sending
<1>3. IsTask(new)
  BY <1>2 DEF IsTask
<1> QED
  BY <1>1, <1>2, <1>3

Started(kind, subject) ==
    [Idle EXCEPT !.kind = kind, !.subject = subject, !.account = walletAddress,
                 !.studio = studio]

LEMMA StartedTask ==
    ASSUME NEW kind, NEW subject, NEW new, new = Started(kind, subject)
    PROVE  /\ IsTask(new)
           /\ new.stage = "idle" /\ new.hashes = <<>>
           /\ new.kind = kind /\ new.subject = subject /\ new.account = walletAddress
<1>1. new = [stage |-> "idle", kind |-> kind, account |-> walletAddress, subject |-> subject,
             studio |-> studio, plan |-> NoPlan, hashes |-> <<>>]
  BY DEF Started, Idle
<1>2. IsTask(new)
  BY <1>1 DEF IsTask
<1> QED
  BY <1>1, <1>2

\* A task that has sent nothing yet is in order, whatever it does next.
LEMMA FreshTask ==
    ASSUME NEW task, NEW sent, IsTask(task), task.hashes = <<>>, task.stage # "confirming"
    PROVE  TaskOK(task, sent)
BY DEF TaskOK, InOrder

LEMMA IdleIsFresh ==
    ASSUME NEW sent
    PROVE  TaskOK(Idle, sent)
<1>1. IsTask(Idle) /\ Idle.hashes = <<>> /\ Idle.stage # "confirming"
  BY DEF Idle, IsTask
<1> QED
  BY <1>1, FreshTask

\* One task changes and no transaction does.
LEMMA OneTaskKeepsStepsInv ==
    ASSUME StepsInv, NEW t \in Tasks, NEW new, TaskOK(new, txs),
           tasks' = [tasks EXCEPT ![t] = new], UNCHANGED txs
    PROVE  StepsInv'
<1>1. TxsOK'
  BY DEF StepsInv, TxsOK
<1>2. tasks' = [u \in Tasks |-> tasks'[u]]
  BY DEF StepsInv
<1>3. ASSUME NEW u \in Tasks PROVE TaskOK(tasks'[u], txs')
  BY <1>3 DEF StepsInv
<1> QED
  BY <1>1, <1>2, <1>3 DEF StepsInv

LEMMA EndsKeepsStepsInv ==
    ASSUME StepsInv, NEW t \in Tasks, Ends(t), UNCHANGED txs
    PROVE  StepsInv'
BY OneTaskKeepsStepsInv, IdleIsFresh DEF Ends

LEMMA SubmitKeepsStepsInv ==
    ASSUME StepsInv, NEW t \in Tasks, NEW task, NEW p,
           IsTask(task), task.hashes = <<>>, Submit(t, task, p), UNCHANGED txs
    PROVE  StepsInv'
<1> DEFINE new == Submitted(task, p)
<1>1. IsTask(new) /\ new.hashes = <<>> /\ new.stage # "confirming"
  BY SubmittedTask
<1>2. TaskOK(new, txs)
  BY <1>1, FreshTask
<1>3. tasks' = [tasks EXCEPT ![t] = new] \/ Ends(t)
  BY DEF Submit, Submitted
<1> QED
  BY <1>2, <1>3, OneTaskKeepsStepsInv, EndsKeepsStepsInv

LEMMA ProceedKeepsStepsInv ==
    ASSUME StepsInv, NEW t \in Tasks, NEW task, IsTask(task), task.hashes = <<>>,
           Proceed(t, task), UNCHANGED txs
    PROVE  StepsInv'
<1> DEFINE new == Staged(task, "preparing")
<1>1. Submit(t, task, task.subject) \/ tasks' = [tasks EXCEPT ![t] = new]
  BY DEF Proceed, Staged
<1>2. IsTask(new) /\ new.hashes = <<>> /\ new.stage # "confirming"
  BY StagedTask
<1>3. TaskOK(new, txs)
  BY <1>2, FreshTask
<1> QED
  BY <1>1, <1>3, OneTaskKeepsStepsInv, SubmitKeepsStepsInv

LEMMA StartsKeepsStepsInv ==
    ASSUME StepsInv, NEW t \in Tasks, NEW kind, NEW subject, Starts(t, kind, subject)
    PROVE  StepsInv'
<1> DEFINE task == Started(kind, subject)
           new  == Staged(task, "connecting")
<1>1. UNCHANGED txs
  BY DEF Starts, chainVars
<1>2. IsTask(task) /\ task.hashes = <<>>
  BY StartedTask
<1>3. IsTask(new) /\ new.hashes = <<>> /\ new.stage # "confirming"
  BY <1>2, StagedTask
<1>4. TaskOK(new, txs)
  BY <1>3, FreshTask
<1>5. Proceed(t, task) \/ tasks' = [tasks EXCEPT ![t] = new]
  BY DEF Starts, Started, Staged
<1> QED
  BY <1>1, <1>2, <1>4, <1>5, OneTaskKeepsStepsInv, ProceedKeepsStepsInv

LEMMA ConnectedKeepsStepsInv ==
    ASSUME StepsInv, NEW t \in Tasks, Connected(t)
    PROVE  StepsInv'
<1> DEFINE task == WithAccount(tasks[t], provider)
<1>1. IsTask(tasks[t]) /\ tasks[t].hashes = <<>>
  BY DEF Connected, StepsInv, TaskOK
<1>2. IsTask(task) /\ task.hashes = <<>>
  BY <1>1, ConnectedTask
<1>3. Proceed(t, task) /\ UNCHANGED txs
  BY DEF Connected, WithAccount, chainVars
<1> QED
  BY <1>2, <1>3, ProceedKeepsStepsInv

LEMMA PreparedKeepsStepsInv ==
    ASSUME StepsInv, NEW t \in Tasks, Prepared(t)
    PROVE  StepsInv'
<1>1. IsTask(tasks[t]) /\ tasks[t].hashes = <<>>
  BY DEF Prepared, StepsInv, TaskOK
<1>2. UNCHANGED txs
  BY DEF Prepared, chainVars
<1>3. \/ \E p : Submit(t, tasks[t], p)
      \/ Ends(t)
      \/ tasks' = [tasks EXCEPT ![t] = Idle]
  BY DEF Prepared
<1> QED
  BY <1>1, <1>2, <1>3, SubmitKeepsStepsInv, EndsKeepsStepsInv, OneTaskKeepsStepsInv, IdleIsFresh

LEMMA PrepareFailsKeepsStepsInv ==
    ASSUME StepsInv, NEW t \in Tasks, PrepareFails(t)
    PROVE  StepsInv'
<1>1. UNCHANGED txs
  BY DEF PrepareFails, chainVars
<1>2. Ends(t) \/ tasks' = [tasks EXCEPT ![t] = Idle]
  BY DEF PrepareFails
<1> QED
  BY <1>1, <1>2, EndsKeepsStepsInv, OneTaskKeepsStepsInv, IdleIsFresh

\* The next step of the plan is sent: the earlier ones have their receipts.
LEMMA SignKeepsStepsInv ==
    ASSUME StepsInv, NEW t \in Tasks, Sign(t)
    PROVE  StepsInv'
<1> DEFINE task == tasks[t]
           n    == Len(txs)
           tx   == [from |-> task.plan.maker, step |-> task.plan.steps[Len(task.hashes) + 1],
                    status |-> "pending"]
           new  == Sending(task, n + 1)
<1>1. PICK S : txs \in Seq(S)
  BY DEF StepsInv, TxsOK
<1>2. txs' = Append(txs, tx)
  BY DEF Sign
<1>3. /\ txs' \in Seq(S \cup {tx})
      /\ n \in Nat /\ Len(txs') = n + 1
      /\ txs'[n + 1] = tx
      /\ \A h \in 1 .. n : txs'[h] = txs[h]
  <2> HIDE DEF tx
  <2> QED
    BY <1>1, <1>2
<1>4. TxsOK'
  <2>1. IsTx(tx)
    BY DEF IsTx
  <2>2. \A h \in 1 .. Len(txs') : IsTx(txs'[h])
    <3> HIDE DEF tx
    <3> QED
      BY <1>3, <2>1 DEF StepsInv, TxsOK
  <2> QED
    BY <1>3, <2>2 DEF TxsOK
<1>5. task.stage = "signing" /\ IsTask(task) /\ task.hashes \in Seq(1 .. n) /\ InOrder(task, txs)
  BY DEF Sign, StepsInv, TaskOK
<1>6. tasks' = [tasks EXCEPT ![t] = new]
  BY <1>3 DEF Sign, Sending
<1>7. /\ IsTask(new) /\ new.stage = "confirming" /\ new.plan = task.plan
      /\ new.hashes = Append(task.hashes, n + 1)
  <2> HIDE DEF task, n
  <2> QED
    BY <1>5, SendingTask
<1>8. /\ Append(task.hashes, n + 1) \in Seq(1 .. n + 1)
      /\ Len(task.hashes) \in Nat
      /\ Len(Append(task.hashes, n + 1)) = Len(task.hashes) + 1
      /\ Append(task.hashes, n + 1)[Len(task.hashes) + 1] = n + 1
      /\ \A i \in 1 .. Len(task.hashes) :
            Append(task.hashes, n + 1)[i] = task.hashes[i] /\ task.hashes[i] \in 1 .. n
  <2>1. task.hashes \in Seq(1 .. n + 1)
    BY <1>3, <1>5
  <2> HIDE DEF task, n
  <2> QED
    BY <1>3, <1>5, <2>1
<1>9. InOrder(new, txs')
  <2> SUFFICES ASSUME NEW i \in 1 .. Len(new.hashes)
               PROVE  /\ txs'[new.hashes[i]].step = new.plan.steps[i]
                      /\ i < Len(new.hashes) => txs'[new.hashes[i]].status = "success"
    BY <1>7 DEF InOrder
  <2>1. CASE i = Len(task.hashes) + 1
    <3>1. txs'[new.hashes[i]] = tx
      <4> HIDE DEF new, tx, task, n
      <4> QED
        BY <1>3, <1>7, <1>8, <2>1
    <3>2. Len(new.hashes) = i
      <4> HIDE DEF new, task, n
      <4> QED
        BY <1>7, <1>8, <2>1
    <3>3. tx.step = task.plan.steps[i]
      BY <2>1
    <3> HIDE DEF new, tx, task, n
    <3> QED
      BY <1>7, <1>8, <2>1, <3>1, <3>2, <3>3
  <2>2. CASE i # Len(task.hashes) + 1
    <3> HIDE DEF new, task, n
    <3>1. i \in 1 .. Len(task.hashes)
      BY <1>7, <1>8, <2>2
    <3>2. txs'[new.hashes[i]] = txs[task.hashes[i]]
      BY <1>3, <1>7, <1>8, <3>1
    <3> QED
      BY <1>5, <1>7, <3>1, <3>2 DEF InOrder
  <2> QED
    BY <2>1, <2>2
<1>10. TaskOK(new, txs')
  <2> HIDE DEF new, task, n
  <2>1. new.hashes \in Seq(1 .. Len(txs'))
    BY <1>3, <1>7, <1>8
  <2>2. new.hashes # <<>>
    <3>1. Len(new.hashes) # 0
      BY <1>7, <1>8
    <3> QED
      BY <3>1
  <2> QED
    BY <1>7, <1>9, <2>1, <2>2 DEF TaskOK
<1>11. ASSUME NEW u \in Tasks, u # t PROVE TaskOK(tasks[u], txs')
  <2>1. TaskOK(tasks[u], txs)
    BY DEF StepsInv
  <2>2. tasks[u].hashes \in Seq(1 .. Len(txs'))
    <3>1. tasks[u].hashes \in Seq(1 .. n)
      BY <2>1 DEF TaskOK
    <3> HIDE DEF n
    <3> QED
      BY <1>3, <3>1
  <2>3. InOrder(tasks[u], txs')
    <3>1. tasks[u].hashes \in Seq(1 .. n)
      BY <2>1 DEF TaskOK
    <3>2. \A i \in 1 .. Len(tasks[u].hashes) : txs'[tasks[u].hashes[i]] = txs[tasks[u].hashes[i]]
      <4> HIDE DEF n
      <4> QED
        BY <1>3, <3>1
    <3> QED
      BY <2>1, <3>2 DEF TaskOK, InOrder
  <2> QED
    BY <2>1, <2>2, <2>3 DEF TaskOK
<1>12. tasks' = [u \in Tasks |-> tasks'[u]]
  BY <1>6 DEF StepsInv
<1>13. ASSUME NEW u \in Tasks PROVE TaskOK(tasks'[u], txs')
  <2> HIDE DEF new
  <2>1. CASE u = t
    BY <1>6, <1>10, <2>1 DEF StepsInv
  <2>2. CASE u # t
    BY <1>6, <1>11, <2>2 DEF StepsInv
  <2> QED
    BY <2>1, <2>2
<1> QED
  BY <1>4, <1>12, <1>13 DEF StepsInv

\* A receipt of success lets the task go on; any other ends it.
LEMMA ReceiptKeepsStepsInv ==
    ASSUME StepsInv, NEW t \in Tasks, ReceiptArrives(t)
    PROVE  StepsInv'
<1> DEFINE task == tasks[t]
           last == Len(task.hashes)
<1>1. /\ task.stage = "confirming" /\ IsTask(task) /\ InOrder(task, txs)
      /\ task.hashes \in Seq(1 .. Len(txs)) /\ task.hashes # <<>>
  BY DEF ReceiptArrives, StepsInv, TaskOK
<1>2. UNCHANGED txs
  BY DEF ReceiptArrives, chainVars
<1>3. CASE txs[Last(task.hashes)].status = "success"
  <2>1. PICK stage \in {"refreshing", "signing"} : tasks' = [tasks EXCEPT ![t] = Staged(task, stage)]
    BY <1>3 DEF ReceiptArrives, Succeeds, Staged
  <2> DEFINE new == Staged(task, stage)
  <2>2. /\ IsTask(new) /\ new.stage = stage /\ new.plan = task.plan
        /\ new.hashes = task.hashes
    <3> HIDE DEF task
    <3> QED
      BY <1>1, StagedTask
  <2>3. InOrder(new, txs)
    <3> SUFFICES ASSUME NEW i \in 1 .. Len(task.hashes)
                 PROVE  /\ txs[task.hashes[i]].step = task.plan.steps[i]
                        /\ txs[task.hashes[i]].status = "success"
      <4> HIDE DEF new, task
      <4> QED
        BY <2>2 DEF InOrder
    <3>1. txs[task.hashes[i]].step = task.plan.steps[i]
      <4> HIDE DEF task
      <4> QED
        BY <1>1 DEF InOrder
    <3>2. CASE i < last
      <4> HIDE DEF task
      <4> QED
        BY <1>1, <3>2 DEF InOrder
    <3>3. CASE ~(i < last)
      <4> HIDE DEF task
      <4>1. i = last
        BY <1>1, <3>3
      <4> QED
        BY <1>3, <3>1, <4>1 DEF Last
    <3> QED
      BY <3>1, <3>2, <3>3
  <2>4. TaskOK(new, txs)
    <3> HIDE DEF new, task
    <3> QED
      BY <1>1, <2>2, <2>3 DEF TaskOK
  <2> HIDE DEF new
  <2> QED
    BY <1>2, <2>1, <2>4, OneTaskKeepsStepsInv DEF new
<1>4. CASE txs[Last(task.hashes)].status # "success"
  <2>1. Ends(t)
    BY <1>4 DEF ReceiptArrives, Succeeds
  <2> QED
    BY <1>2, <2>1, EndsKeepsStepsInv
<1> QED
  BY <1>3, <1>4

\* A pending transaction gets its outcome; those that succeeded keep theirs.
LEMMA MineKeepsStepsInv ==
    ASSUME StepsInv, NEW h \in 1 .. Len(txs), Mine(h)
    PROVE  StepsInv'
<1>1. PICK S : txs \in Seq(S)
  BY DEF StepsInv, TxsOK
<1>2. PICK f, s, o : txs[h] = [from |-> f, step |-> s, status |-> o]
  BY DEF StepsInv, TxsOK, IsTx
<1>3. PICK result \in {"success", "reverted"} :
        txs' = [txs EXCEPT ![h] = [from |-> f, step |-> s, status |-> result]]
  <2>1. PICK ok : txs' = [txs EXCEPT ![h].status = IF ok THEN "success" ELSE "reverted"]
    BY DEF Mine
  <2> DEFINE result == IF ok THEN "success" ELSE "reverted"
  <2>2. result \in {"success", "reverted"}
    OBVIOUS
  <2>3. txs' = [txs EXCEPT ![h] = [txs[h] EXCEPT !.status = result]]
    BY <2>1
  <2> HIDE DEF result
  <2>4. [txs[h] EXCEPT !.status = result] = [from |-> f, step |-> s, status |-> result]
    BY <1>2
  <2> QED
    BY <2>2, <2>3, <2>4
<1> DEFINE tx == [from |-> f, step |-> s, status |-> result]
<1>4. /\ txs' \in Seq(S \cup {tx}) /\ Len(txs') = Len(txs)
      /\ txs'[h] = tx
      /\ \A g \in 1 .. Len(txs) : g # h => txs'[g] = txs[g]
  <2>1. txs' = [txs EXCEPT ![h] = tx]
    BY <1>3
  <2> HIDE DEF tx
  <2> QED
    BY <1>1, <2>1
<1>5. TxsOK'
  <2>1. IsTx(tx)
    BY DEF IsTx
  <2>2. \A g \in 1 .. Len(txs') : IsTx(txs'[g])
    <3> HIDE DEF tx
    <3> QED
      BY <1>4, <2>1 DEF StepsInv, TxsOK
  <2> QED
    BY <1>4, <2>2 DEF TxsOK
<1>6. txs[h].status = "pending" /\ tx.step = txs[h].step /\ UNCHANGED tasks
  BY <1>2 DEF Mine
<1>7. ASSUME NEW g \in 1 .. Len(txs)
      PROVE  /\ txs'[g].step = txs[g].step
             /\ txs[g].status = "success" => txs'[g].status = "success"
  <2> HIDE DEF tx
  <2> QED
    BY <1>4, <1>6
<1>8. ASSUME NEW u \in Tasks PROVE TaskOK(tasks[u], txs')
  <2>1. TaskOK(tasks[u], txs)
    BY DEF StepsInv
  <2>2. tasks[u].hashes \in Seq(1 .. Len(txs))
    BY <2>1 DEF TaskOK
  <2>3. \A i \in 1 .. Len(tasks[u].hashes) : tasks[u].hashes[i] \in 1 .. Len(txs)
    BY <2>2
  <2>4. InOrder(tasks[u], txs')
    BY <1>7, <2>1, <2>3 DEF TaskOK, InOrder
  <2> QED
    BY <1>4, <2>1, <2>2, <2>4 DEF TaskOK
<1> QED
  BY <1>5, <1>6, <1>8 DEF StepsInv

\* A page that is loaded again has no tasks, and no transaction changes.
LEMMA ReloadKeepsStepsInv == StepsInv /\ Reload => StepsInv'
<1> SUFFICES ASSUME StepsInv, Reload PROVE StepsInv'
  OBVIOUS
<1>1. tasks' = [t \in Tasks |-> Idle] /\ UNCHANGED txs
  BY DEF Reload, chainVars
<1>2. TxsOK'
  BY <1>1 DEF StepsInv, TxsOK
<1> QED
  BY <1>1, <1>2, IdleIsFresh DEF StepsInv

LEMMA StepsInvStep == StepsInv /\ [Next]_vars => StepsInv'
<1> SUFFICES ASSUME StepsInv, [Next]_vars PROVE StepsInv'
  OBVIOUS
<1>1. ASSUME UNCHANGED <<tasks, txs>> PROVE StepsInv'
  BY <1>1 DEF StepsInv, TxsOK
<1>2. ASSUME NEW t \in Tasks, Click(t) PROVE StepsInv'
  BY <1>2, StartsKeepsStepsInv
     DEF Click, ClickExecute, ClickReview, ClickPublish, ClickDock, ClickReplace
<1>3. ASSUME NEW t \in Tasks,
             ConnectFails(t) \/ Reject(t) \/ TimesOut(t) \/ Refreshed(t)
      PROVE  StepsInv'
  <2>1. Ends(t) /\ UNCHANGED txs
    BY <1>3 DEF ConnectFails, Reject, TimesOut, Refreshed, chainVars
  <2> QED
    BY <2>1, EndsKeepsStepsInv
<1>4. ASSUME NEW t \in Tasks, TaskStep(t) PROVE StepsInv'
  BY <1>2, <1>3, <1>4, ConnectedKeepsStepsInv, PreparedKeepsStepsInv, PrepareFailsKeepsStepsInv,
     SignKeepsStepsInv, ReceiptKeepsStepsInv DEF TaskStep, Waits
<1>5. CASE \/ \E t \in Tickets : EditTicket(t)
           \/ DebounceEnds
           \/ \E r \in requests : QuoteEnds(r)
           \/ \E account \in Accounts \cup {None} : AccountsChanged(account)
           \/ Disconnected
           \/ \E c \in Curves : EditDraft(c)
           \/ CloseReview
           \/ \E v \in Views : Navigate(v)
           \/ UNCHANGED vars
  <2>1. UNCHANGED <<tasks, txs>>
    BY <1>5 DEF EditTicket, DebounceEnds, QuoteEnds, AccountsChanged, Disconnected, EditDraft,
       CloseReview, Navigate, chainVars, vars
  <2> QED
    BY <1>1, <2>1
<1>6. CASE \E h \in 1 .. Len(txs) : Mine(h)
  BY <1>6, MineKeepsStepsInv
<1> QED
  BY <1>4, <1>5, <1>6, ReloadKeepsStepsInv DEF Next

\* A wallet is asked for no step of a plan before every earlier one has its
\* receipt (executeTransactionPlan), for any number of concurrent tasks.
THEOREM FrontendStepsAwaitReceipts == Spec => []StepsAwaitReceipts
<1>1. Init => StepsInv
  <2> SUFFICES ASSUME Init PROVE StepsInv
    OBVIOUS
  <2>1. TxsOK
    <3>1. txs \in Seq({}) /\ Len(txs) = 0
      BY DEF Init
    <3> QED
      BY <3>1 DEF TxsOK
  <2>2. tasks = [t \in Tasks |-> Idle]
    BY DEF Init
  <2> QED
    BY <2>1, <2>2, IdleIsFresh DEF StepsInv
<1>2. StepsInv => StepsAwaitReceipts
  BY DEF StepsInv, TaskOK, InOrder, StepsAwaitReceipts
<1> QED
  BY <1>1, <1>2, StepsInvStep, PTL DEF Spec
-----------------------------------------------------------------------------
(* What is signed.  The plan of a task that signs is of its own account and *)
(* about its own subject; a plan under review is the publication of one     *)
(* draft, approvals first.                                                  *)

PublishStep(step, maker) ==
    \/ \E token \in Outgoing : step = Step("approve-aqua", token)
    \/ \E d \in Drafts : step = Step("publish-position", PositionOf(maker, d))

PublishPlan(p, count) ==
    /\ p.id \in 1 .. count
    /\ \E S : p.steps \in Seq(S)
    /\ Len(p.steps) > 0
    /\ \A i \in 1 .. Len(p.steps) : PublishStep(p.steps[i], p.maker)
    /\ p.steps[Len(p.steps)].action = "publish-position"

StepFits(step, kind, account, subject) ==
    \/ /\ kind \in {"publish", "replace"}
       /\ PublishStep(step, account)
    \/ /\ kind \in {"dock", "replace"}
       /\ step.action = "dock-position"
       /\ step.subject.maker = account
    \/ /\ kind = "execute"
       /\ step.action \in RouteActions
       /\ step.subject.order = subject.ticket.order

PlanFits(p, kind, account, subject, count) ==
    /\ p.maker = account
    /\ p.id \in 0 .. count
    /\ \E S : p.steps \in Seq(S)
    /\ Len(p.steps) > 0
    /\ \A i \in 1 .. Len(p.steps) : StepFits(p.steps[i], kind, account, subject)
    /\ kind = "publish" => p.steps[Len(p.steps)].action = "publish-position"
    /\ kind = "replace" => p.steps[1] = Step("dock-position", subject.position)
    /\ kind = "execute" =>
          \A i, j \in 1 .. Len(p.steps) : p.steps[i].subject = p.steps[j].subject

SubjectFits(kind, subject, count) ==
    /\ kind = "review" => subject \in Drafts
    /\ kind = "publish" => PublishPlan(subject, count)
    /\ kind = "dock" => subject \in ShippedPositions
    /\ kind = "replace" => subject.position \in ShippedPositions /\ subject.draft \in Drafts

SignedBy(task, sent) ==
    \A i \in 1 .. Len(task.hashes) : sent[task.hashes[i]].from = task.account

TaskFits(task, sent, count) ==
    /\ SubjectFits(task.kind, task.subject, count)
    /\ task.stage \notin {"idle", "connecting"} => task.account \in Accounts
    /\ task.stage \in {"signing", "confirming", "refreshing"} =>
          PlanFits(task.plan, task.kind, task.account, task.subject, count)
    /\ task.stage = "preparing" => task.kind # "publish"
    /\ task.stage \in {"idle", "connecting", "preparing", "signing", "confirming", "refreshing"}
    /\ task.stage = "signing" => Len(task.hashes) < Len(task.plan.steps)
    /\ task.stage = "confirming" => Len(task.hashes) <= Len(task.plan.steps)
    /\ task.stage = "refreshing" => Len(task.hashes) = Len(task.plan.steps)
    /\ SignedBy(task, sent)

\* What a maker has sent to Aqua, and what has come of it.
TxFits(tx) ==
    /\ tx.from \in Accounts
    /\ tx.step.action = "approve-aqua" => tx.step.subject \in Outgoing
    /\ tx.step.action = "publish-position" =>
          \E d \in Drafts : tx.step.subject = PositionOf(tx.from, d)
    /\ tx.status = "success" =>
          /\ tx.step.action = "publish-position" => tx.step.subject \in shipped
          /\ tx.step.action = "dock-position" => tx.step.subject \in docked

ChainInv ==
    /\ approved \subseteq Accounts \X Outgoing
    /\ shipped \subseteq ShippedPositions /\ docked \subseteq shipped
    /\ \A h \in 1 .. Len(txs) : TxFits(txs[h])
    /\ \A g, h \in Publications : txs[g].step.subject = txs[h].step.subject => g = h

StudioInv ==
    /\ {provider, walletAddress} \subseteq Accounts \cup {None}
    /\ view \in Views /\ studio \in Nat /\ draft \in Drafts
    /\ planCount \in 0 .. MaxPlans /\ confirmedPlans \subseteq 1 .. planCount
    /\ plan = NoPlan \/ PublishPlan(plan, planCount)

TasksFit == \A t \in Tasks : TaskFits(tasks[t], txs, planCount)

AppInv == StepsInv /\ ChainInv /\ StudioInv /\ TasksFit

LEMMA PublishStepsFacts ==
    ASSUME NEW maker, NEW d \in Drafts
    PROVE  /\ \E S : PublishSteps(maker, d) \in Seq(S)
           /\ Len(PublishSteps(maker, d)) \in Nat \ {0}
           /\ \A i \in 1 .. Len(PublishSteps(maker, d)) :
                 PublishStep(PublishSteps(maker, d)[i], maker)
           /\ PublishSteps(maker, d)[Len(PublishSteps(maker, d))].action = "publish-position"
<1> DEFINE M == {Step("approve-aqua", token) : token \in Outgoing}
                  \cup {Step("publish-position", PositionOf(maker, d))}
           last == Step("publish-position", PositionOf(maker, d))
           s    == Approval(maker, "base") \o Approval(maker, "quote")
<1>1. Approval(maker, "base") \in Seq(M) /\ Approval(maker, "quote") \in Seq(M)
  <2>1. ASSUME NEW token PROVE Approval(maker, token) \in Seq(M)
    <3>1. CASE token \in Outgoing /\ <<maker, token>> \notin approved
      <4>1. Step("approve-aqua", token) \in M
        BY <3>1
      <4> HIDE DEF M
      <4> QED
        BY <3>1, <4>1 DEF Approval
    <3>2. CASE ~(token \in Outgoing /\ <<maker, token>> \notin approved)
      BY <3>2 DEF Approval
    <3> QED
      BY <3>1, <3>2
  <2> QED
    BY <2>1
<1>2. last \in M
  OBVIOUS
<1>3. ASSUME NEW m \in M PROVE PublishStep(m, maker)
  BY DEF PublishStep
<1>4. PublishSteps(maker, d) = s \o <<last>>
  BY DEF PublishSteps
<1>5. s \in Seq(M)
  <2> HIDE DEF M
  <2> QED
    BY <1>1
<1>6. last.action = "publish-position"
  BY DEF Step
<1> HIDE DEF M, s, last
<1>7. /\ s \o <<last>> \in Seq(M) /\ Len(s \o <<last>>) = Len(s) + 1 /\ Len(s) \in Nat
      /\ (s \o <<last>>)[Len(s) + 1] = last
      /\ \A i \in 1 .. Len(s \o <<last>>) : (s \o <<last>>)[i] \in M
  BY <1>2, <1>5
<1> QED
  BY <1>3, <1>4, <1>6, <1>7

LEMMA ReviewPlanFits ==
    ASSUME NEW maker, NEW d \in Drafts, NEW n \in Nat \ {0}
    PROVE  PublishPlan([id |-> n, maker |-> maker, steps |-> PublishSteps(maker, d)], n)
BY PublishStepsFacts DEF PublishPlan

LEMMA PublicationFits ==
    ASSUME NEW n \in Nat, NEW p, PublishPlan(p, n), NEW subject
    PROVE  PlanFits(p, "publish", p.maker, subject, n)
BY DEF PublishPlan, PlanFits, StepFits

\* The plan that a preparation makes of steps.
LEMMA PreparedPlanFits ==
    ASSUME NEW maker, NEW kind, NEW subject, NEW n \in Nat, NEW S, NEW steps \in Seq(S),
           kind # "publish", Len(steps) > 0,
           \A i \in 1 .. Len(steps) : StepFits(steps[i], kind, maker, subject),
           kind = "replace" => steps[1] = Step("dock-position", subject.position),
           kind = "execute" => \A i, j \in 1 .. Len(steps) : steps[i].subject = steps[j].subject
    PROVE  PlanFits([id |-> 0, maker |-> maker, steps |-> steps], kind, maker, subject, n)
<1> DEFINE p == [id |-> 0, maker |-> maker, steps |-> steps]
<1>1. p.id \in 0 .. n /\ p.maker = maker /\ p.steps = steps
  OBVIOUS
<1> HIDE DEF p
<1>2. PlanFits(p, kind, maker, subject, n)
  BY <1>1 DEF PlanFits
<1> QED
  BY <1>2 DEF p

LEMMA ExecutionFits ==
    ASSUME NEW maker, NEW subject, NEW route, subject.ticket.order = route.order, NEW n \in Nat
    PROVE  PlanFits([id |-> 0, maker |-> maker, steps |-> ExecuteSteps(route)],
                    "execute", maker, subject, n)
<1> DEFINE a == Step("approve-executor", route)
           b == Step("execute-route", route)
<1>1. {a.action, b.action} \subseteq RouteActions /\ a.subject = route /\ b.subject = route
  BY DEF Step, RouteActions
<1>2. ExecuteSteps(route) = <<a, b>>
  BY DEF ExecuteSteps
<1> HIDE DEF a, b
<1>3. <<a, b>> \in Seq({a, b}) /\ Len(<<a, b>>) = 2
  OBVIOUS
<1>4. \A i \in 1 .. 2 : <<a, b>>[i] \in {a, b}
  OBVIOUS
<1>5. /\ \A i \in 1 .. 2 : StepFits(<<a, b>>[i], "execute", maker, subject)
      /\ \A i, j \in 1 .. 2 : <<a, b>>[i].subject = <<a, b>>[j].subject
  BY <1>1, <1>4 DEF StepFits
<1>6. PICK steps : steps = <<a, b>>
  OBVIOUS
<1>7. /\ steps \in Seq({a, b}) /\ Len(steps) > 0
      /\ \A i \in 1 .. Len(steps) : StepFits(steps[i], "execute", maker, subject)
      /\ \A i, j \in 1 .. Len(steps) : steps[i].subject = steps[j].subject
  BY <1>3, <1>5, <1>6
<1>8. PlanFits([id |-> 0, maker |-> maker, steps |-> steps], "execute", maker, subject, n)
  BY <1>7, PreparedPlanFits
<1> QED
  BY <1>2, <1>6, <1>8

LEMMA DockingFits ==
    ASSUME NEW subject, NEW n \in Nat
    PROVE  PlanFits([id |-> 0, maker |-> subject.maker, steps |-> DockSteps(subject)],
                    "dock", subject.maker, subject, n)
<1> DEFINE a == Step("dock-position", subject)
<1>1. a.action = "dock-position" /\ a.subject = subject
  BY DEF Step
<1>2. DockSteps(subject) = <<a>>
  BY DEF DockSteps
<1> HIDE DEF a
<1>3. <<a>> \in Seq({a}) /\ Len(<<a>>) = 1 /\ <<a>>[1] = a
  OBVIOUS
<1>4. \A i \in 1 .. 1 : StepFits(<<a>>[i], "dock", subject.maker, subject)
  BY <1>1, <1>3 DEF StepFits
<1>5. PICK steps : steps = <<a>>
  OBVIOUS
<1>6. /\ steps \in Seq({a}) /\ Len(steps) > 0
      /\ \A i \in 1 .. Len(steps) : StepFits(steps[i], "dock", subject.maker, subject)
  BY <1>3, <1>4, <1>5
<1>7. PlanFits([id |-> 0, maker |-> subject.maker, steps |-> steps],
               "dock", subject.maker, subject, n)
  BY <1>6, PreparedPlanFits
<1> QED
  BY <1>2, <1>5, <1>7

LEMMA ReplacementFits ==
    ASSUME NEW subject, subject.draft \in Drafts, NEW n \in Nat
    PROVE  PlanFits([id |-> 0, maker |-> subject.position.maker,
                     steps |-> ReplaceSteps(subject.position.maker, subject.position, subject.draft)],
                    "replace", subject.position.maker, subject, n)
<1> DEFINE maker == subject.position.maker
           a     == Step("dock-position", subject.position)
           s     == PublishSteps(maker, subject.draft)
<1>1. a.action = "dock-position" /\ a.subject.maker = maker
  BY DEF Step
<1>2. ReplaceSteps(maker, subject.position, subject.draft) = <<a>> \o s
  BY DEF ReplaceSteps, DockSteps
<1>3. PICK S : s \in Seq(S)
  BY PublishStepsFacts
<1>4. /\ Len(s) \in Nat \ {0}
      /\ \A i \in 1 .. Len(s) : PublishStep(s[i], maker)
  BY PublishStepsFacts
<1> HIDE DEF a, s
<1>5. /\ <<a>> \o s \in Seq({a} \cup S) /\ Len(<<a>> \o s) = Len(s) + 1
      /\ (<<a>> \o s)[1] = a
      /\ \A i \in 2 .. Len(s) + 1 : (<<a>> \o s)[i] = s[i - 1]
  <2>1. <<a>> \in Seq({a} \cup S) /\ s \in Seq({a} \cup S) /\ Len(<<a>>) = 1 /\ <<a>>[1] = a
    BY <1>3
  <2> QED
    BY <2>1, <1>4
<1>6. ASSUME NEW i \in 1 .. Len(s) + 1
      PROVE  StepFits((<<a>> \o s)[i], "replace", maker, subject)
  <2>1. CASE i = 1
    BY <1>1, <1>5, <2>1 DEF StepFits
  <2>2. CASE i # 1
    <3>1. i - 1 \in 1 .. Len(s) /\ i \in 2 .. Len(s) + 1
      BY <1>4, <2>2
    <3> QED
      BY <1>4, <1>5, <3>1 DEF StepFits
  <2> QED
    BY <2>1, <2>2
<1> QED
  BY <1>2, <1>4, <1>5, <1>6 DEF PlanFits, a
-----------------------------------------------------------------------------
LEMMA PublishPlanGrows ==
    ASSUME NEW n \in Nat, NEW m \in Nat, n <= m, NEW p, PublishPlan(p, n)
    PROVE  PublishPlan(p, m)
BY DEF PublishPlan

\* Transactions keep their sender, and plans are only added.
LEMMA TaskFitsGrows ==
    ASSUME NEW task, NEW sent, NEW more, NEW n \in Nat, NEW m \in Nat, n <= m,
           TaskFits(task, sent, n),
           \A i \in 1 .. Len(task.hashes) : more[task.hashes[i]].from = sent[task.hashes[i]].from
    PROVE  TaskFits(task, more, m)
<1>1. SubjectFits(task.kind, task.subject, m)
  BY PublishPlanGrows DEF TaskFits, SubjectFits
<1>2. task.stage \in {"signing", "confirming", "refreshing"} =>
         PlanFits(task.plan, task.kind, task.account, task.subject, m)
  <2>1. 0 .. n \subseteq 0 .. m
    OBVIOUS
  <2> QED
    BY <2>1 DEF TaskFits, PlanFits
<1>3. SignedBy(task, more)
  BY DEF TaskFits, SignedBy
<1> QED
  BY <1>1, <1>2, <1>3 DEF TaskFits

LEMMA IdleFits ==
    ASSUME NEW sent, NEW n
    PROVE  TaskFits(Idle, sent, n)
<1>1. /\ Idle.kind = "none" /\ Idle.stage = "idle" /\ Len(Idle.hashes) = 0
  BY DEF Idle
<1> QED
  BY <1>1 DEF TaskFits, SubjectFits, SignedBy

\* A task that has sent nothing.
LEMMA UnsentFits ==
    ASSUME NEW task, NEW sent, NEW n, task.hashes = <<>>,
           SubjectFits(task.kind, task.subject, n),
           \/ task.stage = "connecting"
           \/ task.stage = "preparing" /\ task.kind # "publish" /\ task.account \in Accounts
           \/ /\ task.stage = "signing" /\ task.account \in Accounts
              /\ PlanFits(task.plan, task.kind, task.account, task.subject, n)
    PROVE  TaskFits(task, sent, n)
<1>1. Len(task.hashes) = 0
  OBVIOUS
<1>2. task.stage = "signing" => Len(task.hashes) < Len(task.plan.steps)
  BY <1>1 DEF PlanFits
<1> QED
  BY <1>1, <1>2 DEF TaskFits, SignedBy

LEMMA OneTaskKeepsTasksFit ==
    ASSUME StepsInv, TasksFit, NEW t \in Tasks, NEW new, TaskFits(new, txs, planCount),
           tasks' = [tasks EXCEPT ![t] = new], UNCHANGED <<txs, planCount>>
    PROVE  TasksFit'
<1>1. ASSUME NEW u \in Tasks PROVE TaskFits(tasks'[u], txs, planCount)
  BY <1>1 DEF StepsInv, TasksFit
<1> QED
  BY <1>1 DEF TasksFit

LEMMA EndsKeepsTasksFit ==
    ASSUME StepsInv, TasksFit, NEW t \in Tasks, Ends(t), UNCHANGED <<txs, planCount>>
    PROVE  TasksFit'
BY OneTaskKeepsTasksFit, IdleFits DEF Ends

LEMMA SubmitKeepsTasksFit ==
    ASSUME StepsInv, TasksFit, NEW t \in Tasks, NEW task, NEW p,
           IsTask(task), task.hashes = <<>>, task.account \in Accounts,
           SubjectFits(task.kind, task.subject, planCount),
           p.maker = task.account =>
              PlanFits(p, task.kind, task.account, task.subject, planCount),
           Submit(t, task, p), UNCHANGED <<txs, planCount>>
    PROVE  TasksFit'
<1> DEFINE new == Submitted(task, p)
<1>1. CASE Ends(t)
  BY <1>1, EndsKeepsTasksFit
<1>2. CASE ~Ends(t)
  <2>1. p.maker = task.account /\ tasks' = [tasks EXCEPT ![t] = new]
    BY <1>2 DEF Submit, AssertTransaction, Submitted
  <2>2. /\ new.plan = p /\ new.stage = "signing" /\ new.kind = task.kind
        /\ new.account = task.account /\ new.subject = task.subject /\ new.hashes = <<>>
    BY SubmittedTask
  <2> HIDE DEF new
  <2>3. TaskFits(new, txs, planCount)
    BY <2>1, <2>2, UnsentFits
  <2> QED
    BY <2>1, <2>3, OneTaskKeepsTasksFit
<1> QED
  BY <1>1, <1>2

LEMMA ProceedKeepsTasksFit ==
    ASSUME StepsInv, TasksFit, planCount \in Nat, NEW t \in Tasks, NEW task,
           IsTask(task), task.hashes = <<>>, task.account \in Accounts,
           SubjectFits(task.kind, task.subject, planCount),
           Proceed(t, task), UNCHANGED <<txs, planCount>>
    PROVE  TasksFit'
<1>1. CASE task.kind = "publish"
  <2>1. Submit(t, task, task.subject)
    BY <1>1 DEF Proceed
  <2>2. task.subject.maker = task.account =>
           PlanFits(task.subject, task.kind, task.account, task.subject, planCount)
    BY <1>1, PublicationFits DEF SubjectFits
  <2> QED
    BY <2>1, <2>2, SubmitKeepsTasksFit
<1>2. CASE task.kind # "publish"
  <2> DEFINE new == Staged(task, "preparing")
  <2>1. tasks' = [tasks EXCEPT ![t] = new]
    BY <1>2 DEF Proceed, Staged
  <2>2. /\ new.stage = "preparing" /\ new.hashes = <<>> /\ new.kind = task.kind
        /\ new.account = task.account /\ new.subject = task.subject
    BY StagedTask
  <2> HIDE DEF new
  <2>3. TaskFits(new, txs, planCount)
    BY <1>2, <2>2, UnsentFits
  <2> QED
    BY <2>1, <2>3, OneTaskKeepsTasksFit
<1> QED
  BY <1>1, <1>2

LEMMA StartsKeepsTasksFit ==
    ASSUME AppInv, NEW t \in Tasks, NEW kind, NEW subject,
           SubjectFits(kind, subject, planCount), Starts(t, kind, subject)
    PROVE  TasksFit'
<1> DEFINE task == Started(kind, subject)
           new  == Staged(task, "connecting")
<1>1. UNCHANGED <<txs, planCount>> /\ StepsInv /\ TasksFit /\ planCount \in Nat
  <2>1. UNCHANGED txs
    BY DEF Starts, chainVars
  <2>2. UNCHANGED planCount
    BY DEF Starts, Proceed, studioVars
  <2>3. planCount \in Nat
    BY FrontendAssumption DEF AppInv, StudioInv
  <2> QED
    BY <2>1, <2>2, <2>3 DEF AppInv
<1>2. /\ IsTask(task) /\ task.hashes = <<>> /\ task.kind = kind
      /\ task.subject = subject /\ task.account = walletAddress
  BY StartedTask
<1>3. CASE walletAddress # None
  <2>1. Proceed(t, task)
    BY <1>3 DEF Starts, Started
  <2>2. walletAddress \in Accounts
    BY <1>3 DEF AppInv, StudioInv
  <2> HIDE DEF task
  <2> QED
    BY <1>1, <1>2, <2>1, <2>2, ProceedKeepsTasksFit
<1>4. CASE walletAddress = None
  <2>1. tasks' = [tasks EXCEPT ![t] = new]
    BY <1>4 DEF Starts, Started, Staged
  <2>2. /\ new.stage = "connecting" /\ new.hashes = <<>>
        /\ new.kind = kind /\ new.subject = subject
    BY <1>2, StagedTask
  <2> HIDE DEF new
  <2>3. TaskFits(new, txs, planCount)
    BY <2>2, UnsentFits
  <2> QED
    BY <1>1, <2>1, <2>3, OneTaskKeepsTasksFit
<1> QED
  BY <1>3, <1>4

LEMMA ClickKeepsTasksFit ==
    ASSUME AppInv, NEW t \in Tasks, Click(t)
    PROVE  TasksFit'
<1>1. CASE ClickExecute(t)
  BY <1>1, StartsKeepsTasksFit DEF ClickExecute, SubjectFits
<1>2. CASE ClickReview(t)
  BY <1>2, StartsKeepsTasksFit DEF ClickReview, SubjectFits, AppInv, StudioInv
<1>3. CASE ClickPublish(t)
  BY <1>3, StartsKeepsTasksFit DEF ClickPublish, SubjectFits, AppInv, StudioInv
<1>4. ASSUME NEW position \in shipped, ClickDock(t, position) PROVE TasksFit'
  <2>1. position \in ShippedPositions
    BY <1>4 DEF AppInv, ChainInv
  <2> QED
    BY <1>4, <2>1, StartsKeepsTasksFit DEF ClickDock, SubjectFits
<1>5. ASSUME NEW position \in shipped, ClickReplace(t, position) PROVE TasksFit'
  <2>1. position \in ShippedPositions /\ draft \in Drafts
    BY <1>5 DEF AppInv, ChainInv, StudioInv
  <2> DEFINE subject == [position |-> position, draft |-> draft]
  <2>2. subject.position \in ShippedPositions /\ subject.draft \in Drafts
    BY <2>1
  <2>3. Starts(t, "replace", subject)
    BY <1>5 DEF ClickReplace
  <2> HIDE DEF subject
  <2> QED
    BY <2>2, <2>3, StartsKeepsTasksFit DEF SubjectFits
<1> QED
  BY <1>1, <1>2, <1>3, <1>4, <1>5 DEF Click

LEMMA ConnectedKeepsTasksFit ==
    ASSUME AppInv, NEW t \in Tasks, Connected(t)
    PROVE  TasksFit'
<1> DEFINE task == WithAccount(tasks[t], provider)
<1>1. /\ IsTask(tasks[t]) /\ tasks[t].hashes = <<>>
      /\ SubjectFits(tasks[t].kind, tasks[t].subject, planCount)
  BY DEF Connected, AppInv, StepsInv, TaskOK, TasksFit, TaskFits
<1>2. /\ IsTask(task) /\ task.hashes = <<>> /\ task.account = provider
      /\ task.kind = tasks[t].kind /\ task.subject = tasks[t].subject
  BY <1>1, ConnectedTask
<1>3. Proceed(t, task) /\ provider \in Accounts
  BY DEF Connected, WithAccount, AppInv, StudioInv
<1>4. UNCHANGED <<txs, planCount>> /\ StepsInv /\ TasksFit /\ planCount \in Nat
  <2>1. UNCHANGED txs
    BY DEF Connected, chainVars
  <2>2. UNCHANGED planCount
    BY <1>3 DEF Proceed, studioVars
  <2>3. planCount \in Nat
    BY FrontendAssumption DEF AppInv, StudioInv
  <2> QED
    BY <2>1, <2>2, <2>3 DEF AppInv
<1> HIDE DEF task
<1> QED
  BY <1>1, <1>2, <1>3, <1>4, ProceedKeepsTasksFit

\* The plans that a preparation submits are about what was clicked.
LEMMA PreparedKeepsTasksFit ==
    ASSUME AppInv, NEW t \in Tasks, Prepared(t)
    PROVE  TasksFit'
<1> DEFINE task  == tasks[t]
           maker == task.account
           subject == task.subject
           Planned(steps) == [id |-> 0, maker |-> maker, steps |-> steps]
<1>1. /\ IsTask(task) /\ task.hashes = <<>> /\ maker \in Accounts
      /\ SubjectFits(task.kind, subject, planCount)
      /\ StepsInv /\ TasksFit /\ UNCHANGED txs /\ planCount \in Nat
  <2>1. task.stage = "preparing" /\ UNCHANGED txs
    BY DEF Prepared, chainVars
  <2>2. planCount \in Nat
    BY FrontendAssumption DEF AppInv, StudioInv
  <2> QED
    BY <2>1, <2>2 DEF AppInv, StepsInv, TaskOK, TasksFit, TaskFits
<1>2. CASE task.kind = "execute" /\ UNCHANGED studioVars
  <2>1. UNCHANGED planCount
    BY <1>2 DEF studioVars
  <2>2. PICK route \in Routes :
              IF subject.ticket.order = route.order
              THEN Submit(t, task, Planned(ExecuteSteps(route))) ELSE Ends(t)
    BY <1>2 DEF Prepared, AssertSameQuote
  <2>3. CASE subject.ticket.order = route.order
    <3> DEFINE p == Planned(ExecuteSteps(route))
    <3>1. PlanFits(p, task.kind, maker, subject, planCount)
      BY <1>1, <1>2, <2>3, ExecutionFits
    <3>2. Submit(t, task, p)
      BY <2>2, <2>3
    <3> HIDE DEF p, task, maker, subject
    <3> QED
      BY <1>1, <2>1, <3>1, <3>2, SubmitKeepsTasksFit DEF maker, subject
  <2>4. CASE subject.ticket.order # route.order
    BY <1>1, <2>1, <2>2, <2>4, EndsKeepsTasksFit
  <2> QED
    BY <2>3, <2>4
<1>3. CASE task.kind = "dock" /\ subject.maker = maker
           /\ Submit(t, task, Planned(DockSteps(subject))) /\ UNCHANGED studioVars
  <2>1. UNCHANGED planCount
    BY <1>3 DEF studioVars
  <2>2. PlanFits(Planned(DockSteps(subject)), task.kind, maker, subject, planCount)
    BY <1>1, <1>3, DockingFits
  <2> QED
    BY <1>1, <1>3, <2>1, <2>2, SubmitKeepsTasksFit
<1>4. CASE /\ task.kind = "replace" /\ subject.position.maker = maker
           /\ Submit(t, task, Planned(ReplaceSteps(maker, subject.position, subject.draft)))
           /\ UNCHANGED studioVars
  <2>1. UNCHANGED planCount
    BY <1>4 DEF studioVars
  <2>2. subject.draft \in Drafts
    BY <1>1, <1>4 DEF SubjectFits
  <2>3. PlanFits(Planned(ReplaceSteps(maker, subject.position, subject.draft)),
                 task.kind, maker, subject, planCount)
    BY <1>1, <1>4, <2>2, ReplacementFits
  <2> QED
    BY <1>1, <1>4, <2>1, <2>3, SubmitKeepsTasksFit
<1>5. CASE task.kind = "review" /\ planCount' = planCount + 1
           /\ tasks' = [tasks EXCEPT ![t] = Idle]
  <2>1. ASSUME NEW u \in Tasks PROVE TaskFits(tasks'[u], txs', planCount')
    <3>1. CASE u = t
      BY <1>1, <1>5, <3>1, IdleFits DEF StepsInv
    <3>2. CASE u # t
      <4>1. tasks'[u] = tasks[u] /\ TaskFits(tasks[u], txs, planCount)
        BY <1>1, <1>5, <3>2 DEF StepsInv, TasksFit
      <4>2. planCount' \in Nat /\ planCount <= planCount' /\ txs' = txs
        BY <1>1, <1>5
      <4> QED
        BY <1>1, <4>1, <4>2, TaskFitsGrows
    <3> QED
      BY <3>1, <3>2
  <2> QED
    BY <2>1 DEF TasksFit
<1> QED
  BY <1>2, <1>3, <1>4, <1>5 DEF Prepared

LEMMA PrepareFailsKeepsTasksFit ==
    ASSUME AppInv, NEW t \in Tasks, PrepareFails(t)
    PROVE  TasksFit'
<1>1. UNCHANGED <<txs, planCount>>
  BY DEF PrepareFails, chainVars, studioVars
<1>2. Ends(t) \/ tasks' = [tasks EXCEPT ![t] = Idle]
  BY DEF PrepareFails
<1> QED
  BY <1>1, <1>2, EndsKeepsTasksFit, OneTaskKeepsTasksFit, IdleFits DEF AppInv

\* What was sent keeps its sender: senders of old transactions do not change.
LEMMA SendersKeepTaskFits ==
    ASSUME AppInv, NEW u \in Tasks, UNCHANGED planCount,
           \A h \in 1 .. Len(txs) : txs'[h].from = txs[h].from
    PROVE  TaskFits(tasks[u], txs', planCount')
<1>1. tasks[u].hashes \in Seq(1 .. Len(txs)) /\ TaskFits(tasks[u], txs, planCount)
  BY DEF AppInv, StepsInv, TaskOK, TasksFit
<1>2. planCount \in Nat
  BY FrontendAssumption DEF AppInv, StudioInv
<1>3. \A i \in 1 .. Len(tasks[u].hashes) :
         txs'[tasks[u].hashes[i]].from = txs[tasks[u].hashes[i]].from
  BY <1>1
<1>4. planCount' = planCount /\ planCount <= planCount
  BY <1>2
<1>5. TaskFits(tasks[u], txs', planCount)
  BY <1>1, <1>2, <1>3, <1>4, TaskFitsGrows
<1> QED
  BY <1>4, <1>5

\* A signature: the next step, from the maker of the plan, who is the account.
LEMMA SignFacts ==
    ASSUME AppInv, NEW t \in Tasks, Sign(t)
    PROVE  /\ Len(txs) \in Nat /\ Len(txs') = Len(txs) + 1
           /\ \A h \in 1 .. Len(txs) : txs'[h] = txs[h]
           /\ txs'[Len(txs) + 1].from = tasks[t].account
           /\ txs'[Len(txs) + 1].step = tasks[t].plan.steps[Len(tasks[t].hashes) + 1]
           /\ txs'[Len(txs) + 1].status = "pending"
           /\ tasks' = [tasks EXCEPT ![t] = Sending(tasks[t], Len(txs) + 1)]
           /\ Len(tasks[t].hashes) + 1 \in 1 .. Len(tasks[t].plan.steps)
           /\ tasks[t].account \in Accounts
           /\ PlanFits(tasks[t].plan, tasks[t].kind, tasks[t].account, tasks[t].subject, planCount)
           /\ UNCHANGED <<planCount, approved, shipped, docked, provider, walletAddress, plan,
                          draft, confirmedPlans>>
<1> DEFINE n    == Len(txs)
           task == tasks[t]
           next == Len(task.hashes) + 1
           tx   == [from |-> task.plan.maker, step |-> task.plan.steps[next], status |-> "pending"]
<1>1. PICK S : txs \in Seq(S)
  BY DEF AppInv, StepsInv, TxsOK
<1>2. txs' = Append(txs, tx)
  BY DEF Sign
<1>3. n \in Nat /\ Len(txs') = n + 1 /\ txs'[n + 1] = tx /\ \A h \in 1 .. n : txs'[h] = txs[h]
  <2> HIDE DEF tx
  <2> QED
    BY <1>1, <1>2
<1>4. tasks' = [tasks EXCEPT ![t] = Sending(task, n + 1)]
  BY <1>3 DEF Sign, Sending
<1>5. /\ PlanFits(task.plan, task.kind, task.account, task.subject, planCount)
      /\ task.account \in Accounts
      /\ Len(task.hashes) < Len(task.plan.steps)
      /\ task.hashes \in Seq(1 .. n)
  BY DEF Sign, AppInv, StepsInv, TaskOK, TasksFit, TaskFits
<1>6. task.plan.maker = task.account /\ Len(task.plan.steps) \in Nat
  BY <1>5 DEF PlanFits
<1>7. next \in 1 .. Len(task.plan.steps)
  <2> HIDE DEF task, n
  <2> QED
    BY <1>5, <1>6
<1>8. UNCHANGED <<planCount, approved, shipped, docked, provider, walletAddress, plan,
                  draft, confirmedPlans>>
  BY DEF Sign, studioVars, walletVars
<1> QED
  BY <1>3, <1>4, <1>5, <1>6, <1>7, <1>8

LEMMA ElementsOfSeq ==
    ASSUME NEW S, NEW s \in Seq(S)
    PROVE  \A i \in 1 .. Len(s) : s[i] \in S
OBVIOUS

LEMMA SignKeepsTasksFit ==
    ASSUME AppInv, NEW t \in Tasks, Sign(t)
    PROVE  TasksFit'
<1> DEFINE n    == Len(txs)
           task == tasks[t]
           new  == Sending(task, n + 1)
<1>1. /\ n \in Nat /\ Len(txs') = n + 1
      /\ \A h \in 1 .. n : txs'[h] = txs[h]
      /\ txs'[n + 1].from = task.account
      /\ tasks' = [tasks EXCEPT ![t] = new]
      /\ Len(task.hashes) + 1 \in 1 .. Len(task.plan.steps)
      /\ UNCHANGED planCount
  BY SignFacts
<1>2. /\ IsTask(task) /\ task.hashes \in Seq(1 .. n) /\ TaskFits(task, txs, planCount)
      /\ task.stage = "signing"
  BY DEF AppInv, StepsInv, TaskOK, TasksFit, Sign
<1>3. /\ new.stage = "confirming" /\ new.hashes = Append(task.hashes, n + 1)
      /\ new.kind = task.kind /\ new.account = task.account
      /\ new.subject = task.subject /\ new.plan = task.plan
  <2>1. PICK m : new = Sending(task, m) /\ m = n + 1
    OBVIOUS
  <2> HIDE DEF new, task, n
  <2> QED
    BY <1>2, <2>1, SendingTask
<1> HIDE DEF new
<1>4. TaskFits(new, txs', planCount')
  <2> HIDE DEF task, n
  <2>1. /\ Len(new.hashes) = Len(task.hashes) + 1 /\ Len(task.hashes) \in Nat
        /\ new.hashes[Len(task.hashes) + 1] = n + 1
        /\ \A i \in 1 .. Len(task.hashes) :
              new.hashes[i] = task.hashes[i] /\ task.hashes[i] \in 1 .. n
    <3>1. \A i \in 1 .. Len(task.hashes) : task.hashes[i] \in 1 .. n
      BY <1>2, ElementsOfSeq
    <3>2. PICK h, m : h = task.hashes /\ m = n + 1
      OBVIOUS
    <3>3. /\ Len(Append(h, m)) = Len(h) + 1 /\ Len(h) \in Nat
          /\ Append(h, m)[Len(h) + 1] = m
          /\ \A i \in 1 .. Len(h) : Append(h, m)[i] = h[i]
      BY <1>2, <3>2
    <3> QED
      BY <1>3, <3>1, <3>2, <3>3
  <2>2. Len(new.hashes) <= Len(new.plan.steps)
    BY <1>1, <1>3, <2>1
  <2>3. ASSUME NEW i \in 1 .. Len(new.hashes)
        PROVE  txs'[new.hashes[i]].from = new.account
    <3>1. CASE i = Len(task.hashes) + 1
      BY <1>1, <1>3, <2>1, <3>1
    <3>2. CASE i # Len(task.hashes) + 1
      <4>1. i \in 1 .. Len(task.hashes)
        BY <2>1, <3>2
      <4>2. txs'[new.hashes[i]] = txs[task.hashes[i]]
        BY <1>1, <2>1, <4>1
      <4> QED
        BY <1>2, <1>3, <4>1, <4>2 DEF TaskFits, SignedBy
    <3> QED
      BY <3>1, <3>2
  <2>4. SignedBy(new, txs')
    BY <2>3 DEF SignedBy
  <2>5. PlanFits(new.plan, new.kind, new.account, new.subject, planCount')
    BY <1>1, <1>2, <1>3 DEF TaskFits
  <2>6. SubjectFits(new.kind, new.subject, planCount') /\ new.account \in Accounts
    BY <1>1, <1>2, <1>3 DEF TaskFits
  <2> QED
    BY <1>3, <2>2, <2>4, <2>5, <2>6 DEF TaskFits
<1>5. ASSUME NEW u \in Tasks PROVE TaskFits(tasks'[u], txs', planCount')
  <2>1. CASE u = t
    BY <1>1, <1>4, <2>1 DEF AppInv, StepsInv
  <2>2. CASE u # t
    <3>1. tasks'[u] = tasks[u]
      BY <1>1, <2>2 DEF AppInv, StepsInv
    <3> QED
      BY <1>1, <3>1, SendersKeepTaskFits
  <2> QED
    BY <2>1, <2>2
<1> QED
  BY <1>5 DEF TasksFit

LEMMA ReceiptKeepsTasksFit ==
    ASSUME AppInv, NEW t \in Tasks, ReceiptArrives(t)
    PROVE  TasksFit'
<1> DEFINE task == tasks[t]
           done == Len(task.hashes) = Len(task.plan.steps)
<1>1. UNCHANGED <<txs, planCount>> /\ StepsInv /\ TasksFit
  BY DEF ReceiptArrives, chainVars, studioVars, AppInv
<1>2. CASE Succeeds(txs[Last(task.hashes)])
  <2>1. PICK stage : /\ stage = IF done THEN "refreshing" ELSE "signing"
                     /\ tasks' = [tasks EXCEPT ![t] = Staged(task, stage)]
    BY <1>2 DEF ReceiptArrives, Staged
  <2> DEFINE new == Staged(task, stage)
  <2>2. IsTask(task) /\ TaskFits(task, txs, planCount) /\ task.stage = "confirming"
        /\ Len(task.hashes) \in Nat
    BY DEF AppInv, StepsInv, TaskOK, TasksFit, ReceiptArrives
  <2>3. /\ new.stage = stage /\ new.kind = task.kind /\ new.account = task.account
        /\ new.subject = task.subject /\ new.plan = task.plan /\ new.hashes = task.hashes
    BY <2>2, StagedTask
  <2>4. Len(task.plan.steps) \in Nat
    BY <2>2 DEF TaskFits, PlanFits
  <2> HIDE DEF new
  <2>5. /\ stage \in {"refreshing", "signing"}
        /\ stage = "refreshing" => Len(new.hashes) = Len(new.plan.steps)
        /\ stage = "signing" => Len(new.hashes) < Len(new.plan.steps)
    <3>1. Len(task.hashes) <= Len(task.plan.steps)
      BY <2>2 DEF TaskFits
    <3> QED
      BY <2>1, <2>2, <2>3, <2>4, <3>1
  <2>6. TaskFits(new, txs, planCount)
    <3> HIDE DEF task
    <3>1. SignedBy(new, txs)
      BY <2>2, <2>3 DEF TaskFits, SignedBy
    <3> QED
      BY <2>2, <2>3, <2>5, <3>1 DEF TaskFits
  <2> QED
    BY <1>1, <2>1, <2>6, OneTaskKeepsTasksFit DEF new
<1>3. CASE ~Succeeds(txs[Last(task.hashes)])
  <2>1. Ends(t)
    BY <1>3 DEF ReceiptArrives
  <2> QED
    BY <1>1, <2>1, EndsKeepsTasksFit
<1> QED
  BY <1>2, <1>3

\* An outcome changes neither the sender nor the step of a transaction, and
\* that of one pending transaction only.
LEMMA MineFacts ==
    ASSUME StepsInv, NEW h \in 1 .. Len(txs), Mine(h)
    PROVE  /\ Len(txs') = Len(txs) /\ Len(txs) \in Nat
           /\ \A g \in 1 .. Len(txs) :
                 /\ txs'[g].from = txs[g].from /\ txs'[g].step = txs[g].step
                 /\ g # h => txs'[g] = txs[g]
           /\ txs[h].status = "pending"
           /\ txs'[h].status \in {"success", "reverted"}
           /\ txs'[h].status = "success" => TRUE \in Outcomes(txs[h].step)
<1>1. PICK S : txs \in Seq(S)
  BY DEF StepsInv, TxsOK
<1>2. PICK f, s, o : txs[h] = [from |-> f, step |-> s, status |-> o]
  BY DEF StepsInv, TxsOK, IsTx
<1>3. PICK ok \in Outcomes(txs[h].step) :
        txs' = [txs EXCEPT ![h].status = IF ok THEN "success" ELSE "reverted"]
  BY DEF Mine
<1> DEFINE result == IF ok THEN "success" ELSE "reverted"
           tx     == [from |-> f, step |-> s, status |-> result]
<1>4. txs' = [txs EXCEPT ![h] = tx]
  <2>1. txs' = [txs EXCEPT ![h] = [txs[h] EXCEPT !.status = result]]
    BY <1>3
  <2> HIDE DEF result
  <2>2. [txs[h] EXCEPT !.status = result] = [from |-> f, step |-> s, status |-> result]
    BY <1>2
  <2> QED
    BY <2>1, <2>2
<1>5. /\ tx.from = txs[h].from /\ tx.step = txs[h].step
      /\ tx.status \in {"success", "reverted"}
  BY <1>2
<1>6. tx.status = "success" => TRUE \in Outcomes(txs[h].step)
  <2> SUFFICES ASSUME result = "success" PROVE ok = TRUE
    BY <1>3
  <2>1. Outcomes(txs[h].step) \subseteq BOOLEAN
    BY DEF Outcomes
  <2> QED
    BY <1>3, <2>1
<1>7. /\ Len(txs') = Len(txs) /\ Len(txs) \in Nat /\ txs'[h] = tx
      /\ \A g \in 1 .. Len(txs) : g # h => txs'[g] = txs[g]
  <2> HIDE DEF tx
  <2> QED
    BY <1>1, <1>4
<1>8. txs[h].status = "pending"
  BY DEF Mine
<1> HIDE DEF tx
<1> QED
  BY <1>5, <1>6, <1>7, <1>8

LEMMA MineKeepsTasksFit ==
    ASSUME AppInv, NEW h \in 1 .. Len(txs), Mine(h)
    PROVE  TasksFit'
<1>1. UNCHANGED <<planCount, tasks>>
  BY DEF Mine, studioVars
<1>2. \A g \in 1 .. Len(txs) : txs'[g].from = txs[g].from
  BY MineFacts DEF AppInv
<1>3. \A u \in Tasks : TaskFits(tasks[u], txs', planCount')
  BY <1>1, <1>2, SendersKeepTaskFits
<1> QED
  BY <1>1, <1>3 DEF TasksFit

LEMMA ReloadKeepsTasksFit == Reload => TasksFit'
<1> SUFFICES ASSUME Reload PROVE TasksFit'
  OBVIOUS
<1>1. tasks' = [t \in Tasks |-> Idle]
  BY DEF Reload
<1> QED
  BY <1>1, IdleFits DEF TasksFit

LEMMA TasksFitStep == AppInv /\ [Next]_vars => TasksFit'
<1> SUFFICES ASSUME AppInv, [Next]_vars PROVE TasksFit'
  OBVIOUS
<1>1. ASSUME UNCHANGED <<tasks, txs, planCount>> PROVE TasksFit'
  BY <1>1 DEF AppInv, TasksFit
<1>2. ASSUME NEW t \in Tasks,
             ConnectFails(t) \/ Reject(t) \/ TimesOut(t) \/ Refreshed(t)
      PROVE  TasksFit'
  <2>1. Ends(t) /\ UNCHANGED <<txs, planCount>>
    BY <1>2 DEF ConnectFails, Reject, TimesOut, Refreshed, chainVars, studioVars
  <2> QED
    BY <2>1, EndsKeepsTasksFit DEF AppInv
<1>3. ASSUME NEW t \in Tasks, TaskStep(t) PROVE TasksFit'
  BY <1>2, <1>3, ClickKeepsTasksFit, ConnectedKeepsTasksFit, PreparedKeepsTasksFit,
     PrepareFailsKeepsTasksFit, SignKeepsTasksFit, ReceiptKeepsTasksFit DEF TaskStep, Waits
<1>4. CASE \/ \E t \in Tickets : EditTicket(t)
           \/ DebounceEnds
           \/ \E r \in requests : QuoteEnds(r)
           \/ \E account \in Accounts \cup {None} : AccountsChanged(account)
           \/ Disconnected
           \/ \E c \in Curves : EditDraft(c)
           \/ CloseReview
           \/ \E v \in Views : Navigate(v)
           \/ UNCHANGED vars
  <2>1. UNCHANGED <<tasks, txs, planCount>>
    BY <1>4 DEF EditTicket, DebounceEnds, QuoteEnds, AccountsChanged, Disconnected, EditDraft,
       CloseReview, Navigate, chainVars, studioVars, vars
  <2> QED
    BY <1>1, <2>1
<1>5. CASE \E h \in 1 .. Len(txs) : Mine(h)
  BY <1>5, MineKeepsTasksFit
<1> QED
  BY <1>3, <1>4, <1>5, ReloadKeepsTasksFit DEF Next
-----------------------------------------------------------------------------
(* The studio and the chain.                                                *)

LEMMA SetWalletFits ==
    ASSUME NEW account \in Accounts \cup {None}, SetWallet(account)
    PROVE  walletAddress' \in Accounts \cup {None}
BY DEF SetWallet

\* Nothing but the account, or nothing at all, changes.
LEMMA SameStudioFits ==
    ASSUME StudioInv, UNCHANGED <<provider, confirmedPlans>>,
           walletAddress' \in Accounts \cup {None},
           UNCHANGED <<view, studio, draft, planCount>>, plan' \in {plan, NoPlan}
    PROVE  StudioInv'
BY DEF StudioInv

LEMMA MountsFits ==
    ASSUME StudioInv, NEW v \in Views, Mounts(v)
    PROVE  plan' = NoPlan /\ studio' \in Nat /\ draft' \in Drafts
<1>1. CASE v = "studio"
  <2>1. draft' = [curve |-> InitialCurve, salt |-> draft.salt + 1] /\ studio' = studio + 1
    BY <1>1 DEF Mounts
  <2> QED
    BY <2>1, FrontendAssumption DEF Mounts, StudioInv, Drafts
<1>2. CASE v # "studio"
  BY <1>2 DEF Mounts, StudioInv
<1> QED
  BY <1>1, <1>2

LEMMA StudioInvStep == AppInv /\ [Next]_vars => StudioInv'
<1> SUFFICES ASSUME AppInv, [Next]_vars PROVE StudioInv'
  OBVIOUS
<1> USE DEF AppInv
<1>1. walletAddress \in Accounts \cup {None} /\ planCount \in Nat
  BY FrontendAssumption DEF StudioInv
<1>2. ASSUME UNCHANGED <<walletVars, studioVars, confirmedPlans>> PROVE StudioInv'
  BY <1>1, <1>2, SameStudioFits DEF walletVars, studioVars
<1>3. ASSUME NEW account \in Accounts \cup {None}, AccountsChanged(account) PROVE StudioInv'
  <2>1. walletAddress' \in Accounts \cup {None} /\ provider' \in Accounts \cup {None}
    BY <1>3, SetWalletFits DEF AccountsChanged
  <2> QED
    BY <1>3, <2>1 DEF AccountsChanged, studioVars, StudioInv
<1>4. CASE Disconnected
  BY <1>4, SetWalletFits, SameStudioFits DEF Disconnected, studioVars
<1>5. ASSUME NEW c \in Curves, EditDraft(c) PROVE StudioInv'
  <2>1. draft' = [curve |-> c, salt |-> draft.salt] /\ draft.salt \in Nat
    BY <1>5 DEF EditDraft, StudioInv, Drafts
  <2>2. draft' \in Drafts
    BY <2>1 DEF Drafts
  <2> QED
    BY <1>5, <2>2 DEF EditDraft, walletVars, StudioInv
<1>6. CASE CloseReview
  BY <1>1, <1>6, SameStudioFits DEF CloseReview, walletVars
<1>7. ASSUME NEW t \in Tasks, Click(t) PROVE StudioInv'
  <2>1. /\ UNCHANGED <<walletVars, confirmedPlans, view, studio, draft, planCount>>
        /\ plan' \in {plan, NoPlan}
    BY <1>7 DEF Click, ClickExecute, ClickReview, ClickPublish, ClickDock, ClickReplace, Starts,
       Proceed, studioVars
  <2> QED
    BY <1>1, <2>1, SameStudioFits DEF walletVars
<1>8. ASSUME NEW t \in Tasks, Connected(t) PROVE StudioInv'
  <2>1. /\ UNCHANGED <<provider, confirmedPlans, view, studio, draft, planCount>>
        /\ plan' \in {plan, NoPlan} /\ SetWallet(provider)
    BY <1>8 DEF Connected, Proceed, studioVars
  <2>2. walletAddress' \in Accounts \cup {None}
    BY <2>1, SetWalletFits DEF StudioInv
  <2> QED
    BY <2>1, <2>2, SameStudioFits
<1>9. ASSUME NEW t \in Tasks,
             \/ ConnectFails(t) \/ Sign(t) \/ Reject(t) \/ TimesOut(t)
      PROVE  StudioInv'
  BY <1>2, <1>9 DEF ConnectFails, Sign, Reject, TimesOut
<1>10. ASSUME NEW t \in Tasks, PrepareFails(t) PROVE StudioInv'
  BY <1>1, <1>10, SameStudioFits DEF PrepareFails, walletVars, studioVars
<1>11. ASSUME NEW t \in Tasks, Prepared(t) PROVE StudioInv'
  <2>1. CASE UNCHANGED studioVars
    BY <1>2, <1>11, <2>1 DEF Prepared
  <2>2. CASE /\ tasks[t].kind = "review"
             /\ planCount < MaxPlans
             /\ planCount' = planCount + 1
             /\ \/ plan' = [id |-> planCount', maker |-> tasks[t].account,
                            steps |-> PublishSteps(tasks[t].account, tasks[t].subject)]
                \/ plan' = plan
             /\ UNCHANGED <<view, studio, draft>>
    <3>1. tasks[t].subject \in Drafts
      BY <2>2 DEF TasksFit, TaskFits, SubjectFits
    <3>2. planCount' \in Nat \ {0} /\ planCount' \in 0 .. MaxPlans
      BY <1>1, <2>2, FrontendAssumption DEF StudioInv
    <3>3. plan' = NoPlan \/ PublishPlan(plan', planCount')
      <4>1. planCount <= planCount'
        BY <1>1, <2>2
      <4> QED
        BY <1>1, <2>2, <3>1, <3>2, <4>1, ReviewPlanFits, PublishPlanGrows DEF StudioInv
    <3>4. UNCHANGED <<provider, walletAddress, confirmedPlans>>
      BY <1>11 DEF Prepared, walletVars
    <3>5. 1 .. planCount \subseteq 1 .. planCount'
      BY <1>1, <2>2
    <3> QED
      BY <2>2, <3>2, <3>3, <3>4, <3>5 DEF StudioInv
  <2> QED
    BY <1>11, <2>1, <2>2 DEF Prepared
<1>12. ASSUME NEW t \in Tasks, ReceiptArrives(t) PROVE StudioInv'
  <2>1. UNCHANGED <<walletVars, studioVars>>
    BY <1>12 DEF ReceiptArrives
  <2>2. tasks[t].plan.id \in 0 .. planCount
    BY <1>12 DEF ReceiptArrives, TasksFit, TaskFits, PlanFits
  <2>3. confirmedPlans' \subseteq 1 .. planCount
    <3>1. confirmedPlans' \subseteq confirmedPlans \cup ({tasks[t].plan.id} \ {0})
      BY <1>12 DEF ReceiptArrives
    <3>2. {tasks[t].plan.id} \ {0} \subseteq 1 .. planCount
      BY <1>1, <2>2
    <3> QED
      BY <3>1, <3>2 DEF StudioInv
  <2> QED
    BY <2>1, <2>3 DEF walletVars, studioVars, StudioInv
<1>13. ASSUME NEW t \in Tasks, Refreshed(t) PROVE StudioInv'
  <2>1. CASE tasks[t].kind = "publish" /\ Mounted(tasks[t])
    <3>1. /\ draft' = [draft EXCEPT !.salt = @ + 1] /\ plan' = NoPlan
          /\ UNCHANGED <<view, studio, planCount>>
      BY <1>13, <2>1 DEF Refreshed
    <3>2. draft' = [curve |-> draft.curve, salt |-> draft.salt + 1]
      BY <3>1 DEF StudioInv, Drafts
    <3>3. draft' \in Drafts
      BY <3>2 DEF StudioInv, Drafts
    <3>4. UNCHANGED <<provider, walletAddress, confirmedPlans>>
      BY <1>13 DEF Refreshed, walletVars
    <3> QED
      BY <3>1, <3>3, <3>4 DEF StudioInv
  <2>2. CASE ~(tasks[t].kind = "publish" /\ Mounted(tasks[t]))
    BY <1>2, <1>13, <2>2 DEF Refreshed
  <2> QED
    BY <2>1, <2>2
<1>14. ASSUME NEW t \in Tasks, TaskStep(t) PROVE StudioInv'
  BY <1>7, <1>8, <1>9, <1>10, <1>11, <1>12, <1>13, <1>14 DEF TaskStep, Waits
<1>15. CASE \/ \E t \in Tickets : EditTicket(t)
            \/ DebounceEnds
            \/ \E r \in requests : QuoteEnds(r)
            \/ \E h \in 1 .. Len(txs) : Mine(h)
            \/ UNCHANGED vars
  BY <1>2, <1>15 DEF EditTicket, DebounceEnds, QuoteEnds, Mine, vars
<1>16. ASSUME NEW v \in Views, Navigate(v) PROVE StudioInv'
  BY <1>16, MountsFits DEF Navigate, walletVars, StudioInv
<1>17. CASE Reload
  BY <1>17, MountsFits DEF Reload, StudioInv
<1> QED
  BY <1>3, <1>4, <1>5, <1>6, <1>14, <1>15, <1>16, <1>17 DEF Next

\* What Aqua answers does not change: transactions fit as long as its sets grow.
LEMMA TxFitsGrows ==
    ASSUME NEW tx, TxFits(tx), shipped \subseteq shipped', docked \subseteq docked'
    PROVE  TxFits(tx)'
BY DEF TxFits

\* A step of a plan, once sent and pending.
LEMMA PendingFits ==
    ASSUME NEW tx, NEW kind, NEW subject, tx.from \in Accounts, tx.status = "pending",
           StepFits(tx.step, kind, tx.from, subject)
    PROVE  TxFits(tx)
<1>1. CASE PublishStep(tx.step, tx.from)
  <2>1. ASSUME NEW token \in Outgoing, tx.step = Step("approve-aqua", token) PROVE TxFits(tx)
    <3>1. tx.step.action = "approve-aqua" /\ tx.step.subject = token
      BY <2>1 DEF Step
    <3> QED
      BY <3>1 DEF TxFits
  <2>2. ASSUME NEW d \in Drafts, tx.step = Step("publish-position", PositionOf(tx.from, d))
        PROVE  TxFits(tx)
    <3>1. tx.step.action = "publish-position" /\ tx.step.subject = PositionOf(tx.from, d)
      BY <2>2 DEF Step
    <3> QED
      BY <3>1 DEF TxFits
  <2> QED
    BY <1>1, <2>1, <2>2 DEF PublishStep
<1>2. CASE tx.step.action \in {"dock-position"} \cup RouteActions
  BY <1>2 DEF TxFits, RouteActions
<1> QED
  BY <1>1, <1>2 DEF StepFits

LEMMA SignKeepsChainInv ==
    ASSUME AppInv, NEW t \in Tasks, Sign(t)
    PROVE  ChainInv'
<1> DEFINE n == Len(txs)
<1>1. /\ n \in Nat /\ Len(txs') = n + 1
      /\ \A h \in 1 .. n : txs'[h] = txs[h]
      /\ UNCHANGED <<approved, shipped, docked>>
      /\ txs'[n + 1].status = "pending" /\ txs'[n + 1].from \in Accounts
  BY SignFacts
<1>2. StepFits(txs'[n + 1].step, tasks[t].kind, txs'[n + 1].from, tasks[t].subject)
  BY SignFacts DEF PlanFits
<1>3. ASSUME NEW h \in 1 .. Len(txs') PROVE TxFits(txs[h])'
  <2>1. CASE h = n + 1
    <3>1. TxFits(txs'[n + 1])
      BY <1>1, <1>2, PendingFits
    <3> QED
      BY <1>1, <2>1, <3>1 DEF TxFits
  <2>2. CASE h # n + 1
    <3>1. h \in 1 .. n
      BY <1>1, <2>2
    <3>2. TxFits(txs[h]) /\ txs'[h] = txs[h]
      BY <1>1, <3>1 DEF AppInv, ChainInv
    <3> QED
      BY <1>1, <3>2 DEF TxFits
  <2> QED
    BY <2>1, <2>2
<1>4. Publications' \subseteq Publications
  BY <1>1 DEF Publications
<1>5. \A g \in Publications' : txs'[g] = txs[g]
  BY <1>1, <1>4 DEF Publications
<1> QED
  BY <1>1, <1>3, <1>4, <1>5 DEF AppInv, ChainInv

\* Aqua ships a strategy once: a second publication of it reverts.
LEMMA MineKeepsChainInv ==
    ASSUME AppInv, NEW h \in 1 .. Len(txs), Mine(h)
    PROVE  ChainInv'
<1> DEFINE step == txs[h].step
           ok   == txs'[h].status = "success"
<1>1. /\ Len(txs') = Len(txs) /\ Len(txs) \in Nat
      /\ \A g \in 1 .. Len(txs) :
            /\ txs'[g].from = txs[g].from /\ txs'[g].step = txs[g].step
            /\ g # h => txs'[g] = txs[g]
      /\ txs[h].status = "pending"
      /\ ok => TRUE \in Outcomes(step)
  BY MineFacts DEF AppInv
<1>2. TxFits(txs[h]) /\ ChainInv
  BY DEF AppInv, ChainInv
<1>3. /\ approved' = IF step.action = "approve-aqua" /\ ok
                     THEN approved \cup {<<txs[h].from, step.subject>>} ELSE approved
      /\ shipped' = IF step.action = "publish-position" /\ ok
                    THEN shipped \cup {step.subject} ELSE shipped
      /\ docked' = IF step.action = "dock-position" /\ ok
                   THEN docked \cup {step.subject} ELSE docked
  BY DEF Mine
<1>4. approved' \subseteq Accounts \X Outgoing
  BY <1>2, <1>3 DEF TxFits, ChainInv
<1>5. shipped' \subseteq ShippedPositions
  <2>1. ASSUME step.action = "publish-position" PROVE step.subject \in ShippedPositions
    <3>1. PICK d \in Drafts : step.subject = PositionOf(txs[h].from, d)
      BY <1>2, <2>1 DEF TxFits
    <3> QED
      BY <1>2, <3>1 DEF TxFits, PositionOf, Salt, Drafts, ShippedPositions
  <2> QED
    BY <1>2, <1>3, <2>1 DEF ChainInv
<1>6. docked' \subseteq shipped'
  <2>1. step.action = "dock-position" /\ ok => step.subject \in shipped
    BY <1>1 DEF Outcomes
  <2> QED
    BY <1>2, <1>3, <2>1 DEF ChainInv
<1>7. ASSUME NEW g \in 1 .. Len(txs') PROVE TxFits(txs[g])'
  <2>1. CASE g = h
    BY <1>1, <1>2, <1>3, <2>1 DEF TxFits
  <2>2. CASE g # h
    BY <1>1, <1>3, <2>2 DEF AppInv, ChainInv, TxFits
  <2> QED
    BY <2>1, <2>2
<1>8. ASSUME NEW f \in Publications', NEW g \in Publications',
             txs'[f].step.subject = txs'[g].step.subject
      PROVE  f = g
  <2>1. \A k \in Publications' \ {h} : k \in Publications /\ txs'[k] = txs[k]
    BY <1>1 DEF Publications
  <2>2. ASSUME h \in Publications', NEW k \in Publications' \ {h}
        PROVE  txs[k].step.subject # step.subject
    <3>1. step.action = "publish-position" /\ ok
      BY <1>1, <2>2 DEF Publications
    <3>2. step.subject \notin shipped
      BY <1>1, <3>1 DEF Outcomes
    <3>3. TxFits(txs[k]) /\ k \in Publications
      BY <2>1, <2>2 DEF Publications, AppInv, ChainInv
    <3>4. txs[k].step.subject \in shipped
      BY <3>3 DEF Publications, TxFits
    <3> QED
      BY <3>2, <3>4
  <2>3. txs'[h].step = step
    BY <1>1
  <2>4. CASE f # h /\ g # h
    BY <1>2, <1>8, <2>1, <2>4 DEF ChainInv
  <2>5. CASE f = h \/ g = h
    BY <1>8, <2>1, <2>2, <2>3, <2>5
  <2> QED
    BY <2>4, <2>5
<1> QED
  BY <1>4, <1>5, <1>6, <1>7, <1>8 DEF ChainInv

LEMMA ChainInvStep == AppInv /\ [Next]_vars => ChainInv'
<1> SUFFICES ASSUME AppInv, [Next]_vars PROVE ChainInv'
  OBVIOUS
<1>1. ASSUME UNCHANGED chainVars PROVE ChainInv'
  BY <1>1 DEF AppInv, ChainInv, TxFits, Publications, chainVars
<1>2. ASSUME NEW t \in Tasks, TaskStep(t) PROVE ChainInv'
  <2>1. CASE Sign(t)
    BY <2>1, SignKeepsChainInv
  <2>2. CASE ~Sign(t)
    <3>1. UNCHANGED chainVars
      BY <1>2, <2>2 DEF TaskStep, Waits, Click, ClickExecute, ClickReview, ClickPublish, ClickDock,
         ClickReplace, Starts, Connected, ConnectFails, Reject, Prepared, PrepareFails,
         ReceiptArrives, TimesOut, Refreshed
    <3> QED
      BY <1>1, <3>1
  <2> QED
    BY <2>1, <2>2
<1>3. CASE \/ \E t \in Tickets : EditTicket(t)
           \/ DebounceEnds
           \/ \E r \in requests : QuoteEnds(r)
           \/ \E account \in Accounts \cup {None} : AccountsChanged(account)
           \/ Disconnected
           \/ \E c \in Curves : EditDraft(c)
           \/ CloseReview
           \/ \E v \in Views : Navigate(v)
           \/ UNCHANGED vars
  BY <1>1, <1>3 DEF EditTicket, DebounceEnds, QuoteEnds, AccountsChanged, Disconnected, EditDraft,
     CloseReview, Navigate, vars
<1>4. CASE \E h \in 1 .. Len(txs) : Mine(h)
  BY <1>4, MineKeepsChainInv
<1>5. CASE Reload
  BY <1>1, <1>5 DEF Reload
<1> QED
  BY <1>2, <1>3, <1>4, <1>5 DEF Next

LEMMA AppInvInit == Init => AppInv
<1> SUFFICES ASSUME Init PROVE AppInv
  OBVIOUS
<1>1. Len(txs) = 0 /\ txs \in Seq({})
  BY DEF Init
<1>2. tasks = [t \in Tasks |-> Idle]
  BY DEF Init
<1>3. StepsInv
  <2>1. TxsOK
    BY <1>1 DEF TxsOK
  <2> QED
    BY <1>2, <2>1, IdleIsFresh DEF StepsInv
<1>4. ChainInv
  BY <1>1 DEF Init, ChainInv, Publications
<1>5. StudioInv
  BY FrontendAssumption DEF Init, StudioInv, Drafts
<1>6. TasksFit
  BY <1>2, IdleFits DEF TasksFit
<1> QED
  BY <1>3, <1>4, <1>5, <1>6 DEF AppInv

LEMMA AppInvStep == AppInv /\ [Next]_vars => AppInv'
BY StepsInvStep, ChainInvStep, StudioInvStep, TasksFitStep DEF AppInv
-----------------------------------------------------------------------------
(* What the runs check of the tasks follows.                                *)

\* What a task has sent is a step of its plan.
LEMMA SentFacts ==
    ASSUME AppInv, NEW t \in Tasks, NEW tx \in Sent(t)
    PROVE  \E i \in 1 .. Len(tasks[t].hashes) :
              LET task == tasks[t] IN
              /\ tx = txs[task.hashes[i]] /\ task.hashes[i] \in 1 .. Len(txs)
              /\ tx.step = task.plan.steps[i] /\ tx.from = task.account
              /\ i \in 1 .. Len(task.plan.steps)
              /\ PlanFits(task.plan, task.kind, task.account, task.subject, planCount)
              /\ i < Len(task.hashes) => txs[task.hashes[i]].status = "success"
<1> DEFINE task == tasks[t]
<1>1. TaskOK(task, txs) /\ TaskFits(task, txs, planCount)
  BY DEF AppInv, StepsInv, TasksFit
<1>2. task.hashes \in Seq(1 .. Len(txs)) /\ IsTask(task)
  BY <1>1 DEF TaskOK
<1>3. PICK i \in 1 .. Len(task.hashes) : tx = txs[task.hashes[i]]
  <2>1. PICK h \in Range(task.hashes) : tx = txs[h]
    BY DEF Sent
  <2>2. DOMAIN task.hashes = 1 .. Len(task.hashes)
    BY <1>2
  <2> QED
    BY <2>1, <2>2 DEF Range
<1>4. task.hashes[i] \in 1 .. Len(txs)
  BY <1>2, ElementsOfSeq
<1>5. task.hashes # <<>> /\ Len(task.hashes) \in Nat
  BY <1>2, <1>3
<1>6. task.stage \in {"signing", "confirming", "refreshing"}
  BY <1>1, <1>5 DEF TaskOK, TaskFits
<1>7. /\ PlanFits(task.plan, task.kind, task.account, task.subject, planCount)
      /\ Len(task.hashes) <= Len(task.plan.steps) /\ Len(task.plan.steps) \in Nat
      /\ tx.from = task.account
  <2>1. PlanFits(task.plan, task.kind, task.account, task.subject, planCount)
    BY <1>1, <1>6 DEF TaskFits
  <2>2. Len(task.plan.steps) \in Nat
    BY <2>1 DEF PlanFits
  <2>3. Len(task.hashes) <= Len(task.plan.steps)
    BY <1>1, <1>5, <1>6, <2>2 DEF TaskFits
  <2>4. tx.from = task.account
    BY <1>1, <1>3 DEF TaskFits, SignedBy
  <2> QED
    BY <2>1, <2>2, <2>3, <2>4
<1>8. i \in 1 .. Len(task.plan.steps)
  BY <1>5, <1>7
<1>9. /\ tx.step = task.plan.steps[i]
      /\ i < Len(task.hashes) => txs[task.hashes[i]].status = "success"
  BY <1>1, <1>3 DEF TaskOK, InOrder
<1> QED
  BY <1>3, <1>4, <1>7, <1>8, <1>9

\* Whatever a task awaited, it signs with the account it was started with, trades
\* the order of the quote that was clicked, and approves the route it sends
\* (App.tsx, client.ts), for any number of overlapping tasks and any limits.
THEOREM FrontendSignedAsReviewed == Spec => []SignedAsReviewed
<1>1. AppInv => SignedAsReviewed
  <2> SUFFICES ASSUME AppInv, NEW t \in Tasks, NEW tx \in Sent(t)
               PROVE  /\ tx.from = tasks[t].account
                      /\ tx.step.action \in {"publish-position", "dock-position"} =>
                            tx.step.subject.maker = tx.from
                      /\ tx.step.action \in RouteActions =>
                            tx.step.subject.order = tasks[t].subject.ticket.order
                      /\ \A other \in Sent(t) :
                            {tx.step.action, other.step.action} \subseteq RouteActions =>
                                tx.step.subject = other.step.subject
    BY DEF SignedAsReviewed
  <2> DEFINE task == tasks[t]
  <2>1. tx.from = task.account /\ StepFits(tx.step, task.kind, task.account, task.subject)
    BY SentFacts DEF PlanFits
  <2>2. ASSUME PublishStep(tx.step, task.account)
        PROVE  /\ tx.step.action \in {"approve-aqua", "publish-position"}
               /\ tx.step.action = "publish-position" => tx.step.subject.maker = task.account
    <3>1. ASSUME NEW token, tx.step = Step("approve-aqua", token)
          PROVE  tx.step.action = "approve-aqua"
      BY <3>1 DEF Step
    <3>2. ASSUME NEW d, tx.step = Step("publish-position", PositionOf(task.account, d))
          PROVE  /\ tx.step.action = "publish-position"
                 /\ tx.step.subject.maker = task.account
      BY <3>2 DEF Step, PositionOf
    <3> QED
      BY <2>2, <3>1, <3>2 DEF PublishStep
  <2>3. ASSUME NEW other \in Sent(t), tx.step.action \in RouteActions,
               other.step.action \in RouteActions
        PROVE  tx.step.subject = other.step.subject
    <3>1. PICK i \in 1 .. Len(task.plan.steps) :
                /\ tx.step = task.plan.steps[i]
                /\ PlanFits(task.plan, task.kind, task.account, task.subject, planCount)
      BY SentFacts
    <3>2. PICK j \in 1 .. Len(task.plan.steps) : other.step = task.plan.steps[j]
      BY SentFacts
    <3>3. task.kind = "execute"
      BY <2>1, <2>2, <2>3 DEF StepFits, RouteActions
    <3> QED
      BY <3>1, <3>2, <3>3 DEF PlanFits
  <2> QED
    BY <2>1, <2>2, <2>3 DEF StepFits, RouteActions
<1> QED
  BY <1>1, AppInvInit, AppInvStep, PTL DEF Spec

\* A replacement is sent only once its position is docked: the first step of the
\* plan is the dock, and the publication comes later (client.ts).
THEOREM FrontendReplacementFollowsDock == Spec => []ReplacementFollowsDock
<1>1. AppInv => ReplacementFollowsDock
  <2> SUFFICES ASSUME AppInv, NEW t \in Tasks, NEW tx \in Sent(t),
                      tasks[t].kind = "replace", tx.step.action = "publish-position"
               PROVE  tasks[t].subject.position \in docked
    BY DEF ReplacementFollowsDock
  <2> DEFINE task == tasks[t]
             dock == Step("dock-position", task.subject.position)
  <2>1. PICK i \in 1 .. Len(task.hashes) :
              /\ tx.step = task.plan.steps[i]
              /\ PlanFits(task.plan, task.kind, task.account, task.subject, planCount)
    BY SentFacts
  <2>2. task.plan.steps[1] = dock /\ dock.action = "dock-position"
        /\ dock.subject = task.subject.position
    BY <2>1 DEF PlanFits, Step
  <2>3. TaskOK(task, txs) /\ task.hashes \in Seq(1 .. Len(txs))
    BY DEF AppInv, StepsInv, TaskOK
  <2>4. 1 \in 1 .. Len(task.hashes) /\ 1 < Len(task.hashes)
    <3>1. i # 1
      BY <2>1, <2>2
    <3>2. Len(task.hashes) \in Nat
      BY <2>3
    <3> HIDE DEF task
    <3> QED
      BY <3>1, <3>2
  <2>5. task.hashes[1] \in 1 .. Len(txs)
    BY <2>3, <2>4, ElementsOfSeq
  <2>6. txs[task.hashes[1]].step = dock /\ txs[task.hashes[1]].status = "success"
    BY <2>2, <2>3, <2>4 DEF TaskOK, InOrder
  <2>7. TxFits(txs[task.hashes[1]])
    BY <2>5 DEF AppInv, ChainInv
  <2> QED
    BY <2>2, <2>6, <2>7 DEF TxFits
<1> QED
  BY <1>1, AppInvInit, AppInvStep, PTL DEF Spec

LEMMA OneShipForDraft == AppInv => DraftIsShippedOnce
<1> SUFFICES ASSUME AppInv, NEW g \in Publications, NEW h \in Publications,
                    txs[g].step.subject.maker = txs[h].step.subject.maker,
                    txs[g].step.subject.draft = txs[h].step.subject.draft
             PROVE  g = h
  BY DEF DraftIsShippedOnce
<1>1. ASSUME NEW k \in Publications
      PROVE  LET s == txs[k].step.subject IN s = PositionOf(s.maker, s.draft)
  <2>1. TxFits(txs[k]) /\ txs[k].step.action = "publish-position"
    BY DEF Publications, AppInv, ChainInv
  <2>2. PICK d \in Drafts : txs[k].step.subject = PositionOf(txs[k].from, d)
    BY <2>1 DEF TxFits
  <2> QED
    BY <2>2 DEF PositionOf
<1>2. txs[g].step.subject = txs[h].step.subject
  BY <1>1
<1> QED
  BY <1>2 DEF AppInv, ChainInv
-----------------------------------------------------------------------------
(* The page: what the ticket and the buttons show.                          *)

PageInv ==
    /\ ticket \in Tickets /\ requests \subseteq Quotes /\ quote \in Quotes \cup {None}
    /\ {debounce, quoteLoading, reviewOpen, planLoading, running} \subseteq BOOLEAN

\* Actions that leave the ticket alone, or restart its quote.
LEMMA TicketKept ==
    ASSUME PageInv, UNCHANGED ticketVars \/ (RestartQuote /\ UNCHANGED ticket),
           {reviewOpen', planLoading', running'} \subseteq BOOLEAN
    PROVE  PageInv'
BY DEF PageInv, ticketVars, RestartQuote, Aborted

LEMMA PageInvStep == AppInv /\ PageInv /\ [Next]_vars => PageInv'
<1> SUFFICES ASSUME AppInv, PageInv, [Next]_vars PROVE PageInv'
  OBVIOUS
<1>1. {reviewOpen, planLoading, running} \subseteq BOOLEAN
  BY DEF PageInv
<1>2. ASSUME NEW t \in Tickets, EditTicket(t) PROVE PageInv'
  BY <1>2 DEF EditTicket, RestartQuote, Aborted, studioVars, PageInv
<1>3. CASE DebounceEnds
  <2>1. ticket \in ValidTickets => [ticket |-> ticket, recipient |-> walletAddress] \in Quotes
    BY DEF Quotes, PageInv, AppInv, StudioInv
  <2>2. UNCHANGED <<ticket, reviewOpen, planLoading, running>> /\ debounce' = FALSE
    BY <1>3 DEF DebounceEnds, studioVars
  <2>3. /\ requests' \subseteq Quotes /\ quote' \in Quotes \cup {None}
        /\ quoteLoading' \in BOOLEAN
    BY <1>3, <2>1 DEF DebounceEnds, PageInv
  <2> QED
    BY <2>2, <2>3 DEF PageInv
<1>4. ASSUME NEW r \in requests, QuoteEnds(r) PROVE PageInv'
  BY <1>4 DEF QuoteEnds, studioVars, PageInv
<1>5. ASSUME NEW account, AccountsChanged(account) PROVE PageInv'
  BY <1>1, <1>5, TicketKept DEF AccountsChanged, SetWallet, studioVars
<1>6. CASE Disconnected
  BY <1>1, <1>6, TicketKept DEF Disconnected, SetWallet, studioVars
<1>7. ASSUME NEW t \in Tasks, Click(t) PROVE PageInv'
  <2>1. PICK kind, subject : Starts(t, kind, subject)
    BY <1>7 DEF Click, ClickExecute, ClickReview, ClickPublish, ClickDock, ClickReplace
  <2>2. UNCHANGED ticketVars
    BY <2>1 DEF Starts
  <2>3. {reviewOpen', planLoading', running'} \subseteq BOOLEAN
    BY <1>1, <2>1 DEF Starts, Proceed, Submit, Ends, studioVars
  <2> QED
    BY <2>2, <2>3, TicketKept
<1>8. ASSUME NEW t \in Tasks, Connected(t) PROVE PageInv'
  <2>1. {reviewOpen', planLoading', running'} \subseteq BOOLEAN
    BY <1>1, <1>8 DEF Connected, Proceed, Submit, Ends, studioVars
  <2> QED
    BY <1>8, <2>1, TicketKept DEF Connected, SetWallet
<1>9. ASSUME NEW t \in Tasks,
             ConnectFails(t) \/ Sign(t) \/ Reject(t) \/ ReceiptArrives(t) \/ TimesOut(t)
      PROVE  PageInv'
  BY <1>1, <1>9, TicketKept DEF ConnectFails, Sign, Reject, ReceiptArrives, TimesOut, Ends,
     studioVars
<1>10. ASSUME NEW t \in Tasks, Prepared(t) \/ PrepareFails(t) PROVE PageInv'
  <2>1. {reviewOpen', planLoading', running'} \subseteq BOOLEAN
    BY <1>1, <1>10 DEF Prepared, PrepareFails, Submit, Ends, studioVars
  <2>2. UNCHANGED ticketVars
    BY <1>10 DEF Prepared, PrepareFails
  <2> QED
    BY <2>1, <2>2, TicketKept
<1>11. ASSUME NEW t \in Tasks, Refreshed(t) PROVE PageInv'
  BY <1>1, <1>11, TicketKept DEF Refreshed, Ends, studioVars
<1>12. ASSUME NEW t \in Tasks, TaskStep(t) PROVE PageInv'
  BY <1>7, <1>8, <1>9, <1>10, <1>11, <1>12 DEF TaskStep, Waits
<1>13. CASE \/ \E c \in Curves : EditDraft(c)
            \/ CloseReview
            \/ \E v \in Views : Navigate(v)
            \/ \E h \in 1 .. Len(txs) : Mine(h)
            \/ UNCHANGED vars
  BY <1>1, <1>13, TicketKept DEF EditDraft, CloseReview, Navigate, Mounts, Mine, studioVars, vars
<1>14. CASE Reload
  BY <1>14, FrontendAssumption DEF Reload, Mounts, PageInv
<1> QED
  BY <1>2, <1>3, <1>4, <1>5, <1>6, <1>12, <1>13, <1>14 DEF Next

\* The state of the page, the tasks and the chain is well formed, for any number
\* of accounts, tasks and transactions.
THEOREM FrontendTypeOK == Spec => []TypeOK
<1>1. Init => PageInv
  BY FrontendAssumption DEF Init, PageInv
<1>2. AppInv /\ PageInv => TypeOK
  <2> SUFFICES ASSUME AppInv, PageInv PROVE TypeOK
    OBVIOUS
  <2>1. ASSUME NEW t \in Tasks
        PROVE  LET task == tasks[t] IN
               /\ task.stage \notin {"idle", "connecting"} => task.account \in Accounts
               /\ Range(task.hashes) \subseteq 1 .. Len(txs)
               /\ task.stage = "signing" => Len(task.hashes) < Len(task.plan.steps)
               /\ task.stage = "confirming" => task.hashes # <<>>
    <3> DEFINE task == tasks[t]
    <3>1. TaskOK(task, txs) /\ TaskFits(task, txs, planCount)
      BY DEF AppInv, StepsInv, TasksFit
    <3>2. Range(task.hashes) \subseteq 1 .. Len(txs)
      <4>1. task.hashes \in Seq(1 .. Len(txs))
        BY <3>1 DEF TaskOK
      <4> QED
        BY <4>1 DEF Range
    <3> QED
      BY <3>1, <3>2 DEF TaskOK, TaskFits
  <2> QED
    BY <2>1 DEF TypeOK, AppInv, ChainInv, StudioInv, PageInv
<1> QED
  BY <1>1, <1>2, AppInvInit, AppInvStep, PageInvStep, PTL DEF Spec
-----------------------------------------------------------------------------
(* Salts.  Every salt the studio gave up without being left is paid for by a *)
(* publication of its own: that of the task that ended, which no task holds  *)
(* any longer.                                                               *)

Held(t) == Range(tasks[t].hashes)

PaidBy(U) ==
    /\ U \subseteq Publications
    /\ Cardinality(U) = draft.salt - studio
    /\ \A t \in Tasks : Held(t) \cap U = {}

SaltInv ==
    /\ \A t, u \in Tasks : t # u => Held(t) \cap Held(u) = {}
    /\ \E U : PaidBy(U)

\* No task sends anything: it keeps its transactions, or ends.
Shrinks == \A u \in Tasks : tasks'[u].hashes \in {tasks[u].hashes, <<>>}

LEMMA ShrinkingKeepsSaltInv ==
    ASSUME SaltInv, Shrinks, Publications \subseteq Publications',
           draft'.salt - studio' = draft.salt - studio
    PROVE  SaltInv'
<1>1. ASSUME NEW u \in Tasks PROVE Held(u)' \subseteq Held(u)
  BY <1>1 DEF Shrinks, Held, Range
<1>2. PICK U : PaidBy(U)
  BY DEF SaltInv
<1>3. PaidBy(U)'
  BY <1>1, <1>2 DEF PaidBy
<1> QED
  BY <1>1, <1>3 DEF SaltInv

LEMMA OneTaskShrinks ==
    ASSUME StepsInv, NEW t \in Tasks, NEW new, new.hashes \in {tasks[t].hashes, <<>>},
           tasks' = [tasks EXCEPT ![t] = new]
    PROVE  Shrinks
BY DEF StepsInv, Shrinks

LEMMA EndsShrinks ==
    ASSUME StepsInv, NEW t \in Tasks, Ends(t)
    PROVE  Shrinks
<1>1. Idle.hashes = <<>>
  BY DEF Idle
<1>2. tasks' = [tasks EXCEPT ![t] = Idle]
  BY DEF Ends
<1> QED
  BY <1>1, <1>2 DEF StepsInv, Shrinks

LEMMA SubmitShrinks ==
    ASSUME StepsInv, NEW t \in Tasks, NEW task, IsTask(task), task.hashes = <<>>, NEW p,
           Submit(t, task, p)
    PROVE  Shrinks
<1>1. Submitted(task, p).hashes = <<>>
  BY SubmittedTask
<1>2. tasks' = [tasks EXCEPT ![t] = Submitted(task, p)] \/ Ends(t)
  BY DEF Submit, Submitted
<1> QED
  BY <1>1, <1>2, OneTaskShrinks, EndsShrinks

LEMMA ProceedShrinks ==
    ASSUME StepsInv, NEW t \in Tasks, NEW task, IsTask(task), task.hashes = <<>>,
           Proceed(t, task)
    PROVE  Shrinks
<1>1. Staged(task, "preparing").hashes = <<>>
  BY StagedTask
<1>2. Submit(t, task, task.subject) \/ tasks' = [tasks EXCEPT ![t] = Staged(task, "preparing")]
  BY DEF Proceed, Staged
<1> QED
  BY <1>1, <1>2, OneTaskShrinks, SubmitShrinks

\* Only a signature adds a transaction to a task.
LEMMA TaskStepShrinks ==
    ASSUME StepsInv, NEW t \in Tasks, TaskStep(t), ~Sign(t)
    PROVE  Shrinks
<1>1. IsTask(tasks[t])
  BY DEF StepsInv, TaskOK
<1>2. ASSUME NEW kind, NEW subject, Starts(t, kind, subject) PROVE Shrinks
  <2> DEFINE task == Started(kind, subject)
  <2>1. IsTask(task) /\ task.hashes = <<>>
    BY StartedTask
  <2>2. Staged(task, "connecting").hashes = <<>>
    BY <2>1, StagedTask
  <2>3. Proceed(t, task) \/ tasks' = [tasks EXCEPT ![t] = Staged(task, "connecting")]
    BY <1>2 DEF Starts, Started, Staged
  <2> QED
    BY <2>1, <2>2, <2>3, ProceedShrinks, OneTaskShrinks
<1>3. CASE Click(t)
  BY <1>2, <1>3 DEF Click, ClickExecute, ClickReview, ClickPublish, ClickDock, ClickReplace
<1>4. CASE Connected(t)
  <2> DEFINE task == WithAccount(tasks[t], provider)
  <2>1. tasks[t].hashes = <<>>
    BY <1>4 DEF Connected, StepsInv, TaskOK
  <2>2. IsTask(task) /\ task.hashes = <<>>
    BY <1>1, <2>1, ConnectedTask
  <2>3. Proceed(t, task)
    BY <1>4 DEF Connected, WithAccount
  <2> QED
    BY <2>2, <2>3, ProceedShrinks
<1>5. CASE ConnectFails(t) \/ Reject(t) \/ TimesOut(t) \/ Refreshed(t)
  BY <1>5, EndsShrinks DEF ConnectFails, Reject, TimesOut, Refreshed
<1>6. CASE Prepared(t) \/ PrepareFails(t)
  <2>1. tasks[t].hashes = <<>>
    BY <1>6 DEF Prepared, PrepareFails, StepsInv, TaskOK
  <2>2. \/ \E p : Submit(t, tasks[t], p)
        \/ Ends(t)
        \/ tasks' = [tasks EXCEPT ![t] = Idle]
    BY <1>6 DEF Prepared, PrepareFails
  <2>3. Idle.hashes = <<>>
    BY DEF Idle
  <2> QED
    BY <1>1, <2>1, <2>2, <2>3, SubmitShrinks, EndsShrinks, OneTaskShrinks
<1>7. CASE ReceiptArrives(t)
  <2>1. ASSUME NEW stage PROVE Staged(tasks[t], stage).hashes = tasks[t].hashes
    BY <1>1, StagedTask
  <2>2. (\E stage : tasks' = [tasks EXCEPT ![t] = Staged(tasks[t], stage)]) \/ Ends(t)
    BY <1>7 DEF ReceiptArrives, Staged
  <2> QED
    BY <2>1, <2>2, OneTaskShrinks, EndsShrinks
<1> QED
  BY <1>3, <1>4, <1>5, <1>6, <1>7 DEF TaskStep, Waits

LEMMA RangeOfAppend ==
    ASSUME NEW S, NEW s \in Seq(S), NEW e
    PROVE  Range(Append(s, e)) = Range(s) \cup {e}
<1>1. /\ DOMAIN s = 1 .. Len(s) /\ Len(s) \in Nat
      /\ DOMAIN Append(s, e) = 1 .. Len(s) + 1
      /\ Append(s, e)[Len(s) + 1] = e
      /\ \A i \in 1 .. Len(s) : Append(s, e)[i] = s[i]
  OBVIOUS
<1>2. 1 .. Len(s) + 1 = (1 .. Len(s)) \cup {Len(s) + 1}
  BY <1>1
<1> QED
  BY <1>1, <1>2 DEF Range

\* A transaction is new: no task held it, and no salt is paid by it.
LEMMA SignKeepsSaltInv ==
    ASSUME AppInv, SaltInv, NEW t \in Tasks, Sign(t)
    PROVE  SaltInv'
<1> DEFINE n   == Len(txs)
           new == Sending(tasks[t], n + 1)
<1>1. /\ n \in Nat /\ Len(txs') = n + 1
      /\ \A h \in 1 .. n : txs'[h] = txs[h]
      /\ tasks' = [tasks EXCEPT ![t] = new]
      /\ UNCHANGED <<draft, studio>>
  BY SignFacts DEF Sign, studioVars
<1>2. ASSUME NEW u \in Tasks PROVE IsTask(tasks[u]) /\ tasks[u].hashes \in Seq(1 .. n)
  BY DEF AppInv, StepsInv, TaskOK
<1>3. ASSUME NEW u \in Tasks PROVE Held(u) \subseteq 1 .. n
  BY <1>2 DEF Held, Range
<1>4. new.hashes = Append(tasks[t].hashes, n + 1)
  <2>1. PICK m : new = Sending(tasks[t], m) /\ m = n + 1
    OBVIOUS
  <2>2. IsTask(tasks[t])
    BY <1>2
  <2> HIDE DEF new, n
  <2> QED
    BY <2>1, <2>2, SendingTask
<1>5. Range(new.hashes) = Held(t) \cup {n + 1}
  BY <1>2, <1>4, RangeOfAppend DEF Held
<1> HIDE DEF new
<1>6. Held(t)' = Held(t) \cup {n + 1} /\ \A u \in Tasks \ {t} : Held(u)' = Held(u)
  BY <1>1, <1>5 DEF Held, AppInv, StepsInv
<1>7. n + 1 \notin 1 .. n
  BY <1>1
<1>8. PICK U : PaidBy(U)
  BY DEF SaltInv
<1>9. Publications \subseteq Publications' /\ Publications \subseteq 1 .. n
  BY <1>1 DEF Publications
<1>10. PaidBy(U)'
  BY <1>1, <1>6, <1>7, <1>8, <1>9 DEF PaidBy
<1>11. ASSUME NEW u \in Tasks, NEW v \in Tasks, u # v PROVE Held(u)' \cap Held(v)' = {}
  BY <1>3, <1>6, <1>7, <1>11 DEF SaltInv
<1> QED
  BY <1>10, <1>11 DEF SaltInv

LEMMA PublicationsFinite ==
    ASSUME AppInv
    PROVE  IsFiniteSet(Publications) /\ Cardinality(Publications) \in Nat
<1>1. Len(txs) \in Nat
  BY DEF AppInv, StepsInv, TxsOK
<1>2. IsFiniteSet(1 .. Len(txs))
  BY <1>1, FS_Interval
<1>3. Publications \subseteq 1 .. Len(txs)
  BY DEF Publications
<1> QED
  BY <1>2, <1>3, FS_Subset, FS_CardinalityType

\* A publication that comes to its end pays for the salt the studio gives up.
LEMMA RefreshedKeepsSaltInv ==
    ASSUME AppInv, SaltInv, NEW t \in Tasks, Refreshed(t)
    PROVE  SaltInv'
<1>1. StepsInv /\ Shrinks /\ UNCHANGED txs
  BY EndsShrinks DEF Refreshed, AppInv, chainVars
<1>2. Publications' = Publications
  BY <1>1 DEF Publications
<1>3. ASSUME NEW u \in Tasks PROVE Held(u)' \subseteq Held(u)
  BY <1>1 DEF Shrinks, Held, Range
<1>4. CASE ~(tasks[t].kind = "publish" /\ Mounted(tasks[t]))
  BY <1>1, <1>2, <1>4, ShrinkingKeepsSaltInv DEF Refreshed, studioVars
<1>5. CASE tasks[t].kind = "publish" /\ Mounted(tasks[t])
  <2> DEFINE task == tasks[t]
             last == Len(task.hashes)
  <2>1. PICK h : h = task.hashes[last]
    OBVIOUS
  <2>2. TaskOK(task, txs) /\ TaskFits(task, txs, planCount) /\ task.stage = "refreshing"
    BY DEF AppInv, StepsInv, TasksFit, Refreshed
  <2>3. /\ task.hashes \in Seq(1 .. Len(txs))
        /\ last = Len(task.plan.steps) /\ last \in Nat /\ last > 0
        /\ task.plan.steps[last].action = "publish-position"
    BY <1>5, <2>2 DEF TaskOK, TaskFits, PlanFits
  <2>4. last \in 1 .. last /\ h \in 1 .. Len(txs) /\ h \in Held(t)
    <3>1. last \in 1 .. last
      BY <2>3
    <3>2. DOMAIN task.hashes = 1 .. last
      BY <2>3
    <3> QED
      BY <2>1, <2>3, <3>1, <3>2, ElementsOfSeq DEF Held, Range
  <2>5. h \in Publications
    BY <2>1, <2>2, <2>3, <2>4 DEF TaskOK, InOrder, Publications
  <2>6. PICK U : PaidBy(U)
    BY DEF SaltInv
  <2>7. h \notin U
    BY <2>4, <2>6 DEF PaidBy
  <2>8. /\ draft' = [curve |-> draft.curve, salt |-> draft.salt + 1] /\ draft.salt \in Nat
        /\ studio' = studio /\ studio \in Nat
    BY <1>5 DEF Refreshed, AppInv, StudioInv, Drafts
  <2>9. Cardinality(U \cup {h}) = draft'.salt - studio'
    <3>1. IsFiniteSet(U)
      BY <2>6, PublicationsFinite, FS_Subset DEF PaidBy
    <3>2. Cardinality(U \cup {h}) = (draft.salt - studio) + 1
      BY <2>6, <2>7, <3>1, FS_AddElement DEF PaidBy
    <3>3. draft'.salt = draft.salt + 1
      BY <2>8
    <3> QED
      BY <2>8, <3>2, <3>3
  <2>10. ASSUME NEW u \in Tasks PROVE Held(u)' \cap (U \cup {h}) = {}
    <3>1. CASE u = t
      <4>1. tasks'[t].hashes = <<>>
        BY DEF Refreshed, Ends, Idle, AppInv, StepsInv
      <4> QED
        BY <3>1, <4>1 DEF Held, Range
    <3>2. CASE u # t
      <4>1. h \notin Held(u) /\ Held(u) \cap U = {}
        BY <2>4, <2>6, <3>2 DEF SaltInv, PaidBy
      <4> QED
        BY <1>3, <4>1
    <3> QED
      BY <3>1, <3>2
  <2>11. PaidBy(U \cup {h})'
    BY <1>2, <2>5, <2>6, <2>9, <2>10 DEF PaidBy
  <2>12. ASSUME NEW u \in Tasks, NEW v \in Tasks, u # v PROVE Held(u)' \cap Held(v)' = {}
    BY <1>3, <2>12 DEF SaltInv
  <2> QED
    BY <2>11, <2>12 DEF SaltInv
<1> QED
  BY <1>4, <1>5

LEMMA MineKeepsSaltInv ==
    ASSUME AppInv, SaltInv, NEW h \in 1 .. Len(txs), Mine(h)
    PROVE  SaltInv'
<1>1. UNCHANGED <<tasks, draft, studio>>
  BY DEF Mine, studioVars
<1>2. Publications \subseteq Publications'
  BY MineFacts DEF Publications, AppInv
<1> QED
  BY <1>1, <1>2, ShrinkingKeepsSaltInv DEF Shrinks

\* A studio that is mounted draws a salt of its own.
LEMMA MountsKeepsBalance ==
    ASSUME AppInv, NEW v, Mounts(v)
    PROVE  draft'.salt - studio' = draft.salt - studio
<1>1. draft.salt \in Nat /\ studio \in Nat
  BY DEF AppInv, StudioInv, Drafts
<1>2. CASE v = "studio"
  <2>1. draft'.salt = draft.salt + 1 /\ studio' = studio + 1
    BY <1>2 DEF Mounts
  <2> QED
    BY <1>1, <2>1
<1>3. CASE v # "studio"
  BY <1>3 DEF Mounts
<1> QED
  BY <1>2, <1>3

LEMMA SaltInvStep == AppInv /\ SaltInv /\ [Next]_vars => SaltInv'
<1> SUFFICES ASSUME AppInv, SaltInv, [Next]_vars PROVE SaltInv'
  OBVIOUS
<1>1. ASSUME UNCHANGED <<tasks, txs>>, draft'.salt - studio' = draft.salt - studio PROVE SaltInv'
  BY <1>1 DEF SaltInv, PaidBy, Held, Publications
<1>2. ASSUME NEW t \in Tasks, TaskStep(t) PROVE SaltInv'
  <2>1. CASE ~Sign(t) /\ ~Refreshed(t)
    <3>1. Shrinks
      BY <1>2, <2>1, TaskStepShrinks DEF AppInv
    <3>2. UNCHANGED <<txs, draft, studio>>
      BY <1>2, <2>1 DEF TaskStep, Waits, Click, ClickExecute, ClickReview, ClickPublish, ClickDock,
         ClickReplace, Starts, Connected, ConnectFails, Reject, Prepared, PrepareFails,
         ReceiptArrives, TimesOut, Proceed, chainVars, studioVars
    <3> QED
      BY <3>1, <3>2, ShrinkingKeepsSaltInv DEF Publications
  <2> QED
    BY <2>1, SignKeepsSaltInv, RefreshedKeepsSaltInv
<1>3. ASSUME NEW c \in Curves, EditDraft(c) PROVE SaltInv'
  <2>1. draft' = [curve |-> c, salt |-> draft.salt] /\ UNCHANGED studio
    BY <1>3 DEF EditDraft, AppInv, StudioInv, Drafts
  <2> QED
    BY <1>1, <1>3, <2>1 DEF EditDraft, chainVars
<1>4. CASE \/ \E t \in Tickets : EditTicket(t)
           \/ DebounceEnds
           \/ \E r \in requests : QuoteEnds(r)
           \/ \E account \in Accounts \cup {None} : AccountsChanged(account)
           \/ Disconnected
           \/ CloseReview
           \/ UNCHANGED vars
  BY <1>1, <1>4 DEF EditTicket, DebounceEnds, QuoteEnds, AccountsChanged, Disconnected,
     CloseReview, chainVars, studioVars, vars
<1>5. CASE \E h \in 1 .. Len(txs) : Mine(h)
  BY <1>5, MineKeepsSaltInv
<1>6. ASSUME NEW v \in Views, Navigate(v) PROVE SaltInv'
  BY <1>1, <1>6, MountsKeepsBalance DEF Navigate, chainVars
<1>7. CASE Reload
  <2>1. Shrinks
    BY <1>7 DEF Reload, Shrinks, Idle
  <2>2. UNCHANGED txs /\ draft'.salt - studio' = draft.salt - studio
    BY <1>7, MountsKeepsBalance DEF Reload, chainVars
  <2> QED
    BY <2>1, <2>2, ShrinkingKeepsSaltInv DEF Publications
<1> QED
  BY <1>2, <1>3, <1>4, <1>5, <1>6, <1>7 DEF Next

\* A draft is one position however often it is published, and a studio that is
\* not left goes on to the next salt only for a position on chain (App.tsx), for
\* any number of concurrent publications, visits and reloads.
THEOREM FrontendDraftsMatchPositions == Spec => []DraftsMatchPositions
<1>1. Init => SaltInv
  <2> SUFFICES ASSUME Init PROVE SaltInv
    OBVIOUS
  <2>1. \A t \in Tasks : Held(t) = {}
    BY DEF Init, Held, Range, Idle
  <2>2. PaidBy({})
    BY <2>1, FS_EmptySet DEF PaidBy, Init
  <2> QED
    BY <2>1, <2>2 DEF SaltInv
<1>2. AppInv /\ SaltInv => DraftsMatchPositions
  <2> SUFFICES ASSUME AppInv, SaltInv PROVE FreshDraftAfterShip
    BY OneShipForDraft DEF DraftsMatchPositions
  <2>1. PICK U : U \subseteq Publications /\ Cardinality(U) = draft.salt - studio
    BY DEF SaltInv, PaidBy
  <2>2. Cardinality(U) <= Cardinality(Publications)
    BY <2>1, PublicationsFinite, FS_Subset
  <2> QED
    BY <2>1, <2>2 DEF FreshDraftAfterShip
<1> QED
  BY <1>1, <1>2, AppInvInit, AppInvStep, SaltInvStep, PTL DEF Spec
=============================================================================
