------------------------------- MODULE Wallet -------------------------------
(***************************************************************************)
(* A user's wallet balance: deposits paid through Stripe, the webhook that *)
(* credits them, withdrawals, and the two administrator operations that    *)
(* touch the rows of table payment_transactions behind the wallet's back.  *)
(*                                                                         *)
(* One server process runs every handler; a handler gives up the processor *)
(* at each await, so one action is the code between two awaits that other  *)
(* handlers can observe.  A crash of the process kills every handler that  *)
(* is running.  Stripe is external: it keeps payment intents, executes     *)
(* transfers, and delivers payment_intent.succeeded again and again until  *)
(* a reply reaches it.                                                     *)
(***************************************************************************)
EXTENDS Integers, Sums

CONSTANTS
    User,        \* users of the wallet
    Billed,      \* the users whose billing_id is set
    Connected,   \* the users whose stripe_connect_id is set
    Deposit,     \* deposit requests; each owns the row it creates
    Withdrawal,  \* withdrawal requests; each owns the row it creates
    Delivery,    \* webhook requests Stripe can have open at one time
    Amount,      \* amounts a request can name, in whole currency units
    NoDeposit,   \* value of a delivery slot that is not in use
    MaxFaults    \* bound on crashes, failed writes and lost replies

ASSUME WalletAssumption ==
    /\ Billed \subseteq User
    /\ Connected \subseteq User
    /\ Amount \subseteq Nat \ {0}
    /\ NoDeposit \notin Deposit
    /\ MaxFaults \in Nat

VARIABLES
    owner,       \* the user of each request (the JWT's userId)
    amount,      \* the amount of each request
    balance,     \* users.balance
    row,         \* status of a deposit's row
    intent,      \* state of a deposit's payment intent at Stripe
    depositPc,   \* progress of DepositeService.create
    acked,       \* deposits whose event Stripe has stopped delivering
    webhookPc,   \* progress of StripeController.handleWebhook
    event,       \* the deposit a webhook request is about
    withdrawPc,  \* progress of WithdrawService.processWithdraw
    payout,      \* status of a withdrawal's row
    transferred, \* withdrawals whose transfer Stripe has executed
    cancelling   \* deposits an administrator's cancelInvoice saw pending

VARIABLES        \* history: never read by the system's actions
    credits,     \* how often each deposit was added to a balance
    refused,     \* deposits for which the webhook answered received: false
    debited,     \* withdrawals taken off a balance
    overlap,     \* users two of whose withdrawals were between check and debit
    dirty,       \* users one of whose requests met a fault, a replay or an admin
    faults       \* number of faults so far

system == <<owner, amount, balance, row, intent, depositPc, acked, webhookPc,
            event, withdrawPc, payout, transferred, cancelling>>
vars == <<system, credits, refused, debited, overlap, dirty, faults>>

requests   == <<owner, amount>>
depositing == <<row, intent, depositPc, cancelling>>
webhook    == <<acked, webhookPc, event, credits, refused>>
withdrawing == <<withdrawPc, payout, transferred, debited, overlap>>

Request == Deposit \cup Withdrawal

\* A withdrawal that has passed its balance check and has yet to debit.
Committed(w) == withdrawPc[w] \in {"checked", "transferred"}

MinWithdraw == 2

Init ==
    /\ owner \in [Request -> User]
    /\ amount \in [Request -> Amount]
    /\ balance = [u \in User |-> 0]
    /\ row = [d \in Deposit |-> "none"]
    /\ intent = [d \in Deposit |-> "none"]
    /\ depositPc = [d \in Deposit |-> "idle"]
    /\ acked = {}
    /\ webhookPc = [h \in Delivery |-> "idle"]
    /\ event = [h \in Delivery |-> NoDeposit]
    /\ withdrawPc = [w \in Withdrawal |-> "idle"]
    /\ payout = [w \in Withdrawal |-> "none"]
    /\ transferred = {}
    /\ cancelling = {}
    /\ credits = [d \in Deposit |-> 0]
    /\ refused = {}
    /\ debited = {}
    /\ overlap = {}
    /\ dirty = {}
    /\ faults = 0

\* Something outside the code goes wrong in a request of the users us.
Fault(us) ==
    /\ faults < MaxFaults
    /\ faults' = faults + 1
    /\ dirty' = dirty \cup us

-----------------------------------------------------------------------------
(* Deposits: DepositeService.create and the customer paying at Stripe.     *)

\* The user is read, has a billing id, and the pending row is written.
CreateDeposit(d) ==
    /\ depositPc[d] = "idle"
    /\ owner[d] \in Billed
    /\ depositPc' = [depositPc EXCEPT ![d] = "rowed"]
    /\ row' = [row EXCEPT ![d] = "pending"]
    /\ UNCHANGED <<requests, balance, intent, cancelling, webhook, withdrawing,
                   dirty, faults>>

CreateIntent(d) ==
    /\ depositPc[d] = "rowed"
    /\ depositPc' = [depositPc EXCEPT ![d] = "done"]
    /\ intent' = [intent EXCEPT ![d] = "open"]
    /\ UNCHANGED <<requests, balance, row, cancelling, webhook, withdrawing,
                   dirty, faults>>

\* Stripe refuses the intent: the pending row stays without one.
IntentFails(d) ==
    /\ depositPc[d] = "rowed"
    /\ Fault({owner[d]})
    /\ depositPc' = [depositPc EXCEPT ![d] = "done"]
    /\ UNCHANGED <<requests, balance, row, intent, cancelling, webhook,
                   withdrawing>>

Pay(d) ==
    /\ intent[d] = "open"
    /\ intent' = [intent EXCEPT ![d] = "paid"]
    /\ UNCHANGED <<requests, balance, row, depositPc, cancelling, webhook,
                   withdrawing, dirty, faults>>

-----------------------------------------------------------------------------
(* The webhook: StripeController.handleWebhook.  A paid deposit's event is *)
(* delivered until a reply arrives, and again while a reply is due.        *)

Deliver(h, d) ==
    /\ webhookPc[h] = "idle"
    /\ intent[d] = "paid" /\ d \notin acked
    /\ webhookPc' = [webhookPc EXCEPT ![h] = "mark"]
    /\ event' = [event EXCEPT ![h] = d]
    /\ dirty' = IF credits[d] > 0 \/ \E g \in Delivery : event[g] = d
                THEN dirty \cup {owner[d]} ELSE dirty
    /\ UNCHANGED <<requests, balance, depositing, acked, credits, refused,
                   withdrawing, faults>>

\* First write: the row gets the status, whatever its status was.
Mark(h, status, next) ==
    LET d == event[h] IN
    /\ webhookPc[h] = "mark"
    /\ row[d] # "deleted"
    /\ row' = [row EXCEPT ![d] = status]
    /\ webhookPc' = [webhookPc EXCEPT ![h] = next]
    /\ UNCHANGED <<requests, balance, intent, depositPc, cancelling, acked,
                   event, credits, refused, withdrawing, dirty, faults>>

MarkPaid(h) == Mark(h, "paid", "credit")      \* mutant: another status
MarkOnly(h) == Mark(h, "succeeded", "reply")  \* mutant: no second write
MarkSucceeded(h) == Mark(h, "succeeded", "credit")

\* The update finds no row, throws, and the catch replies received: false.
MarkMissing(h) ==
    /\ webhookPc[h] = "mark"
    /\ row[event[h]] = "deleted"
    /\ refused' = refused \cup {event[h]}
    /\ webhookPc' = [webhookPc EXCEPT ![h] = "reply"]
    /\ UNCHANGED <<requests, balance, depositing, acked, event, credits,
                   withdrawing, dirty, faults>>

\* Second write: the balance is incremented by the amount received.
Credit(h) ==
    LET d == event[h] IN
    /\ webhookPc[h] = "credit"
    /\ balance' = [balance EXCEPT ![owner[d]] = @ + amount[d]]
    /\ credits' = [credits EXCEPT ![d] = @ + 1]
    /\ webhookPc' = [webhookPc EXCEPT ![h] = "reply"]
    /\ UNCHANGED <<requests, depositing, acked, event, refused, withdrawing,
                   dirty, faults>>

\* Either write fails: the catch still answers with a success status.
WebhookWriteFails(h) ==
    /\ webhookPc[h] \in {"mark", "credit"}
    /\ Fault({owner[event[h]]})
    /\ refused' = refused \cup {event[h]}
    /\ webhookPc' = [webhookPc EXCEPT ![h] = "reply"]
    /\ UNCHANGED <<requests, balance, depositing, acked, event, credits,
                   withdrawing>>

\* Both answers, received: true and received: false, stop the deliveries.
Reply(h) ==
    /\ webhookPc[h] = "reply"
    /\ acked' = acked \cup {event[h]}
    /\ webhookPc' = [webhookPc EXCEPT ![h] = "idle"]
    /\ event' = [event EXCEPT ![h] = NoDeposit]
    /\ UNCHANGED <<requests, balance, depositing, credits, refused, withdrawing,
                   dirty, faults>>

LoseReply(h) ==
    /\ webhookPc[h] = "reply"
    /\ Fault({})
    /\ webhookPc' = [webhookPc EXCEPT ![h] = "idle"]
    /\ event' = [event EXCEPT ![h] = NoDeposit]
    /\ UNCHANGED <<requests, balance, depositing, acked, credits, refused,
                   withdrawing>>

-----------------------------------------------------------------------------
(* Withdrawals: WithdrawService.processWithdraw.                           *)

Positive(w) == balance[owner[w]] > 0          \* mutant: no upper bound
Sufficient(w) == balance[owner[w]] > 0 /\ amount[w] <= balance[owner[w]]

\* The user is read and every guard is evaluated on that copy of the row.
CheckWithdraw(w) ==
    LET u == owner[w] IN
    /\ withdrawPc[w] = "idle"
    /\ u \in Connected
    /\ Sufficient(w)
    /\ amount[w] >= MinWithdraw
    /\ withdrawPc' = [withdrawPc EXCEPT ![w] = "checked"]
    /\ overlap' = IF \E v \in Withdrawal : owner[v] = u /\ Committed(v)
                  THEN overlap \cup {u} ELSE overlap
    /\ UNCHANGED <<requests, balance, depositing, webhook, payout, transferred,
                   debited, dirty, faults>>

Transfer(w) ==
    /\ withdrawPc[w] = "checked"
    /\ transferred' = transferred \cup {w}
    /\ withdrawPc' = [withdrawPc EXCEPT ![w] = "transferred"]
    /\ UNCHANGED <<requests, balance, depositing, webhook, payout, debited,
                   overlap, dirty, faults>>

\* createTransfer throws; Stripe may have executed the transfer all the same.
TransferFails(w) ==
    /\ withdrawPc[w] = "checked"
    /\ Fault({owner[w]})
    /\ transferred' \in {transferred, transferred \cup {w}}
    /\ withdrawPc' = [withdrawPc EXCEPT ![w] = "failing"]
    /\ UNCHANGED <<requests, balance, depositing, webhook, payout, debited,
                   overlap>>

\* An atomic decrement by the amount, with no condition on the balance.
DebitFrom(w, from) ==
    /\ withdrawPc[w] = from
    /\ balance' = [balance EXCEPT ![owner[w]] = @ - amount[w]]
    /\ debited' = debited \cup {w}
    /\ withdrawPc' = [withdrawPc EXCEPT ![w] = "debited"]
    /\ UNCHANGED <<requests, depositing, webhook, payout, transferred, overlap,
                   dirty, faults>>

DebitEarly(w) == DebitFrom(w, "checked")      \* mutant: before the transfer
Debit(w) == DebitFrom(w, "transferred")

\* The row of the withdrawal is inserted with its final status.
Record(w, from, status) ==
    /\ withdrawPc[w] = from
    /\ payout' = [payout EXCEPT ![w] = status]
    /\ withdrawPc' = [withdrawPc EXCEPT ![w] = "done"]
    /\ UNCHANGED <<requests, balance, depositing, webhook, transferred, debited,
                   overlap, dirty, faults>>

RecordEarly(w) == Record(w, "transferred", "completed")  \* mutant: no debit
RecordCompleted(w) == Record(w, "debited", "completed")
RecordFailed(w) == Record(w, "failing", "failed")

\* The debit or the record throws: control passes to the same catch block.
\* A failure of the catch block's own write leaves no record at all.
WithdrawWriteFails(w) ==
    /\ withdrawPc[w] \in {"transferred", "debited", "failing"}
    /\ Fault({owner[w]})
    /\ withdrawPc' = [withdrawPc EXCEPT ![w] =
                        IF @ = "failing" THEN "done" ELSE "failing"]
    /\ UNCHANGED <<requests, balance, depositing, webhook, payout, transferred,
                   debited, overlap>>

-----------------------------------------------------------------------------
(* Administrators, and the process they share with everyone else.          *)

\* cancelInvoice: the status check ...
CancelCheck(d) ==
    /\ row[d] = "pending" /\ d \notin cancelling
    /\ cancelling' = cancelling \cup {d}
    /\ UNCHANGED <<requests, balance, row, intent, depositPc, webhook,
                   withdrawing, dirty, faults>>

\* ... and the write.  A deposit's row has no stripe_pi_id, so no intent is
\* cancelled at Stripe; the update throws if the row has gone.
CancelWrite(d) ==
    /\ d \in cancelling
    /\ cancelling' = cancelling \ {d}
    /\ row' = IF row[d] = "deleted" THEN row ELSE [row EXCEPT ![d] = "failed"]
    /\ dirty' = dirty \cup {owner[d]}
    /\ UNCHANGED <<requests, balance, intent, depositPc, webhook, withdrawing,
                   faults>>

\* PaymentTransactionService.remove deletes a row whatever its status.
Remove ==
    /\ \/ \E d \in Deposit :
            /\ row[d] \notin {"none", "deleted"}
            /\ row' = [row EXCEPT ![d] = "deleted"]
            /\ dirty' = dirty \cup {owner[d]}
            /\ payout' = payout
       \/ \E w \in Withdrawal :
            /\ payout[w] \in {"completed", "failed"}
            /\ payout' = [payout EXCEPT ![w] = "deleted"]
            /\ dirty' = dirty \cup {owner[w]}
            /\ row' = row
    /\ UNCHANGED <<requests, balance, intent, depositPc, cancelling, webhook,
                   withdrawPc, transferred, debited, overlap, faults>>

InService(pc) == pc \notin {"idle", "done"}

\* The process dies between two awaits; nothing resumes what was running.
Crash ==
    /\ Fault({owner[d] : d \in {x \in Deposit : InService(depositPc[x])}} \cup
             {owner[w] : w \in {x \in Withdrawal : InService(withdrawPc[x])}} \cup
             {owner[event[h]] : h \in {x \in Delivery : webhookPc[x] = "credit"}})
    /\ depositPc' = [d \in Deposit |->
                       IF InService(depositPc[d]) THEN "done" ELSE depositPc[d]]
    /\ withdrawPc' = [w \in Withdrawal |->
                       IF InService(withdrawPc[w]) THEN "done" ELSE withdrawPc[w]]
    /\ webhookPc' = [h \in Delivery |-> "idle"]
    /\ event' = [h \in Delivery |-> NoDeposit]
    /\ cancelling' = {}
    /\ UNCHANGED <<requests, balance, row, intent, acked, credits, refused, payout,
                   transferred, debited, overlap>>

-----------------------------------------------------------------------------
DepositStep(d) == CreateDeposit(d) \/ CreateIntent(d) \/ IntentFails(d) \/ Pay(d)

WebhookStep(h) == MarkSucceeded(h) \/ MarkMissing(h) \/ Credit(h) \/ Reply(h)

WithdrawStep(w) ==
    Transfer(w) \/ Debit(w) \/ RecordCompleted(w) \/ RecordFailed(w)

Next ==
    \/ \E d \in Deposit : DepositStep(d) \/ CancelCheck(d) \/ CancelWrite(d)
    \/ \E h \in Delivery :
         \/ WebhookStep(h) \/ WebhookWriteFails(h) \/ LoseReply(h)
         \/ \E d \in Deposit : Deliver(h, d)
    \/ \E w \in Withdrawal :
         \/ CheckWithdraw(w) \/ WithdrawStep(w)
         \/ TransferFails(w) \/ WithdrawWriteFails(w)
    \/ Remove
    \/ Crash

Spec == Init /\ [][Next]_vars

\* A handler that has started goes on unless the process dies, and Stripe
\* goes on delivering; what clients and administrators do is up to them.
Fairness ==
    /\ \A h \in Delivery : WF_vars(WebhookStep(h))
    /\ \A d \in Deposit : WF_vars(\E h \in Delivery : Deliver(h, d))
    /\ \A w \in Withdrawal : WF_vars(WithdrawStep(w))

FairSpec == Spec /\ Fairness
-----------------------------------------------------------------------------
(* Properties.                                                             *)

\* The shape of the state: what each row, intent and handler can hold.
TypeOK ==
    /\ owner \in [Request -> User]
    /\ amount \in [Request -> Amount]
    /\ balance \in [User -> Int]
    /\ row \in [Deposit -> {"none", "pending", "succeeded", "failed", "deleted"}]
    /\ intent \in [Deposit -> {"none", "open", "paid"}]
    /\ depositPc \in [Deposit -> {"idle", "rowed", "done"}]
    /\ acked \subseteq Deposit
    /\ webhookPc \in [Delivery -> {"idle", "mark", "credit", "reply"}]
    /\ event \in [Delivery -> Deposit \cup {NoDeposit}]
    /\ \A h \in Delivery : event[h] = NoDeposit <=> webhookPc[h] = "idle"
    /\ withdrawPc \in [Withdrawal -> {"idle", "checked", "transferred",
                                     "debited", "failing", "done"}]
    /\ payout \in [Withdrawal -> {"none", "completed", "failed", "deleted"}]
    /\ transferred \subseteq Withdrawal
    /\ cancelling \subseteq Deposit
    /\ credits \in [Deposit -> Nat]
    /\ refused \subseteq Deposit
    /\ debited \subseteq Withdrawal
    /\ overlap \subseteq User
    /\ dirty \subseteq User
    /\ faults \in 0..MaxFaults

\* The check against the stored balance and the later unconditional decrement
\* keep a balance from going negative as long as no two withdrawals of the
\* user are between check and debit together, whatever deposits, webhook
\* replays, failed writes, crashes and administrators do meanwhile.
NoOverdraftAlone == \A u \in User \ overlap : balance[u] >= 0

\* A row says 'completed' only for a withdrawal that Stripe paid out and that
\* was taken off the balance: the record is the last step of the handler.
CompletedIsSettled ==
    \A w \in Withdrawal :
        payout[w] = "completed" => w \in transferred /\ w \in debited

\* A balance is only ever reduced after the money has left the platform, and
\* money that has left is either taken off the balance or about to be, unless
\* a failure or a crash hit a request of that user.
DebitFollowsPayout ==
    /\ debited \subseteq transferred
    /\ \A w \in transferred \ debited :
         withdrawPc[w] = "transferred" \/ owner[w] \in dirty

\* When Stripe stops delivering an event, the deposit has been added to the
\* balance or the webhook has answered received: false for it; and it has been
\* added exactly once if its user met no fault, removal or replayed event.
AckedIsCredited ==
    \A d \in acked :
        /\ credits[d] > 0 \/ d \in refused
        /\ owner[d] \in dirty \/ credits[d] = 1

Total(S) == SumOver(amount, S)

\* Deposits of u the balance includes: marked, and not about to be credited.
Received(u) ==
    {d \in Deposit : /\ owner[d] = u /\ row[d] = "succeeded"
                     /\ \A h \in Delivery :
                          event[h] = d => webhookPc[h] # "credit"}

\* Withdrawals of u the balance no longer includes: recorded, or about to be.
PaidOut(u) ==
    {w \in Withdrawal : /\ owner[w] = u
                        /\ payout[w] = "completed" \/ withdrawPc[w] = "debited"}

\* The rows explain the balance: for a user whose requests met no fault, no
\* replayed event and no administrator, the balance is the sum of the user's
\* 'succeeded' deposits less the sum of the 'completed' withdrawals.
BooksBalance ==
    \A u \in User \ dirty : balance[u] = Total(Received(u)) - Total(PaidOut(u))

\* Every deposit the customer has paid is credited in the end, crashes and
\* lost replies notwithstanding, or the webhook has answered received: false
\* for it: Stripe delivers again until the handler has run to its reply.
PaidIsCredited ==
    \A d \in Deposit : intent[d] = "paid" ~> credits[d] > 0 \/ d \in refused

-----------------------------------------------------------------------------
(* Claims of the repository that the code does not keep.                   *)

\* withdraw.service.ts:123 "Check if withdraw amount exceeds available
\* balance": a withdrawal never takes more than the balance holds.
NeverOverdrawn == \A u \in User : balance[u] >= 0

\* withdraw.service.ts:189 "Failed to process withdraw. Please try again
\* later.": a withdrawal recorded as failed has not been paid out.
FailedIsNotPaidOut == \A w \in Withdrawal : payout[w] = "failed" => w \notin transferred
=============================================================================
