---------------------------- MODULE WalletProofs ----------------------------
(***************************************************************************)
(* Proofs about Wallet, for any users, requests, amounts and webhook slots *)
(* and any number of faults: its invariants, that it implements the        *)
(* ledger, and that the rows explain the balance.                          *)
(***************************************************************************)
EXTENDS WalletLedger, FiniteSetTheorems, TLAPS

USE WalletAssumption DEF WalletAssumption

\* Every request names a user and a positive whole amount.
LEMMA RequestsAreValid ==
    ASSUME TypeOK
    PROVE  \A r \in Request : /\ owner[r] \in User
                              /\ amount[r] \in Nat /\ amount[r] \in Int
                              /\ amount[r] > 0
<1>1. \A a \in Amount : a \in Nat /\ a \in Int /\ a > 0
  OBVIOUS
<1>2. \A r \in Request : owner[r] \in User /\ amount[r] \in Amount
  BY DEF TypeOK
<1> QED BY <1>1, <1>2

\* The state keeps its shape.
THEOREM TypeCorrect == Spec => []TypeOK
<1>1. Init => TypeOK
  BY DEF Init, TypeOK, Request
<1>2. TypeOK /\ [Next]_vars => TypeOK'
  <2> SUFFICES ASSUME TypeOK, [Next]_vars PROVE TypeOK'
    OBVIOUS
  <2> USE DEF TypeOK, Request, requests, depositing, webhook, withdrawing
  <2>1. ASSUME NEW d \in Deposit, DepositStep(d) PROVE TypeOK'
    <3>1. CASE CreateDeposit(d) BY <3>1 DEF CreateDeposit
    <3>2. CASE CreateIntent(d) BY <3>2 DEF CreateIntent
    <3>3. CASE IntentFails(d) BY <3>3 DEF IntentFails, Fault
    <3>4. CASE Pay(d) BY <3>4 DEF Pay
    <3> QED BY <2>1, <3>1, <3>2, <3>3, <3>4 DEF DepositStep
  <2>2. ASSUME NEW d \in Deposit, CancelCheck(d) \/ CancelWrite(d) PROVE TypeOK'
    <3>1. CASE CancelCheck(d) BY <3>1 DEF CancelCheck
    <3>2. CASE CancelWrite(d) BY <3>2 DEF CancelWrite
    <3> QED BY <2>2, <3>1, <3>2
  <2>3. ASSUME NEW h \in Delivery, NEW d \in Deposit, Deliver(h, d) PROVE TypeOK'
    BY <2>3 DEF Deliver
  <2>4. ASSUME NEW h \in Delivery, WebhookStep(h) PROVE TypeOK'
    <3>1. CASE MarkSucceeded(h) BY <3>1 DEF MarkSucceeded, Mark
    <3>2. CASE MarkMissing(h) BY <3>2 DEF MarkMissing
    <3>3. CASE Credit(h)
      <4>1. event[h] \in Deposit
        BY <3>3 DEF Credit
      <4>2. owner[event[h]] \in User /\ amount[event[h]] \in Int
        BY <4>1, RequestsAreValid
      <4>3. balance' \in [User -> Int] /\ credits' \in [Deposit -> Nat]
        BY <3>3, <4>1, <4>2 DEF Credit
      <4>4. /\ webhookPc' \in [Delivery -> {"idle", "mark", "credit", "reply"}]
            /\ \A g \in Delivery : event'[g] = NoDeposit <=> webhookPc'[g] = "idle"
        BY <3>3 DEF Credit
      <4> QED BY <3>3, <4>3, <4>4 DEF Credit
    <3>4. CASE Reply(h) BY <3>4 DEF Reply
    <3> QED BY <2>4, <3>1, <3>2, <3>3, <3>4 DEF WebhookStep
  <2>5. ASSUME NEW h \in Delivery, WebhookWriteFails(h) PROVE TypeOK'
    <3>1. event[h] \in Deposit
      BY <2>5 DEF WebhookWriteFails
    <3>2. refused' \subseteq Deposit /\ dirty' \subseteq User /\ faults' \in 0..MaxFaults
      BY <2>5, <3>1 DEF WebhookWriteFails, Fault
    <3>3. /\ webhookPc' \in [Delivery -> {"idle", "mark", "credit", "reply"}]
          /\ \A g \in Delivery : event'[g] = NoDeposit <=> webhookPc'[g] = "idle"
      BY <2>5 DEF WebhookWriteFails
    <3> QED BY <2>5, <3>2, <3>3 DEF WebhookWriteFails
  <2>6. ASSUME NEW h \in Delivery, LoseReply(h) PROVE TypeOK'
    BY <2>6 DEF LoseReply, Fault
  <2>7. ASSUME NEW w \in Withdrawal, CheckWithdraw(w) PROVE TypeOK'
    BY <2>7 DEF CheckWithdraw, Sufficient
  <2>8. ASSUME NEW w \in Withdrawal, WithdrawStep(w) PROVE TypeOK'
    <3>1. CASE Transfer(w) BY <3>1 DEF Transfer
    <3>2. CASE Debit(w)
      <4>1. owner[w] \in User /\ amount[w] \in Int
        BY RequestsAreValid
      <4>2. balance' \in [User -> Int]
        BY <3>2, <4>1 DEF Debit, DebitFrom
      <4> QED BY <3>2, <4>2 DEF Debit, DebitFrom
    <3>3. CASE RecordCompleted(w) BY <3>3 DEF RecordCompleted, Record
    <3>4. CASE RecordFailed(w) BY <3>4 DEF RecordFailed, Record
    <3> QED BY <2>8, <3>1, <3>2, <3>3, <3>4 DEF WithdrawStep
  <2>9. ASSUME NEW w \in Withdrawal, TransferFails(w) \/ WithdrawWriteFails(w)
        PROVE TypeOK'
    BY <2>9 DEF TransferFails, WithdrawWriteFails, Fault
  <2>10. CASE Remove
    BY <2>10 DEF Remove
  <2>11. CASE Crash
    BY <2>11 DEF Crash, Fault
  <2>12. CASE UNCHANGED vars
    BY <2>12 DEF vars, system
  <2> QED BY <2>1, <2>2, <2>3, <2>4, <2>5, <2>6, <2>7, <2>8, <2>9, <2>10,
             <2>11, <2>12 DEF Next
<1> QED BY <1>1, <1>2, PTL DEF Spec

-----------------------------------------------------------------------------
(* Withdrawals that run alone cannot overdraw the balance.                 *)

\* While a user's withdrawals have never overlapped, at most one is between
\* its check and its debit, and the balance still covers it: since the check
\* only credits and failures can have touched the balance.
Covered ==
    \A u \in User \ overlap :
        /\ balance[u] >= 0
        /\ \A w \in Withdrawal :
             owner[w] = u /\ Committed(w) =>
                 /\ balance[u] >= amount[w]
                 /\ \A v \in Withdrawal :
                      owner[v] = u /\ Committed(v) => v = w

\* A step that neither starts a withdrawal, nor ends one's commitment, nor
\* lowers a balance keeps the balances of withdrawals that run alone covered.
LEMMA CoveredByOthers ==
    ASSUME TypeOK, TypeOK', Covered,
           UNCHANGED <<owner, amount>>, overlap \subseteq overlap',
           \A u \in User : balance'[u] >= balance[u],
           \A w \in Withdrawal : Committed(w)' => Committed(w)
    PROVE  Covered'
<1> SUFFICES ASSUME NEW u \in User, u \notin overlap'
             PROVE  /\ balance'[u] >= 0
                    /\ \A w \in Withdrawal :
                         owner[w] = u /\ Committed(w)' =>
                           /\ balance'[u] >= amount[w]
                           /\ \A v \in Withdrawal :
                                owner[v] = u /\ Committed(v)' => v = w
  BY DEF Covered
<1>1. u \notin overlap /\ balance[u] \in Int /\ balance'[u] \in Int
  BY DEF TypeOK
<1>2. balance'[u] >= balance[u] /\ balance[u] >= 0
  BY <1>1 DEF Covered
<1>3. ASSUME NEW w \in Withdrawal, owner[w] = u, Committed(w)'
      PROVE  balance'[u] >= amount[w]
  <2>1. amount[w] \in Int
    BY RequestsAreValid DEF Request
  <2>2. balance[u] >= amount[w]
    BY <1>1, <1>3 DEF Covered
  <2> QED BY <1>1, <1>2, <2>1, <2>2
<1>4. ASSUME NEW w \in Withdrawal, NEW v \in Withdrawal,
             owner[w] = u, Committed(w)', owner[v] = u, Committed(v)'
      PROVE  v = w
  BY <1>1, <1>4 DEF Covered
<1> QED BY <1>1, <1>2, <1>3, <1>4

LEMMA CoveredStep ==
    ASSUME TypeOK, TypeOK', Covered, [Next]_vars
    PROVE  Covered'
<1> USE DEF requests, depositing, webhook, withdrawing
\* Steps that leave balances and withdrawals alone.
<1>0. ASSUME UNCHANGED <<requests, balance, withdrawing>>
      PROVE  Covered'
  <2>1. \A u \in User : balance'[u] >= balance[u]
    BY <1>0 DEF TypeOK
  <2> QED BY <1>0, <2>1, CoveredByOthers DEF Committed
<1>1. ASSUME NEW d \in Deposit,
DepositStep(d) \/ CancelCheck(d) \/ CancelWrite(d)
      PROVE  Covered'
  <2>1. UNCHANGED <<requests, balance, withdrawing>>
    BY <1>1 DEF DepositStep, CreateDeposit, CreateIntent, IntentFails, Pay,
                CancelCheck, CancelWrite
  <2> QED BY <2>1, <1>0
<1>2. ASSUME NEW h \in Delivery,
             \/ MarkSucceeded(h) \/ MarkMissing(h) \/ Reply(h)
             \/ WebhookWriteFails(h) \/ LoseReply(h)
             \/ \E d \in Deposit : Deliver(h, d)
      PROVE  Covered'
  <2>1. UNCHANGED <<requests, balance, withdrawing>>
    BY <1>2 DEF MarkSucceeded, Mark, MarkMissing, Reply, WebhookWriteFails,
                LoseReply,
                Deliver
  <2> QED BY <2>1, <1>0
<1>3. ASSUME NEW h \in Delivery, Credit(h)
      PROVE  Covered'
  <2> DEFINE d == event[h]
  <2>1. d \in Deposit /\ d \in Request
    BY <1>3 DEF Credit, TypeOK, Request
  <2>2. owner[d] \in User /\ amount[d] \in Int /\ amount[d] > 0
    BY <2>1, RequestsAreValid
  <2> HIDE DEF d
  <2>3. balance' = [balance EXCEPT ![owner[d]] = @ + amount[d]]
    BY <1>3 DEF Credit, d
  <2>4. \A u \in User : balance'[u] >= balance[u]
    BY <2>2, <2>3 DEF TypeOK
  <2>5. UNCHANGED <<requests, withdrawing>>
    BY <1>3 DEF Credit
  <2> QED BY <2>4, <2>5, CoveredByOthers DEF Committed
\* The check establishes cover, or notices that it overlaps.
<1>4. ASSUME NEW w \in Withdrawal, CheckWithdraw(w)
      PROVE  Covered'
  <2>1. UNCHANGED <<owner, amount, balance>> /\ overlap \subseteq overlap'
    BY <1>4 DEF CheckWithdraw, Sufficient
  <2>2. \A v \in Withdrawal : Committed(v)' <=> Committed(v) \/ v = w
    BY <1>4 DEF CheckWithdraw, Sufficient, Committed, TypeOK
  <2>3. ASSUME NEW u \in User, u \notin overlap', u = owner[w]
        PROVE  \A v \in Withdrawal : owner[v] = u => ~Committed(v)
    BY <1>4, <2>3 DEF CheckWithdraw, Sufficient
  <2>4. balance[owner[w]] >= amount[w]
    <3>1. owner[w] \in User /\ amount[w] \in Int
      BY RequestsAreValid DEF Request
    <3> QED BY <1>4, <3>1 DEF CheckWithdraw, Sufficient, TypeOK
  <2>5. ASSUME NEW u \in User \ overlap'
        PROVE  /\ balance'[u] >= 0
               /\ \A x \in Withdrawal :
                    owner'[x] = u /\ Committed(x)' =>
                      /\ balance'[u] >= amount'[x]
                      /\ \A v \in Withdrawal :
                           owner'[v] = u /\ Committed(v)' => v = x
    BY <2>1, <2>2, <2>3, <2>4 DEF Covered
  <2> QED BY <2>5 DEF Covered
<1>5. ASSUME NEW w \in Withdrawal, Debit(w)
      PROVE  Covered'
  <2>1. owner[w] \in User /\ amount[w] \in Int /\ amount[w] > 0
    BY RequestsAreValid DEF Request
  <2>2. UNCHANGED <<owner, amount, overlap>> /\ Committed(w)
    BY <1>5 DEF Debit, DebitFrom, Committed
  <2>3. \A v \in Withdrawal : Committed(v)' <=> Committed(v) /\ v # w
    BY <1>5 DEF Debit, DebitFrom, Committed, TypeOK
  <2>4. balance' = [balance EXCEPT ![owner[w]] = @ - amount[w]]
    BY <1>5 DEF Debit, DebitFrom
  <2>5. ASSUME NEW u \in User \ overlap', u # owner[w]
        PROVE  /\ balance'[u] >= 0
               /\ \A x \in Withdrawal :
                    owner'[x] = u /\ Committed(x)' =>
                      /\ balance'[u] >= amount'[x]
                      /\ \A v \in Withdrawal :
                           owner'[v] = u /\ Committed(v)' => v = x
    <3>1. balance'[u] = balance[u]
      BY <2>1, <2>4, <2>5 DEF TypeOK
    <3> QED BY <2>2, <2>3, <3>1 DEF Covered
  <2>6. ASSUME NEW u \in User \ overlap', u = owner[w]
        PROVE  /\ balance'[u] >= 0
               /\ \A x \in Withdrawal : owner'[x] = u => ~Committed(x)'
    <3>1. balance[u] \in Int /\ balance'[u] = balance[u] - amount[w]
      BY <2>1, <2>4, <2>6 DEF TypeOK
    <3>2. balance[u] >= amount[w]
      BY <2>2, <2>6 DEF Covered
    <3>3. \A x \in Withdrawal : owner[x] = u /\ Committed(x) => x = w
      BY <2>2, <2>6 DEF Covered
    <3> QED BY <2>1, <2>2, <2>3, <3>1, <3>2, <3>3
  <2> QED BY <2>5, <2>6 DEF Covered
\* The other steps of a withdrawal can only end its commitment.
<1>6. ASSUME NEW w \in Withdrawal,
             \/ Transfer(w) \/ TransferFails(w) \/ RecordCompleted(w)
             \/ RecordFailed(w) \/ WithdrawWriteFails(w)
      PROVE  Covered'
  <2>1. UNCHANGED <<requests, balance, overlap>>
    BY <1>6 DEF Transfer, TransferFails, RecordCompleted, RecordFailed,
                Record, WithdrawWriteFails
  <2>2. \A v \in Withdrawal : Committed(v)' => Committed(v)
    BY <1>6 DEF Transfer, TransferFails, RecordCompleted, RecordFailed,
                Record, WithdrawWriteFails, Committed, TypeOK
  <2>3. \A u \in User : balance'[u] >= balance[u]
    BY <2>1 DEF TypeOK
  <2> QED BY <2>1, <2>2, <2>3, CoveredByOthers
<1>7. ASSUME Remove \/ Crash
      PROVE  Covered'
  <2>1. UNCHANGED <<requests, balance, overlap>>
    BY <1>7 DEF Remove, Crash
  <2>2. \A v \in Withdrawal : Committed(v)' => Committed(v)
    BY <1>7 DEF Remove, Crash, InService, Committed, TypeOK
  <2>3. \A u \in User : balance'[u] >= balance[u]
    BY <2>1 DEF TypeOK
  <2> QED BY <2>1, <2>2, <2>3, CoveredByOthers
<1>8. CASE UNCHANGED vars
  BY <1>8, <1>0 DEF vars, system
<1> QED BY <1>1, <1>2, <1>3, <1>4, <1>5, <1>6, <1>7, <1>8
        DEF Next, WebhookStep, WithdrawStep

\* No user's balance goes negative unless two withdrawals of that user were
\* between check and debit at the same time.
THEOREM AloneIsNeverOverdrawn == Spec => []NoOverdraftAlone
<1>1. Init => Covered
  BY DEF Init, Covered, Committed
<1>2. TypeOK /\ TypeOK' /\ Covered /\ [Next]_vars => Covered'
  BY CoveredStep
<1>3. Covered => NoOverdraftAlone
  BY DEF Covered, NoOverdraftAlone
<1> QED BY <1>1, <1>2, <1>3, TypeCorrect, PTL DEF Spec

-----------------------------------------------------------------------------
(* The steps of one withdrawal happen in the order of the code.            *)

\* How far a withdrawal has got decides what has happened at Stripe, to the
\* balance and to its row.
Ordered ==
    \A w \in Withdrawal :
        /\ withdrawPc[w] \in {"idle", "checked"} =>
             w \notin transferred /\ w \notin debited
        /\ withdrawPc[w] = "transferred" => w \in transferred /\ w \notin debited
        /\ withdrawPc[w] = "debited" => w \in transferred /\ w \in debited
        /\ withdrawPc[w] \in {"failing", "done"} =>
             \/ w \in transferred <=> w \in debited
             \/ w \in transferred /\ owner[w] \in dirty
        /\ payout[w] = "completed" =>
             /\ withdrawPc[w] = "done"
             /\ w \in transferred /\ w \in debited

\* A step that changes nothing about withdrawals but may add a dirty user.
LEMMA OrderedByOthers ==
    ASSUME Ordered, dirty \subseteq dirty',
           UNCHANGED <<owner, withdrawPc, payout, transferred, debited>>
    PROVE  Ordered'
BY DEF Ordered

LEMMA OrderedStep ==
    ASSUME TypeOK, Ordered, [Next]_vars
    PROVE  Ordered'
<1> USE DEF requests, depositing, webhook, withdrawing
<1>1. ASSUME NEW d \in Deposit,
DepositStep(d) \/ CancelCheck(d) \/ CancelWrite(d)
      PROVE  Ordered'
  <2>1. dirty \subseteq dirty' /\ UNCHANGED <<requests, withdrawing>>
    BY <1>1 DEF DepositStep, CreateDeposit, CreateIntent, IntentFails, Pay,
                CancelCheck, CancelWrite, Fault
  <2> QED BY <2>1, OrderedByOthers
<1>2. ASSUME NEW h \in Delivery,
             \/ WebhookStep(h) \/ WebhookWriteFails(h) \/ LoseReply(h)
             \/ \E d \in Deposit : Deliver(h, d)
      PROVE  Ordered'
  <2>1. dirty \subseteq dirty' /\ UNCHANGED <<requests, withdrawing>>
    BY <1>2 DEF WebhookStep, MarkSucceeded, Mark, MarkMissing, Credit, Reply,
                WebhookWriteFails, LoseReply, Deliver, Fault
  <2> QED BY <2>1, OrderedByOthers
<1>3. ASSUME NEW w \in Withdrawal, CheckWithdraw(w)
      PROVE  Ordered'
  BY <1>3 DEF CheckWithdraw, Sufficient, Ordered, TypeOK
<1>4. ASSUME NEW w \in Withdrawal, Transfer(w)
      PROVE  Ordered'
  BY <1>4 DEF Transfer, Ordered, TypeOK
<1>5. ASSUME NEW w \in Withdrawal, Debit(w)
      PROVE  Ordered'
  BY <1>5 DEF Debit, DebitFrom, Ordered, TypeOK
<1>6. ASSUME NEW w \in Withdrawal, RecordCompleted(w) \/ RecordFailed(w)
      PROVE  Ordered'
  BY <1>6 DEF RecordCompleted, RecordFailed, Record, Ordered, TypeOK
<1>7. ASSUME NEW w \in Withdrawal, TransferFails(w)
      PROVE  Ordered'
  BY <1>7 DEF TransferFails, Fault, Ordered, TypeOK
<1>8. ASSUME NEW w \in Withdrawal, WithdrawWriteFails(w)
      PROVE  Ordered'
  BY <1>8 DEF WithdrawWriteFails, Fault, Ordered, TypeOK
<1>9. CASE Remove
  BY <1>9 DEF Remove, Ordered, TypeOK
<1>10. CASE Crash
  <2>1. UNCHANGED <<owner, payout, transferred,
  debited>> /\ dirty \subseteq dirty'
    BY <1>10 DEF Crash, Fault
  <2>2. \A w \in Withdrawal :
           IF InService(withdrawPc[w])
           THEN withdrawPc'[w] = "done" /\ owner[w] \in dirty'
           ELSE withdrawPc'[w] = withdrawPc[w]
    BY <1>10 DEF Crash, Fault, TypeOK
  <2>3. \A w \in Withdrawal :
           withdrawPc[w] \in {"idle", "checked", "transferred", "debited",
                             "failing", "done"}
    BY DEF TypeOK
  <2> QED BY <2>1, <2>2, <2>3 DEF Ordered, InService
<1>11. CASE UNCHANGED vars
  BY <1>11, OrderedByOthers DEF vars, system
<1> QED BY <1>1, <1>2, <1>3, <1>4, <1>5, <1>6, <1>7, <1>8, <1>9, <1>10, <1>11
        DEF Next, WithdrawStep

LEMMA WithdrawalsOrdered == Spec => []Ordered
<1>1. Init => Ordered
  BY DEF Init, Ordered
<1>2. TypeOK /\ Ordered /\ [Next]_vars => Ordered'
  BY OrderedStep
<1> QED BY <1>1, <1>2, TypeCorrect, PTL DEF Spec

\* A row says 'completed' only for money that left the platform and the balance.
THEOREM CompletedAreSettled == Spec => []CompletedIsSettled
<1>1. Ordered => CompletedIsSettled
  BY DEF Ordered, CompletedIsSettled
<1> QED BY <1>1, WithdrawalsOrdered, PTL

\* The debit comes after the payout, and nothing but a failure keeps it away.
THEOREM DebitsFollowPayouts == Spec => []DebitFollowsPayout
<1>1. TypeOK /\ Ordered => DebitFollowsPayout
  <2> SUFFICES ASSUME TypeOK, Ordered, NEW w \in Withdrawal
               PROVE  /\ w \in debited => w \in transferred
                      /\ w \in transferred /\ w \notin debited =>
                           withdrawPc[w] = "transferred" \/ owner[w] \in dirty
    BY DEF DebitFollowsPayout, TypeOK
  <2> QED BY DEF Ordered, TypeOK
<1> QED BY <1>1, WithdrawalsOrdered, TypeCorrect, PTL

-----------------------------------------------------------------------------
(* A deposit whose event Stripe has stopped delivering.                    *)

\* A removed row makes its user dirty.
RemovedIsDirty ==
    \A d \in Deposit : row[d] = "deleted" => owner[d] \in dirty

LEMMA RemovedAreDirty == Spec => []RemovedIsDirty
<1> USE DEF RemovedIsDirty, requests, depositing, webhook, withdrawing
<1>1. Init => RemovedIsDirty
  BY DEF Init
<1>2. TypeOK /\ RemovedIsDirty /\ [Next]_vars => RemovedIsDirty'
  <2> SUFFICES ASSUME TypeOK, RemovedIsDirty, [Next]_vars PROVE RemovedIsDirty'
    OBVIOUS
  <2>1. ASSUME NEW d \in Deposit,
  DepositStep(d) \/ CancelCheck(d) \/ CancelWrite(d)
        PROVE  RemovedIsDirty'
    BY <2>1 DEF DepositStep, CreateDeposit, CreateIntent, IntentFails, Pay,
                CancelCheck, CancelWrite, Fault, TypeOK
  <2>2. ASSUME NEW h \in Delivery, MarkSucceeded(h)
        PROVE  RemovedIsDirty'
    BY <2>2 DEF MarkSucceeded, Mark, TypeOK
  <2>3. CASE Remove
    BY <2>3 DEF Remove, TypeOK
  <2>4. ASSUME UNCHANGED <<owner, row>>, dirty \subseteq dirty'
        PROVE  RemovedIsDirty'
    BY <2>4
  <2>5. ASSUME NEW h \in Delivery,
               \/ MarkMissing(h) \/ Credit(h) \/ Reply(h)
               \/ WebhookWriteFails(h) \/ LoseReply(h)
               \/ \E d \in Deposit : Deliver(h, d)
        PROVE  UNCHANGED <<owner, row>> /\ dirty \subseteq dirty'
    BY <2>5 DEF MarkMissing, Credit, Reply, WebhookWriteFails, LoseReply,
                Deliver, Fault
  <2>6. ASSUME NEW w \in Withdrawal,
               \/ CheckWithdraw(w) \/ WithdrawStep(w)
               \/ TransferFails(w) \/ WithdrawWriteFails(w)
        PROVE  UNCHANGED <<owner, row>> /\ dirty \subseteq dirty'
    BY <2>6 DEF CheckWithdraw, Sufficient, WithdrawStep, Transfer, Debit,
                DebitFrom, RecordCompleted, RecordFailed,
                Record, TransferFails, WithdrawWriteFails, Fault
  <2>7. Crash \/ UNCHANGED vars => UNCHANGED <<owner,
  row>> /\ dirty \subseteq dirty'
    BY DEF Crash, Fault, vars, system
  <2> QED BY <2>1, <2>2, <2>3, <2>4, <2>5, <2>6, <2>7 DEF Next, WebhookStep
<1> QED BY <1>1, <1>2, TypeCorrect, PTL DEF Spec

\* A clean user's deposit is handled by at most one webhook request, which
\* finds it not yet credited and replies after crediting it exactly once.
Delivered ==
    /\ \A d \in Deposit :
         /\ d \in acked => credits[d] > 0 \/ d \in refused
         /\ owner[d] \notin dirty =>
              /\ d \notin refused
              /\ credits[d] <= 1
              /\ d \in acked => /\ credits[d] = 1
                               /\ \A h \in Delivery : event[h] # d
              /\ \A g, h \in Delivery : event[g] = d /\ event[h] = d => g = h
    /\ \A h \in Delivery :
         LET d == event[h] IN
         /\ webhookPc[h] = "reply" => credits[d] > 0 \/ d \in refused
         /\ webhookPc[h] \in {"mark", "credit"} /\ owner[d] \notin dirty =>
              credits[d] = 0

\* A step that changes nothing about the webhook but may add a dirty user.
LEMMA DeliveredByOthers ==
    ASSUME TypeOK, Delivered, dirty \subseteq dirty', UNCHANGED owner,
           UNCHANGED webhook
    PROVE  Delivered'
BY DEF Delivered, webhook

LEMMA DeliveredStep ==
    ASSUME TypeOK, TypeOK', RemovedIsDirty, Delivered, [Next]_vars
    PROVE  Delivered'
<1> USE DEF requests, depositing, withdrawing
<1>0. \A h \in Delivery : webhookPc[h] # "idle" => event[h] \in Deposit
  BY DEF TypeOK
<1>1. ASSUME NEW d \in Deposit,
DepositStep(d) \/ CancelCheck(d) \/ CancelWrite(d)
      PROVE  Delivered'
  <2>1. dirty \subseteq dirty' /\ UNCHANGED <<requests, webhook>>
    BY <1>1 DEF DepositStep, CreateDeposit, CreateIntent, IntentFails, Pay,
                CancelCheck, CancelWrite, Fault
  <2> QED BY <2>1, DeliveredByOthers
<1>2. ASSUME NEW w \in Withdrawal,
             \/ CheckWithdraw(w) \/ WithdrawStep(w)
             \/ TransferFails(w) \/ WithdrawWriteFails(w)
      PROVE  Delivered'
  <2>1. dirty \subseteq dirty' /\ UNCHANGED <<requests, webhook>>
    BY <1>2 DEF CheckWithdraw, Sufficient, WithdrawStep, Transfer, Debit,
                DebitFrom, RecordCompleted, RecordFailed,
                Record, TransferFails, WithdrawWriteFails, Fault
  <2> QED BY <2>1, DeliveredByOthers
<1>3. CASE Remove \/ UNCHANGED vars
  <2>1. dirty \subseteq dirty' /\ UNCHANGED <<requests, webhook>>
    BY <1>3 DEF Remove, vars, system, webhook
  <2> QED BY <2>1, DeliveredByOthers
<1>4. ASSUME NEW h \in Delivery, NEW d \in Deposit, Deliver(h, d)
      PROVE  Delivered'
  <2>1. owner[d] \notin dirty' =>
           credits[d] = 0 /\ \A g \in Delivery : event[g] # d
    BY <1>4 DEF Deliver, TypeOK
  <2> QED BY <1>4, <2>1 DEF Deliver, webhook, Delivered, TypeOK
<1>5. ASSUME NEW h \in Delivery, MarkSucceeded(h)
      PROVE  Delivered'
  BY <1>5 DEF MarkSucceeded, Mark, Delivered, TypeOK
<1>6. ASSUME NEW h \in Delivery, MarkMissing(h)
      PROVE  Delivered'
  <2>1. event[h] \in Deposit /\ owner[event[h]] \in dirty
    BY <1>6, <1>0 DEF MarkMissing, RemovedIsDirty
  <2> QED BY <1>6, <2>1 DEF MarkMissing, Delivered, TypeOK
<1>7. ASSUME NEW h \in Delivery, Credit(h)
      PROVE  Delivered'
  BY <1>7, <1>0 DEF Credit, Delivered, TypeOK
<1>8. ASSUME NEW h \in Delivery, WebhookWriteFails(h)
      PROVE  Delivered'
  BY <1>8, <1>0 DEF WebhookWriteFails, Fault, Delivered, TypeOK
<1>9. ASSUME NEW h \in Delivery, Reply(h) \/ LoseReply(h)
      PROVE  Delivered'
  BY <1>9, <1>0 DEF Reply, LoseReply, Fault, Delivered, TypeOK
<1>10. CASE Crash
  BY <1>10 DEF Crash, Fault, Delivered, TypeOK
<1> QED BY <1>1, <1>2, <1>3, <1>4, <1>5, <1>6, <1>7, <1>8, <1>9, <1>10
        DEF Next, WebhookStep

\* Stripe stops delivering an event only when its deposit has been credited,
\* once if the user is clean, or the webhook answered received: false.
THEOREM AckedAreCredited == Spec => []AckedIsCredited
<1>1. Init => Delivered
  BY DEF Init, Delivered
<1>2. TypeOK /\ TypeOK' /\ RemovedIsDirty /\ Delivered /\ [Next]_vars => Delivered'
  BY DeliveredStep
<1>3. TypeOK /\ Delivered => AckedIsCredited
  BY DEF Delivered, AckedIsCredited, TypeOK
<1> QED BY <1>1, <1>2, <1>3, TypeCorrect, RemovedAreDirty, PTL DEF Spec

-----------------------------------------------------------------------------
(* The wallet as the ledger sees it.                                       *)

\* A deposit gets its intent once, and a webhook request is about a deposit
\* that has been paid.
Paying ==
    /\ \A d \in Deposit : depositPc[d] \in {"idle", "rowed"} => intent[d] = "none"
    /\ \A h \in Delivery : webhookPc[h] # "idle" => intent[event[h]] = "paid"

LEMMA PayingInvariant == Spec => []Paying
<1> USE DEF Paying, requests, depositing, webhook, withdrawing
<1>1. Init => Paying
  BY DEF Init
<1>2. TypeOK /\ Paying /\ [Next]_vars => Paying'
  <2> SUFFICES ASSUME TypeOK, Paying, [Next]_vars PROVE Paying'
    OBVIOUS
  <2>0. \A h \in Delivery : webhookPc[h] # "idle" => event[h] \in Deposit
    BY DEF TypeOK
  <2>1. ASSUME NEW d \in Deposit, DepositStep(d) PROVE Paying'
    <3>1. CASE CreateDeposit(d) BY <3>1, <2>0 DEF CreateDeposit, TypeOK
    <3>2. CASE CreateIntent(d) BY <3>2, <2>0 DEF CreateIntent, TypeOK
    <3>3. CASE IntentFails(d) BY <3>3, <2>0 DEF IntentFails, TypeOK
    <3>4. CASE Pay(d) BY <3>4, <2>0 DEF Pay, TypeOK
    <3> QED BY <2>1, <3>1, <3>2, <3>3, <3>4 DEF DepositStep
  <2>2. ASSUME NEW h \in Delivery,
               \/ WebhookStep(h) \/ WebhookWriteFails(h) \/ LoseReply(h)
               \/ \E d \in Deposit : Deliver(h, d)
        PROVE  Paying'
    BY <2>2, <2>0 DEF WebhookStep, MarkSucceeded, Mark, MarkMissing, Credit, Reply,
                WebhookWriteFails, LoseReply, Deliver, TypeOK
  <2>3. CASE Crash
    BY <2>3, <2>0 DEF Crash, InService, TypeOK
  <2>4. ASSUME NEW w \in Withdrawal,
               \/ CheckWithdraw(w) \/ WithdrawStep(w)
               \/ TransferFails(w) \/ WithdrawWriteFails(w)
        PROVE  Paying'
    BY <2>4 DEF CheckWithdraw, Sufficient, WithdrawStep, Transfer, Debit,
                DebitFrom, RecordCompleted, RecordFailed, Record,
                TransferFails, WithdrawWriteFails
  <2>5. ASSUME NEW d \in Deposit, CancelCheck(d) \/ CancelWrite(d)
        PROVE  Paying'
    BY <2>5 DEF CancelCheck, CancelWrite
  <2>6. CASE Remove \/ UNCHANGED vars
    BY <2>6 DEF Remove, vars, system
  <2> QED BY <2>1, <2>2, <2>3, <2>4, <2>5, <2>6 DEF Next
<1> QED BY <1>1, <1>2, TypeCorrect, PTL DEF Spec

-----------------------------------------------------------------------------
(* Each step of the wallet is a step of the ledger or leaves it alone.     *)

\* A step that moves no money, pays no deposit and starts no withdrawal.
LEMMA OthersStutter ==
    ASSUME UNCHANGED <<owner, amount, balance, intent, transferred, debited>>,
           \A w \in Withdrawal : withdrawPc'[w] # "idle" <=> withdrawPc[w] # "idle"
    PROVE  UNCHANGED L!vars
BY DEF L!vars, PaidIn, Authorised

LEMMA LedgerStep ==
    ASSUME TypeOK, Ordered, Paying, [Next]_vars
    PROVE  [L!Next]_(L!vars)
<1> USE DEF requests, depositing, webhook, withdrawing
<1>0. ASSUME UNCHANGED <<owner, amount, balance, intent, transferred, debited,
                         withdrawPc>>
      PROVE  UNCHANGED L!vars
  BY <1>0, OthersStutter
<1>1. ASSUME NEW d \in Deposit, Pay(d)
      PROVE  L!Pay(d)
  <2>1. PaidIn' = PaidIn \cup {d} /\ d \notin PaidIn
    BY <1>1 DEF Pay, PaidIn, TypeOK
  <2>2. Authorised' = Authorised
    BY <1>1 DEF Pay, Authorised
  <2> QED BY <1>1, <2>1, <2>2 DEF Pay, L!Pay
<1>2. ASSUME NEW d \in Deposit, CreateIntent(d)
      PROVE  UNCHANGED L!vars
  <2>1. PaidIn' = PaidIn
    BY <1>2 DEF CreateIntent, Paying, PaidIn, TypeOK
  <2>2. Authorised' = Authorised
    BY <1>2 DEF CreateIntent, Authorised
  <2> QED BY <1>2, <2>1, <2>2 DEF CreateIntent, L!vars
<1>3. ASSUME NEW h \in Delivery, Credit(h)
      PROVE  event[h] \in Deposit /\ L!Credit(event[h])
  <2>1. event[h] \in Deposit /\ event[h] \in PaidIn
    BY <1>3 DEF Credit, Paying, PaidIn, TypeOK
  <2>2. PaidIn' = PaidIn /\ Authorised' = Authorised
    BY <1>3 DEF Credit, PaidIn, Authorised
  <2> QED BY <1>3, <2>1, <2>2 DEF Credit, L!Credit
<1>4. ASSUME NEW w \in Withdrawal, CheckWithdraw(w)
      PROVE  L!Authorise(w)
  <2>1. Authorised' = Authorised \cup {w} /\ w \notin Authorised
    BY <1>4 DEF CheckWithdraw, Authorised, TypeOK
  <2>2. PaidIn' = PaidIn
    BY <1>4 DEF CheckWithdraw, PaidIn
  <2>3. MinWithdraw <= amount[w] /\ amount[w] <= balance[owner[w]]
    <3>1. amount[w] \in Int
      BY RequestsAreValid DEF Request
    <3> QED BY <1>4, <3>1 DEF CheckWithdraw, Sufficient, MinWithdraw
  <2> QED BY <1>4, <2>1, <2>2, <2>3 DEF CheckWithdraw, L!Authorise
<1>5. ASSUME NEW w \in Withdrawal, Transfer(w) \/ TransferFails(w)
      PROVE  L!Send(w) \/ UNCHANGED L!vars
  <2>1. w \in Authorised \ transferred
    BY <1>5 DEF Transfer, TransferFails, Ordered, Authorised
  <2>2. PaidIn' = PaidIn /\ Authorised' = Authorised
    BY <1>5 DEF Transfer, TransferFails, PaidIn, Authorised, TypeOK
  <2>3. transferred' = transferred \/ transferred' = transferred \cup {w}
    BY <1>5 DEF Transfer, TransferFails
  <2> QED BY <1>5, <2>1, <2>2, <2>3 DEF Transfer, TransferFails, L!Send, L!vars
<1>6. ASSUME NEW w \in Withdrawal, Debit(w)
      PROVE  L!Debit(w)
  <2>1. w \in transferred \ debited
    BY <1>6 DEF Debit, DebitFrom, Ordered
  <2>2. PaidIn' = PaidIn /\ Authorised' = Authorised
    BY <1>6 DEF Debit, DebitFrom, PaidIn, Authorised, TypeOK
  <2> QED BY <1>6, <2>1, <2>2 DEF Debit, DebitFrom, L!Debit
<1>7. ASSUME NEW w \in Withdrawal,
             RecordCompleted(w) \/ RecordFailed(w) \/ WithdrawWriteFails(w)
      PROVE  UNCHANGED L!vars
  <2>1. UNCHANGED <<owner, amount, balance, intent, transferred, debited>>
    BY <1>7 DEF RecordCompleted, RecordFailed, Record, WithdrawWriteFails
  <2>2. \A v \in Withdrawal : withdrawPc'[v] # "idle" <=> withdrawPc[v] # "idle"
    BY <1>7 DEF RecordCompleted, RecordFailed, Record, WithdrawWriteFails, TypeOK
  <2> QED BY <2>1, <2>2, OthersStutter
<1>8. ASSUME NEW d \in Deposit,
             \/ CreateDeposit(d) \/ IntentFails(d) \/ CancelCheck(d)
             \/ CancelWrite(d)
      PROVE  UNCHANGED L!vars
  BY <1>8, <1>0 DEF CreateDeposit, IntentFails, CancelCheck, CancelWrite
<1>9. ASSUME NEW h \in Delivery,
             \/ MarkSucceeded(h) \/ MarkMissing(h) \/ Reply(h)
             \/ WebhookWriteFails(h) \/ LoseReply(h)
             \/ \E d \in Deposit : Deliver(h, d)
      PROVE  UNCHANGED L!vars
  BY <1>9, <1>0 DEF MarkSucceeded, Mark, MarkMissing, Reply, WebhookWriteFails,
                    LoseReply, Deliver
<1>10. CASE Crash
  <2>1. UNCHANGED <<owner, amount, balance, intent, transferred, debited>>
    BY <1>10 DEF Crash
  <2>2. \A v \in Withdrawal : withdrawPc'[v] # "idle" <=> withdrawPc[v] # "idle"
    BY <1>10 DEF Crash, InService, TypeOK
  <2> QED BY <2>1, <2>2, OthersStutter
<1>11. CASE Remove \/ UNCHANGED vars
  BY <1>11, <1>0 DEF Remove, vars, system
<1> QED BY <1>1, <1>2, <1>3, <1>4, <1>5, <1>6, <1>7, <1>8, <1>9, <1>10, <1>11
        DEF Next, DepositStep, WebhookStep, WithdrawStep, L!Next

\* Every movement of money the wallet makes is one the ledger allows.
THEOREM WalletImplementsLedger == Spec => ImplementsLedger
<1>1. Init => L!Init
  <2> SUFFICES ASSUME Init PROVE L!Init
    OBVIOUS
  <2>1. PaidIn = {} /\ Authorised = {}
    BY DEF Init, PaidIn, Authorised
  <2>2. amount \in [Deposit \cup Withdrawal -> Nat \ {0}]
    <3>1. Amount \subseteq Nat \ {0}
      BY WalletAssumption DEF WalletAssumption
    <3> QED BY <3>1 DEF Init, Request
  <2> QED BY <2>1, <2>2 DEF Init, L!Init, Request
<1>2. TypeOK /\ Ordered /\ Paying /\ [Next]_vars => [L!Next]_(L!vars)
  BY LedgerStep
<1> QED BY <1>1, <1>2, TypeCorrect, WithdrawalsOrdered, PayingInvariant, PTL
        DEF Spec, ImplementsLedger, L!Spec

-----------------------------------------------------------------------------
(* The rows explain the balance.                                           *)

\* One member more adds its value to a sum.
LEMMA SumOfOneMore ==
    ASSUME NEW f, NEW S, NEW x, x \notin S, f[x] \in Nat, IsFiniteSet(Units(f, S))
    PROVE  /\ IsFiniteSet(Units(f, S \cup {x})) /\ SumOver(f, S) \in Nat
           /\ SumOver(f, S \cup {x}) = SumOver(f, S) + f[x]
<1> DEFINE A == Units(f, S)
           B == {x} \X (1..f[x])
<1>1. Units(f, S \cup {x}) = A \cup B
  BY DEF Units
<1>2. A \cap B = {}
  BY DEF Units
<1>3. IsFiniteSet({x}) /\ Cardinality({x}) = 1
  BY FS_Singleton
<1>4. IsFiniteSet(1..f[x]) /\ Cardinality(1..f[x]) = f[x]
  <2>1. 1 \in Int /\ f[x] \in Int
    OBVIOUS
  <2>2. /\ IsFiniteSet(1..f[x])
        /\ Cardinality(1..f[x]) = IF 1 > f[x] THEN 0 ELSE f[x] - 1 + 1
    BY <2>1, FS_Interval, Zenon
  <2> QED BY <2>2
<1>5. IsFiniteSet(B) /\ Cardinality(B) = Cardinality({x}) * Cardinality(1..f[x])
  BY <1>3, <1>4, FS_Product
<1>6. Cardinality(B) = f[x]
  BY <1>3, <1>4, <1>5
<1> HIDE DEF A, B
<1>7. /\ IsFiniteSet(A \cup B)
      /\ Cardinality(A \cup B) = Cardinality(A) + Cardinality(B) - Cardinality(A \cap B)
  BY <1>5, FS_Union DEF A
<1>8. Cardinality(A) \in Nat /\ Cardinality(A \cap B) = 0
  BY <1>2, FS_CardinalityType, FS_EmptySet DEF A
<1>9. Cardinality(A \cup B) = Cardinality(A) + f[x]
  BY <1>6, <1>7, <1>8
<1> QED BY <1>1, <1>7, <1>8, <1>9 DEF SumOver, A

LEMMA SumOfNone ==
    ASSUME NEW f
    PROVE  IsFiniteSet(Units(f, {})) /\ SumOver(f, {}) = 0
<1>1. Units(f, {}) = {}
  BY DEF Units
<1> QED BY <1>1, FS_EmptySet DEF SumOver

\* A row is written before anything else happens to it.  A clean user's row
\* that says 'succeeded' has been credited or is about to be, and a row that is
\* about to be credited says 'succeeded'.
Marked ==
    /\ \A d \in Deposit : depositPc[d] = "idle" =>
          row[d] = "none" /\ d \notin cancelling
    /\ \A d \in Deposit : row[d] = "succeeded" /\ owner[d] \notin dirty =>
          \/ credits[d] > 0
          \/ \E h \in Delivery : event[h] = d /\ webhookPc[h] = "credit"
    /\ \A h \in Delivery : webhookPc[h] = "credit" /\ owner[event[h]] \notin dirty =>
          row[event[h]] = "succeeded"

\* A step that leaves deposits and the webhook alone may add a dirty user.
LEMMA MarkedByOthers ==
    ASSUME Marked, dirty \subseteq dirty', UNCHANGED <<owner, depositing, webhook>>
    PROVE  Marked'
BY DEF Marked, depositing, webhook

LEMMA MarkedInvariant == Spec => []Marked
<1> USE DEF requests, withdrawing
<1>1. Init => Marked
  BY DEF Init, Marked
<1>2. TypeOK /\ Paying /\ Marked /\ [Next]_vars => Marked'
  <2> SUFFICES ASSUME TypeOK, Paying, Marked, [Next]_vars PROVE Marked'
    OBVIOUS
  <2>0. \A h \in Delivery : webhookPc[h] # "idle" =>
           event[h] \in Deposit /\ depositPc[event[h]] # "idle"
    BY DEF TypeOK, Paying
  <2>1. ASSUME NEW d \in Deposit, CreateDeposit(d) PROVE Marked'
    BY <2>0, <2>1 DEF CreateDeposit, webhook, Marked, TypeOK
  <2>2. ASSUME NEW d \in Deposit, CreateIntent(d) \/ IntentFails(d) \/ Pay(d)
        PROVE  Marked'
    BY <2>2 DEF CreateIntent, IntentFails, Pay, Fault, webhook, Marked, TypeOK
  <2>3. ASSUME NEW d \in Deposit, CancelCheck(d) PROVE Marked'
    BY <2>3 DEF CancelCheck, webhook, Marked, TypeOK
  <2>4. ASSUME NEW d \in Deposit, CancelWrite(d) PROVE Marked'
    BY <2>4, <2>0 DEF CancelWrite, webhook, Marked, TypeOK
  <2>5. ASSUME NEW h \in Delivery, NEW d \in Deposit, Deliver(h, d)
        PROVE  Marked'
    BY <2>5, <2>0 DEF Deliver, depositing, Marked, TypeOK
  <2>6. ASSUME NEW h \in Delivery, MarkSucceeded(h) PROVE Marked'
    BY <2>6, <2>0 DEF MarkSucceeded, Mark, Marked, TypeOK
  <2>7. ASSUME NEW h \in Delivery, Credit(h) PROVE Marked'
    BY <2>7, <2>0 DEF Credit, depositing, Marked, TypeOK
  <2>8. ASSUME NEW h \in Delivery, MarkMissing(h) \/ Reply(h) \/ LoseReply(h)
        PROVE  Marked'
    BY <2>8, <2>0 DEF MarkMissing, Reply, LoseReply, Fault, depositing, Marked,
                      TypeOK
  <2>9. ASSUME NEW h \in Delivery, WebhookWriteFails(h) PROVE Marked'
    BY <2>9, <2>0 DEF WebhookWriteFails, Fault, depositing, Marked, TypeOK
  <2>10. ASSUME NEW w \in Withdrawal,
                \/ CheckWithdraw(w) \/ WithdrawStep(w)
                \/ TransferFails(w) \/ WithdrawWriteFails(w)
         PROVE  Marked'
    <3>1. dirty \subseteq dirty' /\ UNCHANGED <<owner, depositing, webhook>>
      BY <2>10 DEF CheckWithdraw, Sufficient, WithdrawStep, Transfer, Debit,
                   DebitFrom, RecordCompleted, RecordFailed, Record,
                   TransferFails, WithdrawWriteFails, Fault
    <3> QED BY <3>1, MarkedByOthers
  <2>11. CASE Remove
    BY <2>11, <2>0 DEF Remove, webhook, Marked, TypeOK
  <2>12. CASE Crash
    BY <2>12, <2>0 DEF Crash, Fault, InService, Marked, TypeOK
  <2>13. CASE UNCHANGED vars
    BY <2>13, MarkedByOthers DEF vars, system, depositing, webhook
  <2> QED BY <2>1, <2>2, <2>3, <2>4, <2>5, <2>6, <2>7, <2>8, <2>9, <2>10, <2>11,
             <2>12, <2>13 DEF Next, DepositStep, WebhookStep
<1> QED BY <1>1, <1>2, TypeCorrect, PayingInvariant, PTL DEF Spec

\* The books of one user: the sums exist, and their difference is the balance.
Books(u) ==
    /\ IsFiniteSet(Units(amount, Received(u)))
    /\ IsFiniteSet(Units(amount, PaidOut(u)))
    /\ balance[u] = Total(Received(u)) - Total(PaidOut(u))

Booked == \A u \in User \ dirty : Books(u)

\* A step keeps a user's books when it leaves the balance alone and neither
\* counts nor drops a request of that user.
LEMMA BooksStay ==
    ASSUME NEW u \in User, Books(u), UNCHANGED <<amount, balance>>,
           Received(u)' = Received(u), PaidOut(u)' = PaidOut(u)
    PROVE  Books(u)'
BY DEF Books, Total

LEMMA BookedStep ==
    ASSUME TypeOK, TypeOK', Ordered, Delivered, Delivered', Paying, Marked, Booked,
           [Next]_vars
    PROVE  Booked'
<1> USE DEF requests
<1>0. \A h \in Delivery : webhookPc[h] # "idle" =>
         event[h] \in Deposit /\ depositPc[event[h]] # "idle"
  BY DEF TypeOK, Paying
\* What has to be shown of a step that moves no money.
<1>1. ASSUME UNCHANGED <<owner, amount, balance>>, dirty \subseteq dirty',
             \A u \in User \ dirty' :
                Received(u)' = Received(u) /\ PaidOut(u)' = PaidOut(u)
      PROVE  Booked'
  <2> SUFFICES ASSUME NEW u \in User, u \notin dirty' PROVE Books(u)'
    BY DEF Booked
  <2>1. Books(u)
    BY <1>1 DEF Booked
  <2> QED BY <1>1, <2>1, BooksStay
\* What the deposits and the withdrawals need in order to count the same.
<1>2. ASSUME UNCHANGED <<owner, row, webhookPc, event>>
      PROVE  \A u \in User : Received(u)' = Received(u)
  BY <1>2 DEF Received
<1>3. ASSUME UNCHANGED <<owner, payout, withdrawPc>>
      PROVE  \A u \in User : PaidOut(u)' = PaidOut(u)
  BY <1>3 DEF PaidOut
<1>4. ASSUME NEW d \in Deposit, CreateDeposit(d) PROVE Booked'
  <2>1. \A u \in User : Received(u)' = Received(u)
    BY <1>4 DEF CreateDeposit, webhook, Marked, TypeOK, Received
  <2> QED BY <1>1, <1>3, <1>4, <2>1 DEF CreateDeposit, withdrawing
<1>5. ASSUME NEW d \in Deposit,
             CreateIntent(d) \/ IntentFails(d) \/ Pay(d) \/ CancelCheck(d)
      PROVE  Booked'
  <2>1. /\ UNCHANGED <<owner, amount, balance, row, webhookPc, event, payout, withdrawPc>>
        /\ dirty \subseteq dirty'
    BY <1>5 DEF CreateIntent, IntentFails, Pay, CancelCheck, Fault, webhook,
                withdrawing
  <2> QED BY <1>1, <1>2, <1>3, <2>1
<1>6. ASSUME NEW d \in Deposit, CancelWrite(d) PROVE Booked'
  <2>1. /\ UNCHANGED <<owner, amount, balance, webhookPc, event, payout, withdrawPc>>
        /\ dirty' = dirty \cup {owner[d]}
        /\ \A e \in Deposit : e # d => row'[e] = row[e]
    BY <1>6 DEF CancelWrite, webhook, withdrawing, TypeOK
  <2>2. \A u \in User \ dirty' : Received(u)' = Received(u)
    BY <2>1 DEF Received
  <2> QED BY <1>1, <1>3, <2>1, <2>2
<1>7. ASSUME NEW h \in Delivery, NEW d \in Deposit, Deliver(h, d) PROVE Booked'
  <2>1. /\ UNCHANGED <<owner, amount, balance, row, payout, withdrawPc>>
        /\ dirty \subseteq dirty'
        /\ webhookPc[h] = "idle" /\ event[h] = NoDeposit
        /\ webhookPc' = [webhookPc EXCEPT ![h] = "mark"]
        /\ event' = [event EXCEPT ![h] = d]
    BY <1>7 DEF Deliver, depositing, withdrawing, TypeOK
  <2>2. \A e \in Deposit :
           (\A g \in Delivery : event'[g] = e => webhookPc'[g] # "credit")
           <=> (\A g \in Delivery : event[g] = e => webhookPc[g] # "credit")
    BY <2>1 DEF TypeOK
  <2>3. \A u \in User : Received(u)' = Received(u)
    BY <2>1, <2>2 DEF Received
  <2> QED BY <1>1, <1>3, <2>1, <2>3
\* The row of a clean user was not marked before, and is about to be credited.
<1>8. ASSUME NEW h \in Delivery, MarkSucceeded(h) PROVE Booked'
  <2> DEFINE d == event[h]
  <2>1. /\ UNCHANGED <<owner, amount, balance, event, payout, withdrawPc, dirty>>
        /\ row' = [row EXCEPT ![d] = "succeeded"]
        /\ webhookPc[h] = "mark" /\ webhookPc' = [webhookPc EXCEPT ![h] = "credit"]
        /\ d \in Deposit
    BY <1>0, <1>8 DEF MarkSucceeded, Mark, withdrawing
  <2>2. owner[d] \notin dirty => row[d] # "succeeded"
    BY <2>1 DEF Marked, Delivered, TypeOK
  <2>3. webhookPc'[h] = "credit" /\ event'[h] = d
    BY <2>1 DEF TypeOK
  <2>4. \A e \in Deposit : e # d =>
           /\ row'[e] = row[e]
           /\ (\A g \in Delivery : event'[g] = e => webhookPc'[g] # "credit")
              <=> (\A g \in Delivery : event[g] = e => webhookPc[g] # "credit")
    BY <2>1 DEF TypeOK
  <2> HIDE DEF d
  <2>5. \A u \in User \ dirty' : Received(u)' = Received(u)
    BY <2>1, <2>2, <2>3, <2>4 DEF Received
  <2> QED BY <1>1, <1>3, <2>1, <2>5
<1>9. ASSUME NEW h \in Delivery, MarkMissing(h) \/ Reply(h) \/ LoseReply(h)
      PROVE  Booked'
  <2>1. /\ UNCHANGED <<owner, amount, balance, row, payout, withdrawPc>>
        /\ dirty \subseteq dirty'
    BY <1>9 DEF MarkMissing, Reply, LoseReply, Fault, depositing, withdrawing
  <2>2. \A e \in Deposit :
           (\A g \in Delivery : event'[g] = e => webhookPc'[g] # "credit")
           <=> (\A g \in Delivery : event[g] = e => webhookPc[g] # "credit")
    BY <1>9 DEF MarkMissing, Reply, LoseReply, TypeOK
  <2>3. \A u \in User : Received(u)' = Received(u)
    BY <2>1, <2>2 DEF Received
  <2> QED BY <1>1, <1>3, <2>1, <2>3
<1>10. ASSUME NEW h \in Delivery, WebhookWriteFails(h) PROVE Booked'
  <2>1. /\ UNCHANGED <<owner, amount, balance, row, event, payout, withdrawPc>>
        /\ dirty' = dirty \cup {owner[event[h]]}
        /\ \A g \in Delivery : g # h => webhookPc'[g] = webhookPc[g]
    BY <1>10 DEF WebhookWriteFails, Fault, depositing, withdrawing, TypeOK
  <2>2. \A u \in User \ dirty' : Received(u)' = Received(u)
    BY <2>1 DEF Received
  <2> QED BY <1>1, <1>3, <2>1, <2>2
\* The deposit counts once its balance has been incremented.
<1>11. ASSUME NEW h \in Delivery, Credit(h) PROVE Booked'
  <2> DEFINE d == event[h]
             x == owner[d]
  <2>1. /\ UNCHANGED <<owner, amount, row, event, payout, withdrawPc, dirty>>
        /\ balance' = [balance EXCEPT ![x] = @ + amount[d]]
        /\ webhookPc[h] = "credit" /\ webhookPc' = [webhookPc EXCEPT ![h] = "reply"]
        /\ d \in Deposit
    BY <1>0, <1>11 DEF Credit, depositing, withdrawing
  <2>2. \A u \in User : PaidOut(u)' = PaidOut(u)
    BY <1>3, <2>1
  <2>3. x \in User /\ amount[d] \in Nat
    BY <2>1, RequestsAreValid DEF Request
  <2>4. \A e \in Deposit : e # d =>
           (\A g \in Delivery : event'[g] = e => webhookPc'[g] # "credit")
           <=> (\A g \in Delivery : event[g] = e => webhookPc[g] # "credit")
    BY <2>1 DEF TypeOK
  <2>5. x \notin dirty => \A g \in Delivery : event'[g] = d => webhookPc'[g] # "credit"
    BY <2>1 DEF Delivered, TypeOK
  <2>6. x \notin dirty => row[d] = "succeeded"
    BY <2>1 DEF Marked
  <2> SUFFICES ASSUME NEW u \in User, u \notin dirty PROVE Books(u)'
    BY <2>1 DEF Booked
  <2>7. Books(u)
    BY DEF Booked
  <2>8. CASE u # x
    <3>1. Received(u)' = Received(u)
      BY <2>1, <2>4, <2>8 DEF Received
    <3>2. balance'[u] = balance[u]
      BY <2>1, <2>8 DEF TypeOK
    <3> QED BY <2>1, <2>2, <2>7, <3>1, <3>2 DEF Books, Total
  <2>9. CASE u = x
    <3>1. d \notin Received(u)
      BY <2>1 DEF Received
    <3>2. Received(u)' = Received(u) \cup {d}
      BY <2>1, <2>4, <2>5, <2>6, <2>9 DEF Received
    <3>3. /\ IsFiniteSet(Units(amount, Received(u) \cup {d}))
          /\ Total(Received(u)) \in Nat
          /\ SumOver(amount, Received(u) \cup {d}) = Total(Received(u)) + amount[d]
      BY <2>3, <2>7, <3>1, SumOfOneMore DEF Books, Total
    <3>4. balance[u] \in Int /\ balance'[u] = balance[u] + amount[d]
      BY <2>1, <2>3, <2>9 DEF TypeOK
    <3>5. Total(PaidOut(u)) \in Int
      BY <2>7, FS_CardinalityType DEF Books, Total, SumOver
    <3> QED BY <2>1, <2>2, <2>3, <2>7, <3>2, <3>3, <3>4, <3>5 DEF Books, Total
  <2> QED BY <2>8, <2>9
<1>12. ASSUME NEW w \in Withdrawal,
              CheckWithdraw(w) \/ Transfer(w) \/ RecordCompleted(w) \/ RecordFailed(w)
       PROVE  Booked'
  <2>1. /\ UNCHANGED <<owner, amount, balance, row, webhookPc, event>>
        /\ dirty \subseteq dirty'
    BY <1>12 DEF CheckWithdraw, Sufficient, Transfer, RecordCompleted, RecordFailed,
                 Record, depositing, webhook
  <2>2. \A v \in Withdrawal :
           payout'[v] = "completed" \/ withdrawPc'[v] = "debited"
           <=> payout[v] = "completed" \/ withdrawPc[v] = "debited"
    BY <1>12 DEF CheckWithdraw, Sufficient, Transfer, RecordCompleted, RecordFailed,
                 Record, Ordered, TypeOK
  <2>3. \A u \in User : PaidOut(u)' = PaidOut(u)
    BY <2>1, <2>2 DEF PaidOut
  <2> QED BY <1>1, <1>2, <2>1, <2>3
<1>13. ASSUME NEW w \in Withdrawal, TransferFails(w) \/ WithdrawWriteFails(w)
       PROVE  Booked'
  <2>1. /\ UNCHANGED <<owner, amount, balance, row, webhookPc, event, payout>>
        /\ dirty' = dirty \cup {owner[w]}
        /\ \A v \in Withdrawal : v # w => withdrawPc'[v] = withdrawPc[v]
    BY <1>13 DEF TransferFails, WithdrawWriteFails, Fault, depositing, webhook,
                 TypeOK
  <2>2. \A u \in User \ dirty' : PaidOut(u)' = PaidOut(u)
    BY <2>1 DEF PaidOut
  <2> QED BY <1>1, <1>2, <2>1, <2>2
\* The withdrawal counts once its balance has been decremented.
<1>14. ASSUME NEW w \in Withdrawal, Debit(w) PROVE Booked'
  <2> DEFINE x == owner[w]
  <2>1. /\ UNCHANGED <<owner, amount, row, webhookPc, event, payout, dirty>>
        /\ balance' = [balance EXCEPT ![x] = @ - amount[w]]
        /\ withdrawPc[w] = "transferred"
        /\ withdrawPc' = [withdrawPc EXCEPT ![w] = "debited"]
    BY <1>14 DEF Debit, DebitFrom, depositing, webhook
  <2>2. \A u \in User : Received(u)' = Received(u)
    BY <1>2, <2>1
  <2>3. x \in User /\ amount[w] \in Nat
    BY RequestsAreValid DEF Request
  <2>4. payout[w] # "completed"
    BY <2>1 DEF Ordered
  <2> SUFFICES ASSUME NEW u \in User, u \notin dirty PROVE Books(u)'
    BY <2>1 DEF Booked
  <2>5. Books(u)
    BY DEF Booked
  <2>6. CASE u # x
    <3>1. PaidOut(u)' = PaidOut(u)
      BY <2>1, <2>6 DEF PaidOut, TypeOK
    <3>2. balance'[u] = balance[u]
      BY <2>1, <2>6 DEF TypeOK
    <3> QED BY <2>1, <2>2, <2>5, <3>1, <3>2 DEF Books, Total
  <2>7. CASE u = x
    <3>1. w \notin PaidOut(u)
      BY <2>1, <2>4 DEF PaidOut
    <3>2. PaidOut(u)' = PaidOut(u) \cup {w}
      BY <2>1, <2>7 DEF PaidOut, TypeOK
    <3>3. /\ IsFiniteSet(Units(amount, PaidOut(u) \cup {w}))
          /\ Total(PaidOut(u)) \in Nat
          /\ SumOver(amount, PaidOut(u) \cup {w}) = Total(PaidOut(u)) + amount[w]
      BY <2>3, <2>5, <3>1, SumOfOneMore DEF Books, Total
    <3>4. balance[u] \in Int /\ balance'[u] = balance[u] - amount[w]
      BY <2>1, <2>3, <2>7 DEF TypeOK
    <3>5. Total(Received(u)) \in Int
      BY <2>5, FS_CardinalityType DEF Books, Total, SumOver
    <3> QED BY <2>1, <2>2, <2>3, <2>5, <3>2, <3>3, <3>4, <3>5 DEF Books, Total
  <2> QED BY <2>6, <2>7
<1>15. CASE Remove
  <2>1. /\ UNCHANGED <<owner, amount, balance, webhookPc, event, withdrawPc>>
        /\ dirty \subseteq dirty'
        /\ \A d \in Deposit : owner[d] \notin dirty' => row'[d] = row[d]
        /\ \A w \in Withdrawal : owner[w] \notin dirty' => payout'[w] = payout[w]
    BY <1>15 DEF Remove, webhook, TypeOK
  <2>2. \A u \in User \ dirty' : Received(u)' = Received(u) /\ PaidOut(u)' = PaidOut(u)
    BY <2>1 DEF Received, PaidOut
  <2> QED BY <1>1, <2>1, <2>2
<1>16. CASE Crash
  <2>1. /\ UNCHANGED <<owner, amount, balance, row, payout>>
        /\ dirty \subseteq dirty'
        /\ \A h \in Delivery : event'[h] = NoDeposit
    BY <1>16 DEF Crash, Fault
  <2>2. \A h \in Delivery : webhookPc[h] = "credit" => owner[event[h]] \in dirty'
    BY <1>16 DEF Crash, Fault
  <2>3. \A w \in Withdrawal : owner[w] \notin dirty' => withdrawPc'[w] = withdrawPc[w]
    BY <1>16 DEF Crash, Fault, TypeOK
  <2>4. \A u \in User \ dirty' : Received(u)' = Received(u)
    BY <2>1, <2>2 DEF Received
  <2>5. \A u \in User \ dirty' : PaidOut(u)' = PaidOut(u)
    BY <2>1, <2>3 DEF PaidOut
  <2> QED BY <1>1, <2>1, <2>4, <2>5
<1>17. CASE UNCHANGED vars
  <2>1. UNCHANGED <<owner, amount, balance, row, webhookPc, event, payout,
                    withdrawPc, dirty>>
    BY <1>17 DEF vars, system
  <2> QED BY <1>1, <1>2, <1>3, <2>1
<1> QED BY <1>4, <1>5, <1>6, <1>7, <1>8, <1>9, <1>10, <1>11, <1>12, <1>13, <1>14,
           <1>15, <1>16, <1>17 DEF Next, DepositStep, WebhookStep, WithdrawStep

\* For a user whose requests met no fault, replay or administrator the balance
\* is the sum of the 'succeeded' deposits less that of the 'completed'
\* withdrawals, at every moment between two steps of any handlers.
THEOREM BooksAlwaysBalance == Spec => []BooksBalance
<1>1. Init => Delivered
  BY DEF Init, Delivered
<1>2. TypeOK /\ TypeOK' /\ RemovedIsDirty /\ Delivered /\ [Next]_vars => Delivered'
  BY DeliveredStep
<1>3. Init => Booked
  <2> SUFFICES ASSUME Init, NEW u \in User PROVE Books(u)
    BY DEF Booked
  <2>1. Received(u) = {} /\ PaidOut(u) = {}
    BY DEF Init, Received, PaidOut
  <2>2. balance[u] = 0
    BY DEF Init
  <2> QED BY <2>1, <2>2, SumOfNone DEF Books, Total
<1>4. TypeOK /\ TypeOK' /\ Ordered /\ Delivered /\ Delivered' /\ Paying /\ Marked
      /\ Booked /\ [Next]_vars => Booked'
  BY BookedStep
<1>5. Booked => BooksBalance
  BY DEF Booked, Books, BooksBalance
<1> QED BY <1>1, <1>2, <1>3, <1>4, <1>5, TypeCorrect, RemovedAreDirty,
           WithdrawalsOrdered, PayingInvariant, MarkedInvariant, PTL DEF Spec
=============================================================================
