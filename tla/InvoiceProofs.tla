---------------------------- MODULE InvoiceProofs ----------------------------
(***************************************************************************)
(* Proofs about Invoice, for any clients, any number of createInvoice      *)
(* calls and any number of faults.                                         *)
(***************************************************************************)
EXTENDS Invoice, TLAPS

USE InvoiceAssumption

\* The state keeps its shape.
THEOREM TypeCorrect == Spec => []TypeOK
<1>1. Init => TypeOK
  BY DEF Init, TypeOK, Statuses
<1>2. TypeOK /\ [Next]_vars => TypeOK'
  <2> SUFFICES ASSUME TypeOK, [Next]_vars PROVE TypeOK'
    OBVIOUS
  <2> USE DEF TypeOK, Statuses, calls, records
  <2>1. ASSUME NEW i \in Invoice, Register(i) \/ ReadClient(i) PROVE TypeOK'
    BY <2>1 DEF Register, ReadClient, Goto
  <2>2. ASSUME NEW i \in Invoice, CheckPending(i) \/ RefusePending(i) PROVE TypeOK'
    BY <2>2 DEF CheckPending, LacksCustomer, RefusePending, Goto
  <2>3. ASSUME NEW i \in Invoice, CreateCustomer(i) \/ StoreCustomer(i) PROVE TypeOK'
    BY <2>3 DEF CreateCustomer, StoreCustomer, Goto
  <2>4. ASSUME NEW i \in Invoice, CreateRow(i) \/ CreateIntent(i) PROVE TypeOK'
    BY <2>4 DEF CreateRow, InsertRow, CreateIntent, Goto
  <2>5. ASSUME NEW i \in Invoice, Link(i) \/ CallFails(i) PROVE TypeOK'
    BY <2>5 DEF Link, CallFails, Goto, Fault
  <2>6. ASSUME NEW i \in Invoice, Pay(i) \/ Webhook(i) \/ Remove(i) PROVE TypeOK'
    BY <2>6 DEF Pay, Webhook, Remove
  <2>7. ASSUME NEW i \in Invoice, CancelStep(i) PROVE TypeOK'
    <3>1. CASE CancelCheck(i) BY <3>1 DEF CancelCheck, FirstStep
    <3>2. CASE CancelIntent(i) BY <3>2 DEF CancelIntent
    <3>3. CASE CancelIntentFails(i) BY <3>3 DEF CancelIntentFails, Fault
    <3>4. CASE CancelWrite(i) BY <3>4 DEF CancelWrite, Cancelled
    <3> QED BY <2>7, <3>1, <3>2, <3>3, <3>4 DEF CancelStep
  <2>8. CASE Crash
    BY <2>8 DEF Crash, Fault
  <2>9. CASE UNCHANGED vars
    BY <2>9 DEF vars
  <2> QED BY <2>1, <2>2, <2>3, <2>4, <2>5, <2>6, <2>7, <2>8, <2>9
          DEF Next, CallStep
<1> QED BY <1>1, <1>2, PTL DEF Spec

-----------------------------------------------------------------------------
(* Check-then-insert and get-or-create are sound for calls that run alone. *)

\* A row exists exactly from the call's insert on, and only an existing row is
\* ever cancelled.
RowsFollowCalls ==
    \A i \in Invoice :
        /\ pc[i] \in {"idle", "registered"} \/ Open(i) => row[i] = "none"
        /\ cancelPc[i] # "idle" => row[i] # "none"

\* Of the calls for a client whose calls never overlapped: at most one is open;
\* once it has passed its check the client has no pending invoice; and what it
\* holds as Stripe customer agrees with the user row.
AloneAt(c) ==
    /\ \A i, j \in Invoice :
         client[i] = c /\ client[j] = c /\ Open(i) /\ Open(j) => i = j
    /\ \A i, j \in Invoice :
         client[i] = c /\ client[j] = c
           /\ pc[i] \in {"checked", "customer", "ready"} => row[j] # "pending"
    /\ \A i, j \in Invoice :
         client[i] = c /\ client[j] = c
           /\ row[i] = "pending" /\ row[j] = "pending" => i = j
    /\ \A i \in Invoice : client[i] = c =>
         /\ pc[i] = "read" => held[i] = customer[c]
         /\ pc[i] \in {"checked", "customer"} => customer[c] = None
         /\ pc[i] = "ready" \/ row[i] # "none" =>
              held[i] = customer[c] /\ customer[c] # None
         /\ pc[i] = "customer" => held[i] # None

Alone == RowsFollowCalls /\ \A c \in Client \ raced : AloneAt(c)

LEMMA AloneStep ==
    ASSUME TypeOK, Alone, [Next]_vars
    PROVE  Alone'
<1> USE DEF calls, records
<1>1. ASSUME NEW i \in Invoice, Register(i)
      PROVE  Alone'
  BY <1>1 DEF Register, Goto, Alone, AloneAt, RowsFollowCalls, Open, TypeOK
<1>2. ASSUME NEW i \in Invoice, ReadClient(i)
      PROVE  Alone'
  BY <1>2 DEF ReadClient, Goto, Alone, AloneAt, RowsFollowCalls, Open, TypeOK
<1>3. ASSUME NEW i \in Invoice, CheckPending(i)
      PROVE  Alone'
  BY <1>3 DEF CheckPending, LacksCustomer, HasPending, Goto, Alone, AloneAt, RowsFollowCalls,
              Open, TypeOK
<1>4. ASSUME NEW i \in Invoice, RefusePending(i)
      PROVE  Alone'
  BY <1>4 DEF RefusePending, Goto, Alone, AloneAt, RowsFollowCalls, Open, TypeOK
<1>5. ASSUME NEW i \in Invoice, CreateCustomer(i)
      PROVE  Alone'
  BY <1>5 DEF CreateCustomer, Goto, Alone, AloneAt, RowsFollowCalls, Open, TypeOK
<1>6. ASSUME NEW i \in Invoice, StoreCustomer(i)
      PROVE  Alone'
  BY <1>6 DEF StoreCustomer, Goto, Alone, AloneAt, RowsFollowCalls, Open, TypeOK
<1>7. ASSUME NEW i \in Invoice, CreateRow(i)
      PROVE  Alone'
  BY <1>7 DEF CreateRow, InsertRow, Goto, Alone, AloneAt, RowsFollowCalls, Open, TypeOK
<1>8. ASSUME NEW i \in Invoice, CreateIntent(i) \/ Link(i)
      PROVE  Alone'
  BY <1>8 DEF CreateIntent, Link, Goto, Alone, AloneAt, RowsFollowCalls, Open, TypeOK
<1>9. ASSUME NEW i \in Invoice, CallFails(i)
      PROVE  Alone'
  BY <1>9 DEF CallFails, Running, Alone, AloneAt, RowsFollowCalls, Open, TypeOK
<1>10. ASSUME NEW i \in Invoice, Pay(i) \/ Webhook(i)
      PROVE  Alone'
  BY <1>10 DEF Pay, Webhook, Alone, AloneAt, RowsFollowCalls, Open
<1>11. ASSUME NEW i \in Invoice, CancelStep(i)
      PROVE  Alone'
  <2>1. CASE CancelCheck(i)
    BY <2>1 DEF CancelCheck, FirstStep, Alone, AloneAt, RowsFollowCalls, Open, TypeOK
  <2>2. CASE CancelIntent(i) \/ CancelIntentFails(i)
    BY <2>2 DEF CancelIntent, CancelIntentFails, Alone, AloneAt, RowsFollowCalls,
                Open, TypeOK
  <2>3. CASE CancelWrite(i)
    BY <2>3 DEF CancelWrite, Cancelled, Alone, AloneAt, RowsFollowCalls, Open, TypeOK
  <2> QED BY <1>11, <2>1, <2>2, <2>3 DEF CancelStep
<1>12. ASSUME NEW i \in Invoice, Remove(i)
      PROVE  Alone'
  BY <1>12 DEF Remove, Alone, AloneAt, RowsFollowCalls, Open, TypeOK
<1>13. CASE Crash
  BY <1>13 DEF Crash, Running, Alone, AloneAt, RowsFollowCalls, Open, TypeOK
<1>14. CASE UNCHANGED vars
  BY <1>14 DEF vars, Alone, AloneAt, RowsFollowCalls, Open
<1> QED BY <1>1, <1>2, <1>3, <1>4, <1>5, <1>6, <1>7, <1>8, <1>9, <1>10, <1>11,
           <1>12, <1>13, <1>14 DEF Next, CallStep

LEMMA CallsRunAlone == Spec => []Alone
<1>1. Init => Alone
  BY DEF Init, Alone, AloneAt, RowsFollowCalls, Open
<1>2. TypeOK /\ Alone /\ [Next]_vars => Alone'
  BY AloneStep
<1> QED BY <1>1, <1>2, TypeCorrect, PTL DEF Spec

\* A client whose calls never overlapped has at most one pending invoice.
THEOREM AloneHasOnePending == Spec => []OnePendingAlone
<1>1. Alone => OnePendingAlone
  BY DEF Alone, AloneAt, OnePendingAlone, Pending
<1> QED BY <1>1, CallsRunAlone, PTL

\* Every invoice of such a client is billed to the Stripe customer of the user.
THEOREM AloneHasOneCustomer == Spec => []SameCustomerAlone
<1>1. TypeOK /\ Alone => SameCustomerAlone
  BY DEF Alone, AloneAt, SameCustomerAlone, TypeOK
<1> QED BY <1>1, CallsRunAlone, TypeCorrect, PTL

-----------------------------------------------------------------------------
(* The row, the intent and the cancellation of one invoice agree.          *)

\* What is known of an invoice nothing has gone wrong with, by the progress of
\* its creation and of its cancellation.
Settled ==
    \A i \in Invoice \ loose :
        /\ pc[i] # "dead"
        /\ pc[i] \notin {"rowed", "intent", "done"} =>
             row[i] = "none" /\ intent[i] = "none" /\ cancelPc[i] = "idle"
        /\ pc[i] = "rowed" => row[i] # "none" /\ intent[i] = "none"
        /\ pc[i] = "intent" => row[i] # "none" /\ intent[i] = "open"
        /\ i \in linked <=> pc[i] = "done" /\ answer[i] = "ok"
        /\ answer[i] = "ok" => pc[i] = "done" /\ row[i] # "none"
        /\ pc[i] = "done" /\ i \notin linked => row[i] \in {"none", "deleted"}
        /\ i \in linked => intent[i] # "none"
        /\ row[i] = "none" => cancelPc[i] = "idle"
        /\ cancelPc[i] \in {"stripe", "write"} => i \in linked
        /\ row[i] = "failed" \/ cancelPc[i] = "write" => intent[i] \in {"canceled", "paid"}
        /\ intent[i] = "canceled" => row[i] \in {"failed", "deleted"} \/ cancelPc[i] = "write"

LEMMA SettledStep ==
    ASSUME TypeOK, Settled, [Next]_vars
    PROVE  Settled'
<1> USE DEF calls, records, Statuses
<1>1. ASSUME NEW i \in Invoice, Register(i)
      PROVE  Settled'
  BY <1>1 DEF Register, Goto, Settled, TypeOK
<1>2. ASSUME NEW i \in Invoice, ReadClient(i)
      PROVE  Settled'
  BY <1>2 DEF ReadClient, Goto, Settled, TypeOK
<1>3. ASSUME NEW i \in Invoice, CheckPending(i)
      PROVE  Settled'
  BY <1>3 DEF CheckPending, LacksCustomer, Goto, Settled, TypeOK
<1>4. ASSUME NEW i \in Invoice, RefusePending(i)
      PROVE  Settled'
  BY <1>4 DEF RefusePending, Goto, Settled, TypeOK
<1>5. ASSUME NEW i \in Invoice, CreateCustomer(i)
      PROVE  Settled'
  BY <1>5 DEF CreateCustomer, Goto, Settled, TypeOK
<1>6. ASSUME NEW i \in Invoice, StoreCustomer(i)
      PROVE  Settled'
  BY <1>6 DEF StoreCustomer, Goto, Settled, TypeOK
<1>7. ASSUME NEW i \in Invoice, CreateRow(i)
      PROVE  Settled'
  BY <1>7 DEF CreateRow, InsertRow, Goto, Settled, TypeOK
<1>8. ASSUME NEW i \in Invoice, CreateIntent(i)
      PROVE  Settled'
  BY <1>8 DEF CreateIntent, Goto, Settled, TypeOK
<1>9. ASSUME NEW i \in Invoice, Link(i)
      PROVE  Settled'
  BY <1>9 DEF Link, Goto, Settled, TypeOK
<1>10. ASSUME NEW i \in Invoice, CallFails(i)
      PROVE  Settled'
  BY <1>10 DEF CallFails, Running, Fault, Settled, TypeOK
<1>11. ASSUME NEW i \in Invoice, Pay(i)
      PROVE  Settled'
  BY <1>11 DEF Pay, Settled, TypeOK
<1>12. ASSUME NEW i \in Invoice, Webhook(i)
      PROVE  Settled'
  BY <1>12 DEF Webhook, Settled, TypeOK
<1>13. ASSUME NEW i \in Invoice, CancelCheck(i)
      PROVE  Settled'
  BY <1>13 DEF CancelCheck, FirstStep, Settled, TypeOK
<1>14. ASSUME NEW i \in Invoice, CancelIntent(i)
      PROVE  Settled'
  BY <1>14 DEF CancelIntent, Settled, TypeOK
<1>15. ASSUME NEW i \in Invoice, CancelIntentFails(i)
      PROVE  Settled'
  BY <1>15 DEF CancelIntentFails, Fault, Settled, TypeOK
<1>16. ASSUME NEW i \in Invoice, CancelWrite(i)
      PROVE  Settled'
  BY <1>16 DEF CancelWrite, Cancelled, Settled, TypeOK
<1>17. ASSUME NEW i \in Invoice, Remove(i)
      PROVE  Settled'
  BY <1>17 DEF Remove, Settled, TypeOK
<1>18. CASE Crash
  BY <1>18 DEF Crash, Running, Fault, Settled, TypeOK
<1>19. CASE UNCHANGED vars
  BY <1>19 DEF vars, Settled
<1> QED BY <1>1, <1>2, <1>3, <1>4, <1>5, <1>6, <1>7, <1>8, <1>9, <1>10,
           <1>11, <1>12, <1>13, <1>14, <1>15, <1>16, <1>17, <1>18, <1>19
        DEF Next, CallStep, CancelStep

LEMMA InvoicesSettle == Spec => []Settled
<1>1. Init => Settled
  BY DEF Init, Settled
<1>2. TypeOK /\ Settled /\ [Next]_vars => Settled'
  BY SettledStep
<1> QED BY <1>1, <1>2, TypeCorrect, PTL DEF Spec

\* A pending invoice nothing has gone wrong with is payable at Stripe or paid.
THEOREM PendingArePayable == Spec => []PendingIsPayable
<1>1. TypeOK /\ Settled => PendingIsPayable
  BY DEF Settled, PendingIsPayable, TypeOK
<1> QED BY <1>1, InvoicesSettle, TypeCorrect, PTL

\* A cancelled invoice nothing has gone wrong with has no open intent.
THEOREM CancelledAreClosed == Spec => []CancelledIsClosed
<1>1. Settled => CancelledIsClosed
  BY DEF Settled, CancelledIsClosed
<1> QED BY <1>1, InvoicesSettle, PTL
=============================================================================
