------------------------------- MODULE Invoice -------------------------------
(***************************************************************************)
(* Invoices: the pending row and Stripe payment intent a client is asked   *)
(* to pay, created by an administrator or by registration, cancelled and   *)
(* removed by administrators, paid at Stripe.                              *)
(*                                                                         *)
(* A member of Invoice is one call of createInvoice and, once it has       *)
(* written it, the row of payment_transactions.  The Stripe customer and   *)
(* the payment intent a call creates are named after the call.             *)
(***************************************************************************)
EXTENDS Integers, FiniteSets

CONSTANTS
    Client,      \* people who are or become users of type CLIENT
    Invoice,     \* calls of createInvoice
    None,        \* a stripe_customer_id that is not set
    MaxFaults    \* bound on Stripe errors, failed writes and crashes

ASSUME InvoiceAssumption == None \notin Invoice /\ MaxFaults \in Nat

VARIABLES
    client,      \* the client of each call
    origin,      \* "admin": create-invoice endpoint; "register": registerClient
    exists,      \* clients with a row in users
    customer,    \* users.stripe_customer_id
    pc,          \* progress of the call
    held,        \* the call's local stripeCustomerId, later the row's
    row,         \* status of the invoice's row
    linked,      \* rows whose stripe_pi_id is set
    intent,      \* state of the payment intent at Stripe
    answer,      \* what createInvoice returned
    acked,       \* paid invoices whose event the webhook has answered
    cancelPc     \* progress of cancelInvoice on the row

VARIABLES        \* history: never read by the system's actions
    raced,       \* clients two of whose calls were between read and row at once
    loose,       \* invoices whose creation, cancellation or row went wrong
    faults       \* number of faults so far

calls   == <<client, origin, exists, customer, pc, held, answer>>
records == <<row, linked, intent>>
vars == <<calls, records, acked, cancelPc, raced, loose, faults>>

Statuses == {"none", "pending", "failed", "deleted"}

\* Between reading the user row and writing the invoice row.
Open(i) == pc[i] \in {"read", "checked", "customer", "ready"}

\* Still running: a crash kills these.
Running(i) == pc[i] \notin {"idle", "done", "dead"}

Init ==
    /\ client \in [Invoice -> Client]
    /\ origin \in [Invoice -> {"admin", "register"}]
    /\ exists \in SUBSET Client
    /\ customer = [c \in Client |-> None]
    /\ pc = [i \in Invoice |-> "idle"]
    /\ held = [i \in Invoice |-> None]
    /\ row = [i \in Invoice |-> "none"]
    /\ linked = {}
    /\ intent = [i \in Invoice |-> "none"]
    /\ answer = [i \in Invoice |-> "none"]
    /\ acked = {}
    /\ cancelPc = [i \in Invoice |-> "idle"]
    /\ raced = {}
    /\ loose = {}
    /\ faults = 0

Goto(i, from, to) == pc[i] = from /\ pc' = [pc EXCEPT ![i] = to]

Fault(is) ==
    /\ faults < MaxFaults
    /\ faults' = faults + 1
    /\ loose' = loose \cup is

-----------------------------------------------------------------------------
(* createInvoice, and registerClient which calls it.                       *)

\* registerClient: the email is free, and the user row is created.
Register(i) ==
    /\ origin[i] = "register" /\ client[i] \notin exists
    /\ Goto(i, "idle", "registered")
    /\ exists' = exists \cup {client[i]}
    /\ UNCHANGED <<client, origin, customer, held, answer, records, acked,
                   cancelPc, raced, loose, faults>>

\* The client's row is read, its stripe_customer_id with it.
ReadClient(i) ==
    LET c == client[i] IN
    /\ c \in exists
    /\ Goto(i, IF origin[i] = "admin" THEN "idle" ELSE "registered", "read")
    /\ held' = [held EXCEPT ![i] = customer[c]]
    /\ raced' = IF \E j \in Invoice : client[j] = c /\ Open(j)
                THEN raced \cup {c} ELSE raced
    /\ UNCHANGED <<client, origin, exists, customer, answer, records, acked,
                   cancelPc, loose, faults>>

HasPaid(c) == \E j \in Invoice : client[j] = c /\ row[j] = "paid"  \* mutant
HasPending(c) == \E j \in Invoice : client[j] = c /\ row[j] = "pending"

AlwaysLacks(i) == TRUE                         \* mutant: a new one each time
LacksCustomer(i) == held[i] = None

CheckPending(i) ==
    /\ ~HasPending(client[i])
    /\ Goto(i, "read", IF LacksCustomer(i) THEN "checked" ELSE "ready")
    /\ UNCHANGED <<client, origin, exists, customer, held, answer, records,
                   acked, cancelPc, raced, loose, faults>>

\* 'Client already has a pending invoice'.
RefusePending(i) ==
    /\ HasPending(client[i])
    /\ Goto(i, "read", "done")
    /\ answer' = [answer EXCEPT ![i] = "error"]
    /\ UNCHANGED <<client, origin, exists, customer, held, records, acked,
                   cancelPc, raced, loose, faults>>

CreateCustomer(i) ==
    /\ Goto(i, "checked", "customer")
    /\ held' = [held EXCEPT ![i] = i]
    /\ UNCHANGED <<client, origin, exists, customer, answer, records, acked,
                   cancelPc, raced, loose, faults>>

StoreCustomer(i) ==
    /\ Goto(i, "customer", "ready")
    /\ customer' = [customer EXCEPT ![client[i]] = held[i]]
    /\ UNCHANGED <<client, origin, exists, held, answer, records, acked,
                   cancelPc, raced, loose, faults>>

InsertRow(i, next) ==
    /\ Goto(i, "ready", next)
    /\ row' = [row EXCEPT ![i] = "pending"]
    /\ UNCHANGED <<client, origin, exists, customer, held, answer, linked,
                   intent, acked, cancelPc, raced, loose, faults>>

RowOnly(i) == InsertRow(i, "done")             \* mutant: no intent
CreateRow(i) == InsertRow(i, "rowed")

CreateIntent(i) ==
    /\ Goto(i, "rowed", "intent")
    /\ intent' = [intent EXCEPT ![i] = "open"]
    /\ UNCHANGED <<client, origin, exists, customer, held, answer, row, linked,
                   acked, cancelPc, raced, loose, faults>>

\* The row learns its stripe_pi_id, whatever its status has become; the update
\* throws if the row has gone.
Link(i) ==
    /\ Goto(i, "intent", "done")
    /\ IF row[i] = "deleted"
       THEN /\ answer' = [answer EXCEPT ![i] = "error"]
            /\ linked' = linked
       ELSE /\ answer' = [answer EXCEPT ![i] = "ok"]
            /\ linked' = linked \cup {i}
    /\ UNCHANGED <<client, origin, exists, customer, held, row, intent, acked,
                   cancelPc, raced, loose, faults>>

\* Stripe or the database throws: the catch returns success: false, and what
\* has been written stays.
CallFails(i) ==
    /\ Running(i) /\ pc[i] # "registered"
    /\ Fault({i})
    /\ pc' = [pc EXCEPT ![i] = "done"]
    /\ answer' = [answer EXCEPT ![i] = "error"]
    /\ UNCHANGED <<client, origin, exists, customer, held, records, acked,
                   cancelPc, raced>>

-----------------------------------------------------------------------------
(* Payment.  Only the caller of the create-invoice endpoint is given the    *)
(* client_secret that paying needs: registerClient drops the answer.       *)

Pay(i) ==
    /\ origin[i] = "admin" /\ answer[i] = "ok" /\ intent[i] = "open"
    /\ intent' = [intent EXCEPT ![i] = "paid"]
    /\ UNCHANGED <<calls, row, linked, acked, cancelPc, raced, loose, faults>>

\* handleWebhook: the event's metadata has neither type 'deposit' nor a userId,
\* so no row is updated and the balance update throws; the reply is
\* received: false, with a success status.
Webhook(i) ==
    /\ intent[i] = "paid" /\ i \notin acked
    /\ acked' = acked \cup {i}
    /\ UNCHANGED <<calls, records, cancelPc, raced, loose, faults>>

-----------------------------------------------------------------------------
(* cancelInvoice and remove.                                               *)

SkipStripe(i) == IF i \in linked THEN "write" ELSE "blind"  \* mutant
FirstStep(i) == IF i \in linked THEN "stripe" ELSE "blind"

\* The row is read: it is pending, and has a stripe_pi_id or not.
CancelCheck(i) ==
    /\ cancelPc[i] = "idle" /\ row[i] = "pending"
    /\ cancelPc' = [cancelPc EXCEPT ![i] = FirstStep(i)]
    /\ UNCHANGED <<calls, records, acked, raced, loose, faults>>

\* Stripe cancels an open intent and refuses a paid one.
CancelIntent(i) ==
    /\ cancelPc[i] = "stripe"
    /\ cancelPc' = [cancelPc EXCEPT ![i] = "write"]
    /\ intent' = [intent EXCEPT ![i] = IF @ = "open" THEN "canceled" ELSE @]
    /\ UNCHANGED <<calls, row, linked, acked, raced, loose, faults>>

\* "Continue even if Stripe cancel fails".
CancelIntentFails(i) ==
    /\ cancelPc[i] = "stripe"
    /\ Fault({i})
    /\ cancelPc' = [cancelPc EXCEPT ![i] = "write"]
    /\ UNCHANGED <<calls, records, acked, raced>>

Canceled == "canceled"                         \* mutant: Stripe's word for it
Cancelled == "failed"

CancelWrite(i) ==
    /\ cancelPc[i] \in {"blind", "write"}
    /\ cancelPc' = [cancelPc EXCEPT ![i] = "idle"]
    /\ row' = IF row[i] = "deleted" THEN row ELSE [row EXCEPT ![i] = Cancelled]
    /\ loose' = IF cancelPc[i] = "blind" THEN loose \cup {i} ELSE loose
    /\ UNCHANGED <<calls, linked, intent, acked, raced, faults>>

\* The row is deleted whatever its status; its intent is left as it is.
Remove(i) ==
    /\ row[i] \notin {"none", "deleted"}
    /\ row' = [row EXCEPT ![i] = "deleted"]
    /\ UNCHANGED <<calls, linked, intent, acked, cancelPc, raced, loose, faults>>

Crash ==
    /\ Fault({i \in Invoice : Running(i) \/ cancelPc[i] # "idle"})
    /\ pc' = [i \in Invoice |-> IF Running(i) THEN "dead" ELSE pc[i]]
    /\ cancelPc' = [i \in Invoice |-> "idle"]
    /\ UNCHANGED <<client, origin, exists, customer, held, answer, records,
                   acked, raced>>

-----------------------------------------------------------------------------
CallStep(i) ==
    \/ ReadClient(i) \/ CheckPending(i) \/ RefusePending(i)
    \/ CreateCustomer(i) \/ StoreCustomer(i)
    \/ CreateRow(i) \/ CreateIntent(i) \/ Link(i)

CancelStep(i) ==
    CancelCheck(i) \/ CancelIntent(i) \/ CancelIntentFails(i) \/ CancelWrite(i)

Next ==
    \/ \E i \in Invoice :
         \/ Register(i) \/ CallStep(i) \/ CallFails(i)
         \/ Pay(i) \/ Webhook(i) \/ CancelStep(i) \/ Remove(i)
    \/ Crash

Spec == Init /\ [][Next]_vars

\* Calls that have started run on, and Stripe delivers its events.
FairSpec == Spec /\ \A i \in Invoice : WF_vars(CallStep(i)) /\ WF_vars(Webhook(i))

-----------------------------------------------------------------------------
(* Properties.                                                             *)

\* The shape of the state.
TypeOK ==
    /\ client \in [Invoice -> Client]
    /\ origin \in [Invoice -> {"admin", "register"}]
    /\ exists \subseteq Client
    /\ customer \in [Client -> Invoice \cup {None}]
    /\ pc \in [Invoice -> {"idle", "registered", "read", "checked", "customer",
                           "ready", "rowed", "intent", "done", "dead"}]
    /\ held \in [Invoice -> Invoice \cup {None}]
    /\ row \in [Invoice -> Statuses]
    /\ linked \subseteq Invoice
    /\ intent \in [Invoice -> {"none", "open", "canceled", "paid"}]
    /\ answer \in [Invoice -> {"none", "ok", "error"}]
    /\ acked \subseteq Invoice
    /\ cancelPc \in [Invoice -> {"idle", "blind", "stripe", "write"}]
    /\ raced \subseteq Client
    /\ loose \subseteq Invoice
    /\ faults \in 0..MaxFaults

Pending(c) == {i \in Invoice : client[i] = c /\ row[i] = "pending"}

\* The check for a pending invoice and the later insert leave a client with at
\* most one pending invoice as long as no two calls for the client are between
\* reading it and inserting, whatever fails, crashes or is cancelled meanwhile.
OnePendingAlone ==
    \A c \in Client \ raced : \A i, j \in Pending(c) : i = j

\* Under the same condition get-or-create of the Stripe customer is sound:
\* every invoice is billed to the customer the user row names, though calls
\* that failed half-way may have created customers nobody names.
SameCustomerAlone ==
    \A i \in Invoice :
        row[i] # "none" /\ client[i] \notin raced => held[i] = customer[client[i]]

\* A pending invoice whose creation has ended can be found at Stripe and still
\* be paid, or has been: the creation had no failure, and no cancellation is
\* about to write or has been cut short.
PendingIsPayable ==
    \A i \in Invoice \ loose :
        row[i] = "pending" /\ pc[i] = "done" /\ cancelPc[i] # "write" =>
            i \in linked /\ intent[i] \in {"open", "paid"}

\* A cancelled invoice cannot be paid any more, unless Stripe refused to cancel
\* the intent or the cancellation read the row before the intent was linked.
CancelledIsClosed ==
    \A i \in Invoice \ loose : row[i] = "failed" => intent[i] \in {"canceled", "paid"}

-----------------------------------------------------------------------------
(* Claims of the repository that the code does not keep.                   *)

\* payment-transaction.service.ts:267 "Handle successful payment (called from
\* webhook)": an invoice that is paid at Stripe gets status 'paid', unless an
\* administrator has cancelled or removed it.
PaidIsRecorded ==
    \A i \in Invoice :
        intent[i] = "paid" ~> row[i] \in {"paid", "failed", "deleted"}
=============================================================================
