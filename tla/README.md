# A verification project for teojunping_backend

The repository is a NestJS backend: REST controllers and a socket.io gateway in
front of services that keep their state in PostgreSQL (through Prisma), Redis
(refresh tokens, BullMQ) and at Stripe, LiveKit and Firebase.  It has one
end-to-end test, of the root route.  This directory holds TLA+ models of the
parts in which requests can disturb each other, the TLC runs that check them on
small instances, and TLAPS proofs for every size of instance.

Paths below are relative to the repository root.

## How the program runs, and what that makes hard

One Node process runs every handler.  A handler gives up the processor at each
`await`, so what lies between two awaits is atomic and everything else
interleaves: a value read before an await can be stale after it.  Most handlers
issue each statement as a transaction of its own; only a few use `$transaction`,
which runs at PostgreSQL's READ COMMITTED.  `PrismaService`
(`src/prisma/prisma.service.ts:19-36`) draws all connections from one `pg` pool
with its default of ten.  Nothing is resumed after a restart: a handler that was
between two statements has done the first and never does the second.  Stripe
delivers an event until it gets a success status, at least once.

| Component | State | Operations | What is hard | What makes it correct |
| --- | --- | --- | --- | --- |
| Wallet (`modules/payment/deposite`, `stripe`, `withdraw`) | `users.balance`, rows of `payment_transactions`, intents and transfers at Stripe | create a deposit, webhook, withdraw, connect a payout account | check-then-decrement over an await, three writes without a transaction, events delivered twice, crashes, get-or-create at Stripe | no overdraft, no deposit lost or credited twice, rows explain the balance, one payout account |
| Payment transactions (`modules/admin/payment-transaction`) | the same rows, `users.stripe_customer_id` | create an invoice, cancel, remove | check-then-insert, get-or-create, Stripe fails half-way | one pending invoice per client, rows and intents agree |
| Registration (`modules/auth/auth.service.ts:235-393`) | `users`, files | register an agent with a certificate, a client with an invoice | the invoice's failure is dropped, a file comes before its row, a number comes unchecked | rows and files agree, the announced invoice exists |
| Sessions and passwords (`auth.service.ts`, strategies) | the refresh token in Redis, `users.password`, `users.email`, the second factor | log in, refresh, revoke, change, reset or overwrite a password | one token per user, long hashes between a check and its write, both by an address that may move | an ended session stays ended, the proven password is the one replaced, a login opens its own account |
| One-time codes (`common/repository/ucode`, `auth.service.ts`) | `ucodes`, `users.email`, jobs in BullMQ | issue a code, verify, reset a password, verify and change an address | delete-then-insert, verify-then-use, writes by address while addresses move, two ways to another address that ask for no code, rows deleted under a reader | one code in force, used once, by its owner, never long after it expired, mailed where it is valid |
| Profiles (`auth.service.ts:235-514`, `common/lib/Disk`) | `users.phone_number`, `users.avatar`, files | change number and avatar | two stores written one after the other, names by the millisecond | a row's avatar is on the disk, no file is left over, a number is one account's |
| User administration and seed (`modules/admin/user`, `command/seed.command.ts`) | `plans`, `roles`, `users`, `role_users` | seed, create, change, approve, reject, remove | a long command cut off anywhere and run again beside administrators | the command can be repeated and is whole when it ends |
| Wills (`modules/application/will`) | `wills` and four child tables | create, drop-and-replace update, remove | READ COMMITTED snapshots, locks in opposite orders | children of one request, shares of 100%, removal leaves nothing |
| Specific bequests (`modules/application/specificbequests`) | `specific_bequests`, attachments, files | create, update, remove | two authors replace one list by what they once saw of it, an edit of the will deletes the beneficiaries | a bequest keeps its beneficiary and what was added |
| Help requests (`modules/application/request`) | `requests`, `feedbacks`, `users.points`, notifications | create, accept, feedback, lists | check-then-update, a second connection inside a transaction, calls nobody awaits | one volunteer, one feedback and point each, calls end |
| Appointments (`modules/application/appoinment`) | `appointments` | book, confirm, reschedule, cancel, metrics, lists | check-then-update, seven queries side by side | what is confirmed is what the agent saw and can be attended |
| Notifications (`common/repository/notification`, `modules/*/notification`) | `notification_events`, `notifications`, settings, `users.fcm_token` | store, push, drop a dead token, settings, remove | get-or-create, a token replaced while a push fails, unawaited calls | pushes reach the latest device of the right user, all are told |
| Chat (`modules/chat/conversation`, `message`) | `conversations`, `messages`, `lastReadAt`, files | open a conversation, send, read, delete | check-then-insert, a mark, a time and a commit that are not one, files inside transactions | one conversation per pair, unread messages are counted |
| Message gateway (`modules/chat/message/message.gateway.ts`) | three maps in memory, recordings on the disk | connect, disconnect, join, call, record | two sockets of one user, restarts, order across sockets, files written after the handler has ended | users are reached, recordings are whole |
| Mail (`src/mail`) | BullMQ jobs | enqueue, send | no attempts are configured | each code is mailed |
| Live streams and calls, assets, guards, configuration, metrics | see *Not modelled* | | | |

The components meet in the tables: the webhook, the invoices and the
administrators write the same rows; a will's update deletes what bequests refer
to; feedback, acceptance and chat all write through the notification
repository, which uses its own connections; a change of address moves an account
between the statements of a code that was issued to it. `AuthService.updateUser`
writes every column its request names (`auth.service.ts:501-508`): number and
avatar, but also the address, the password and the type.

## Modules

| Module | Models | Source |
| --- | --- | --- |
| `Wallet` | a user's balance from deposit to withdrawal, with cancellation and removal of rows | `deposite.service.ts`, `stripe.controller.ts`, `withdraw.service.ts`, `payment-transaction.service.ts` |
| `Ledger`, `WalletLedger` | what the wallet promises of money; the mapping from `Wallet` to it | the same |
| `Payout` | the payout account of a user, from `createConnectedAccount` to the transfer | `withdraw.service.ts`, `StripePayment.ts` |
| `Invoice` | invoices and their payment intents, created by administrators and by registration | `payment-transaction.service.ts`, `auth.service.ts` |
| `Verification` | one-time codes, from the endpoint that issues one to the one that takes it, with the mail queue | `auth.service.ts`, `ucode.repository.ts`, `user.repository.ts`, `mail.service.ts`, `mail.processor.ts` |
| `Session` | logins, refresh tokens, passwords and the addresses they go by, the second factor | `auth.service.ts`, `local.strategy.ts`, `user.repository.ts` |
| `Profile` | telephone numbers, avatars and certificates with their files, and the requests that create accounts | `auth.service.ts`, `TajulStorage.ts`, `LocalAdapter.ts` |
| `Roster` | the seed command beside administrators and owners | `seed.command.ts`, `modules/admin/user/user.service.ts`, `user.repository.ts`, `auth.service.ts` |
| `Will` | a will and its child tables at READ COMMITTED | `will.service.ts` |
| `Bequest` | specific bequests, their attachments, and the edit of the will under them | `specificbequests.service.ts` |
| `HelpRequest` | a help request on a bounded connection pool | `request.service.ts`, `notification.repository.ts` |
| `Notice` | notifications, pushes, device tokens, settings, the announcement of a request | `notification.repository.ts`, `notification.service.ts`, `request.service.ts` |
| `Appointment` | booking, changes, metrics, removal of an agent | `appoinment.service.ts`, `appoinment.controller.ts` |
| `Chat` | conversations, messages with attachments, read receipts | `conversation.service.ts`, `message.service.ts` |
| `Gateway` | presence, calls and recordings in the memory of one process | `message.gateway.ts` |
| `Listing` | the lists of appointments, requests and messages, read page by page | `appoinment.service.ts`, `request.service.ts`, `message.service.ts` |
| `Account` | `Verification`, `Session`, `Profile` and `Roster` beside one another: what an account is made of | the same |
| `Services` | `Payout`, `Appointment`, `Chat`, `Gateway`, `Notice`, `Bequest` and `Listing` beside one another | the same |
| `Sums` | sums over a set, as a number of units, used by `Wallet` and `Will` | |
| `MC...` | the model values of TLC's instances; `MCAccount` and `MCServices` choose which component of `Account` and `Services` moves | |
| `...Proofs` | the theorems about the module of that name; `MessagingProofs` and `ServicesProofs` share those about `Services` | |

Conventions shared by the modules:

* A request is a member of a constant set; what it creates (a row, an intent, a
  code, a feedback) is named after it.  In `Wallet`, `Invoice`, `Will` and
  `HelpRequest` its parameters are chosen in `Init`, and a variable `...Pc` says
  between which two awaits of the handler it is.  In the other modules a request
  is a record with a `pc` and what the handler has read so far; it chooses its
  parameters when it starts.
* A request is made once, with two exceptions: what presents a code in
  `Verification` is a slot that is free again after the answer, and a page turn
  in `Listing` is a step of one walk.
* One action is the code from one await to the next, with the early returns as
  guards.  An early return that changes nothing is a disabled action.
* Errors, lost replies and crashes are actions that count against `MaxFaults`.
* History variables come last and no guard of the system reads them. They say
  under which conditions a weak claim holds: that two requests *overlapped* or
  *crossed*, that a user's requests were *hit* by a fault, that two files
  *clash*. A property whose name ends in `Alone` is such a claim, and its
  exceptions are the ways in which the code breaks the plain one; a smaller set
  of exceptions makes TLC find a counterexample.
* A definition whose comment says `mutant` is not part of the specification.
  Each is a bug the code could have (a dropped guard, a wrong order) that breaks
  the property it was written for; they keep the properties honest.

### Wallet

Users, deposits, withdrawals and open webhook requests are sets. A deposit is
`CreateDeposit`, `CreateIntent` (or `IntentFails`), `Pay`; its event is
delivered by `Deliver` for as long as it is not `acked`. The webhook is
`MarkSucceeded` (or `MarkMissing`), `Credit`, then `Reply`: both `received:
true` and `received: false` end the deliveries because both have a success
status. A withdrawal is `CheckWithdraw`, `Transfer`, `Debit`, `RecordCompleted`;
the one catch block around the last three is `RecordFailed`.
`CancelCheck`/`CancelWrite` and `Remove` are what administrators do to the same
rows. Amounts are whole currency units; the conversion to cents is not modelled.

What holds: a balance goes negative only for users two of whose withdrawals were
between check and debit together (`NoOverdraftAlone`); `completed` rows,
transfers and debits agree (`CompletedIsSettled`, `DebitFollowsPayout`); the
rows of a user without faults add up to the balance (`BooksBalance`); an event
that Stripe stops delivering has been credited or refused (`AckedIsCredited`),
and a paid one is in the end (`PaidIsCredited`). What does not: `NeverOverdrawn`
and `FailedIsNotPaidOut`, below.

### Ledger and the refinement

`Ledger` has no handlers, rows, events or failures: deposits are paid outside
and added, payouts are authorised when the balance covers them, sent once and
debited once, after they were sent. `WalletLedger` maps `Wallet` to it: what is
paid and sent is the state at Stripe, a payout is authorised from the moment its
handler has passed the check, and the balances are those of the rows.
`ImplementsLedger` says that every step of the wallet is one booking of the
ledger or none. The ledger states what a reader might hope for and must not:
`Credit` may come twice and `Debit` may take a balance below zero, because the
code does not prevent either; the invariants of `Wallet` say when they happen.

### Payout

`createConnectedAccount` is `CheckAccount`, `CreateAccount`, `SaveAccount`, with
Stripe's answer lost (`LoseAnswer`), the save failing (`SetupFails`) or a crash
in between; `Onboard` is the user who completes the account through the link.
`CheckWithdraw` and `Transfer` are the part of `processWithdraw` that reads the
account and pays into it. A user has one account at Stripe, and is told of the
one that is saved, unless two requests crossed or a fault came before the save
(`OneAccountAlone`, `ToldAccountIsSavedAlone`); a withdrawal is paid into an
account its own user has completed (`PaidIntoOwnAccount`).

### Invoice

`createInvoice` is `ReadClient`, `CheckPending`/`RefusePending`,
`CreateCustomer`, `StoreCustomer`, `CreateRow`, `CreateIntent`, `Link`; any of
its statements can fail (`CallFails`). `Register` is the part of
`registerClient` before the call. `cancelInvoice` is `CancelCheck`,
`CancelIntent`, `CancelWrite`; a row that has no `stripe_pi_id` when it is read
is cancelled blindly. `Webhook` is what `handleWebhook` does with an invoice's
event: nothing.

Calls that do not overlap keep one pending invoice per client and one Stripe
customer (`OnePendingAlone`, `SameCustomerAlone`); a finished pending invoice
can be paid (`PendingIsPayable`) and a cancelled one cannot
(`CancelledIsClosed`), unless creation or cancellation failed, or a cancellation
came between the row and its link.

### Will

`updateWillTransaction` validates outside its transaction (`Validate`) and then
deletes table by table.  Each DELETE takes its snapshot when it starts
(`StartDelete`), waits for rows that another transaction has deleted, and skips
those that are gone when it goes on (`FinishDelete`).  The update of the row of
`wills` locks it (`LockWill`) until `Commit`.  `removeWillTransaction` locks the
will and then waits for the children, the opposite order; PostgreSQL breaks the
deadlock (`BreakDeadlock`).

A will that is not live has no children, whatever was under way
(`RemovedIsEmpty`); the lock excludes writers and removals (`WillIsLocked`);
every request ends (`RequestsEnd`).  Replacement is whole and the shares add up
only while no two updates are open together (`ReplacedWhole`, `AllocatedAlone`).

### HelpRequest

`acceptRequest` is `CheckAccept`, `BeginAccept` (it has a connection and waits
for the row), `Accept`, `NotifySeeker`. `submitFeedback` is `CheckFeedback`,
then a transaction that holds a connection: `Open`, `MarkCompleted`, `AddPoint`,
`NotifyOther`, `Commit`. `NotifyOther` needs a second connection of the same
pool, so as many transactions as the pool has connections wait for each other
until Prisma rolls one back (`Timeout`); the callback of that one goes on and
stores a notification of a feedback that does not exist (`NotifyLate`).

### Verification

`ForgotPassword`, `ResendToken`, `ResendVerificationEmail` and
`RequestEmailChange` find an account and choose a mailbox. `createToken` is
`Target` (it reads the account again), `Clear` (it deletes the older codes of
the address) and `Insert`; `Enqueue` adds the job, `Send` and `SendFails` are
the worker. A client presents a code it was mailed: `VerifyToken` goes on with
`Mark`, `Recheck` and `DeleteExpired`, `ResetPassword` with `CheckVerified`,
`WritePassword`, `DeleteToken`, `VerifyEmail` with `Validate`, `Consume`,
`SetVerified`, and `ChangeEmail` with `Validate`, `Consume`, `WriteEmail`,
`DeleteToken`. `Expire` is the clock; `IssueFails`, `UseFails` and `Crash` cut
requests off anywhere. `verifyToken` reads the row again (`Recheck`) and deletes
it in a statement of its own when it is late (`DeleteExpired`), which throws
when it is gone. `UpdateEmail` is another address without a code, which
`updateUser` writes for owners and for administrators.

`CodesAreSound` says: an address has one code in force, unless two requests were
between the deletion and the insertion together; a code resets one password
once, unless two resets passed the check together or one was cut off; the
password is its owner's, unless the address was left or the code was issued for
a change to it (the endpoints do not tell the purposes of codes apart); a code
that was marked too late goes, unless its request was cut off; a verified or
changed address was proven, unless an update without a code set it; and a code
is mailed to the address it is valid for, unless that address was being left.
`CodesGoOn` says that a code is mailed and a request answered in the end.

### Session

A login is `FindUser`, `CheckPassword`, `SignTokens`, `StoreToken`; a refresh is
`GetStored`, which compares with the token in Redis, `SignAccess`,
`FinishRefresh`; a logout (`StartLogout`, `Revoke`) deletes whatever is stored.
`changePassword` is `ReadAddress`, `ProveOld` and, after a hash that takes long,
`WriteNew`; comparison and write go by the address that was read, for whoever
has it by then. Passwords and addresses are written without proof by
administrators (`AdminUpdate`), by a reset (`ResetPassword`, whose code is
`Verification`'s matter) and by `UpdateUser`: the owner's update stores the
password as it is sent, without a hash, so that it opens nothing. `AddUser` and
`RemoveUser` are accounts that come and go.
`SessionsAreSound` says that a token that has ended opens nothing to a request
that comes afterwards, that the stored token was signed by a login of its user
and has not ended, that a change replaces the password it proved unless the
address came to another account or another write hit it between the two, that no
login passes the second factor unless it was under way when the factor was
switched on, and that a login opens the account whose password it gave unless
that account lost its address before the comparison.

### Profile

`updateUser` is `Read`, `CheckNumber`, `DeleteOld`, `PutNew`, `Write`: the old
file goes before the row names the new one. Accounts are created by
`CheckAddress`, for agents `PutCertificate`, and `CreateAccount`: the address is
looked for and has a unique index, the number has neither
(`auth.service.ts:258`, `:353`). The disk logs its errors and returns, so a
refused file is not noticed. The random part of a file's name has no room left
(`StringHelper.randomString`), so that two files of one name in one millisecond
are one file; `named` holds the names that were drawn. `ProfilesAreSound` says
that the avatar of a row is on the disk and no avatar is left over, each unless
updates overlapped, a fault hit them or names clashed; that two accounts have
one number only when two updates both found it free, or a registration came with
a number another account had or was about to write; and that certificates are
stored unless the disk refused them.

### Roster

The seed command is a long row of single steps (`RunStep`): plans, roles,
accounts, roles of accounts, each found and then written. `CutOff` ends it
anywhere; a second run may begin at any time. Beside it administrators create,
change, approve, reject and remove accounts, and owners change their
address and, through `updateUser`, their type (`Retype`).
`SeedIsSound` says that a run that ends well leaves what it should, that a run
does not fail because of what an earlier one left, and that roles follow the
types of accounts, each with the exceptions the comments name.

### Bequest

`Begin`, `PutFile`, `CreateBequest` are the creation of a bequest,
`SeeBequest`, `ReadBequest`, `PutFile`, `UpdateBequest` its change: the author
looks at the bequest, and at any later time sends a list of attachments seen
there, or no list. `RewriteWill` is what `Will`'s update does to the
beneficiaries (the foreign key sets the bequest's to null). `BequestsAreSound`
says that a bequest goes to the beneficiary it was last given unless the will
was edited since, that an attachment that was added stays until a change sends a
list without it whose author had seen it or had looked before it was added, and
that a file is the one that was uploaded.

### Appointment

`ReadAgent` and `Create` are the booking, `CheckStatus`/`CheckReschedule` and
`Write` the agent's changes, `StartReport` and `Count` the seven queries of the
metrics, `RemoveAgent` the removal of the account. `AppointmentsAreSound` says
that a confirmed appointment has a link and, unless two changes overlapped, the
time the agent saw; that no appointment outlives its agent; and that today's
and the week's confirmed appointments are among the week's when nothing was
written while they were counted. Those that wait for approval are counted
whatever their time, so they are not bounded by the weeks.

### Chat and Gateway

`Chat` opens conversations (`FindConversation`, `CreateConversation`), sends
messages with attachments (`BeginCreate`, where the insert takes its `createdAt`,
and `CreateMessage`, where it shows), deletes them (`EraseFile` before
`EraseRow`, or `EraseFails` when the transaction runs out of time) and reads
them (`MarkRead`, `Stamp`, `CommitRead`). `StatementFails` is an insert or the
update of the conversation that throws. `ChatIsSound` says that two people have
one conversation unless they opened it at the same time, that an unread message
is counted as unread unless its insert was under way at the mark or began
between the mark and the stamp, that attachments can be opened unless a deletion
died or was rolled back after the file, and that a message said to have failed
is not stored unless a statement failed, or the process died, after its row.

`Gateway` has one action per handler because none of them awaits, and one for
what outlives a handler: the stream of a recording writes on after
`handleRecordingEnd` has dropped the parts from the map (`WritePart`), and a
restart loses what it has not written. A socket keeps
the order of what it carries; sockets do not keep it among each other.
`GatewayIsSound` says that users are reached on the tab opened last, that a call
name leads to an open socket unless the user had another socket or name, and
that a recording carried by one socket to its end is whole and in order once its
stream has nothing left to write.

### Notice

`FindEvent`, `CreateEvent` and `SaveNotification` are `createNotification`;
`ReadToken`, `Send` and `RemoveToken` the push that nobody awaits. `Announce` is
`createRequest`, which awaits none of its notifications: a failure in one is an
unhandled rejection, so it is `Crash`; only awaited calls fail by themselves
(`NotifyFails`). `NoticesAreSound` covers events, tokens, devices handed on and
settings; `AllAreTold` says that a request announced to one user is announced to
every user, unless the process ended.

### Listing

Three tables with eight lists, and one client who counts and reads page by page
while rows come, go, change and move. A request or a message gets its time when
its insert starts and shows at the `Commit`, so a row can come in before one that
is already there (`late`): only then does a conversation, which is read from its
oldest message, repeat one. `ListsAreSound` says that the client
misses no row and sees none twice, and that the total is the number of rows
shown, unless the list was disturbed in one of the named ways. The list of
completed requests selects ACCEPTED rows (`request.service.ts:214`) under a
comment that says COMPLETED (`:212`); the model follows the code. A page length
of 0 does not occur: the request service replaces it by 10
(`request.service.ts:115`), and the DTOs of appointments and messages have
`@Min(1)` (`get-appointments-query.dto.ts:25`, `offset-pagination.dto.ts:14`).

The response to the list of messages does not carry its total:
`paginateResponse(data, total, page, perPage)` (`pagination.service.ts:1`) is
called with the page, the page length and the total, in this order
(`message.service.ts:248-253`, and `:221` for no messages), so the number of the
page comes where the total belongs, and `hasNextPage` is computed from the wrong
numbers. `Told` is what the client gets, and the client of the model reads
messages until a page is empty; `ListsAreSound` therefore claims no total of
messages, and a list of messages that gets shorter or longer between its total
and its page misses nothing on that account.

## Runs

| Run | Instance | Checks |
| --- | --- | --- |
| `wallet` | 1 user, 1 deposit, 2 withdrawals, 2 deliveries, amounts 1-3, 2 faults | types, `NoOverdraftAlone`, `CompletedIsSettled`, `DebitFollowsPayout`, `BooksBalance`, and the refinement `ImplementsLedger` |
| `wallet_live` | 2 deposits, 2 deliveries, 2 faults, no withdrawals | `AckedIsCredited`, `PaidIsCredited` under fairness |
| `wallet_overdraft` | 2 withdrawals of 2 | `NeverOverdrawn` is violated |
| `wallet_failed_paid` | as above, 1 fault | `FailedIsNotPaidOut` is violated |
| `invoice` | 2 clients, 2 calls, 2 faults | types and the four invariants of `Invoice` |
| `invoice_paid` | 1 client, 2 calls, no faults | `PaidIsRecorded` is violated under fairness |
| `will` | 2 updates, 2 removals, 2 child tables | types, the invariants of `Will`, `RequestsEnd` under fairness |
| `will_shares` | 2 updates, no removal | `FullyAllocated` is violated |
| `help_request` | 3 people, 2 accept and 2 feedback calls, 2 connections, 1 fault | types, the invariants of `HelpRequest`, `CallsEnd` under fairness |
| `help_request_accept` | 2 accept calls, 1 feedback call, no faults | `OnlyPendingAccepted` is violated |
| `account` | seven parts: codes (2 accounts, 3 addresses, 2 issuing requests, 1 slot, 1 fault); the same with addresses updated without a code, 1 issuing request; sessions (1 account, 2 logins, 1 refresh, 1 logout, 1 write of a password); passwords (2 accounts, 2 addresses, 2 writes, or 1 beside a login up to its comparison); profiles (1 account, 2 updates, 2 registrations, 1 number, 2 names, 1 fault); two runs of the seed beside owners, with 2 rows; one run beside owners and an administrator, with 3 rows | `AccountTypeOK`, `CodesAreSound`, `SessionsAreSound`, `ProfilesAreSound`, `SeedIsSound` |
| `services` | sixteen parts: two for appointments, three for chat, one for the gateway, three for notifications, two for bequests, one for payouts, three for lists, one for codes (1 issuing request, 2 slots) | `ServicesTypeOK`, one `...AreSound`/`...IsSound` per component, `AllAreTold` and `CodesGoOn` under fairness |

`account` and `services` are sums, not products: the initial state chooses the
part that moves and every other component stands still, so that they cost as
much as their parts one after the other. The components in them share no
variable. That is a choice of the models, not a fact of the code: `updateUser`
writes columns of four of them, a reset those of two, the edit of a will takes
the beneficiaries from bequests, a login stores a device token. Each component
therefore has, as actions that may come at any time, the writes of others to its
own columns (`UpdateEmail` in `Verification`; `UpdateUser`, `AdminUpdate`,
`ResetPassword` in `Session`; `Write` in `Profile`; `ChangeEmail`, `Retype` in
`Roster`; `RewriteWill` in `Bequest`; `RemoveAgent` in `Appointment`). What a
component claims holds for any timing of those writes; what is lost are claims
about two components at once, and there is none. A property named `...AreSound`
or `...IsSound` is the conjunction of the named properties of its component,
each stated and commented at the end of the component's module, and each with a
mutant of its own. `Account` and `Services` compose the components for any
constants: a step of the whole is a step of one component, and the others stand
still. `AccountTypeOK`, `ServicesTypeOK` and the `...AreSound` are defined
there, so that the runs check and the theorems prove the same formulas;
`Account` extends `Verification` and `Services` extends `Payout`, whose
properties keep their names.

The violated runs state what a comment or a message of the code says:

* `withdraw.service.ts:123` "Check if withdraw amount exceeds available
  balance": two withdrawals check the same balance and both debit it.
* `withdraw.service.ts:189` "Failed to process withdraw. Please try again
  later.": recorded for a withdrawal that Stripe has paid out.
* `payment-transaction.service.ts:267` "Handle successful payment (called from
  webhook)": nothing calls it, a paid invoice stays pending.
* `will.service.ts:175` "Estate allocation shares must equal exactly 100%": two
  updates leave the beneficiaries of both.
* `request.service.ts:586` "Only PENDING can be accepted": the update names the
  row by id alone.

Bounds. Two requests of a kind suffice for each hazard: each is a race of two,
and a third adds only more of the same. Two deliveries are one event delivered
again while the first is being handled. Two faults are a failed write followed
by a crash. Amounts 1 to 3 are below the minimum, at it, and above, and let two
withdrawals fit a deposit together or not. Two tables are one with shares and
one without, and make an update's deletes interleave. Two connections with two
transactions are a pool exhausted. The theorems say that the safety properties
do not depend on these numbers. In `account` and `services`: two accounts with
three addresses let an address be left and taken; one fault at any step is a
crash or a failure at every place, and the second fault of the wallet has no
counterpart where nothing is tried again. A component with several parts has one
per case that two or three requests can meet, because all of its requests
together exceed what the others need: for instance two people opening one
conversation, two readings of it, and two attachments of one name. Lists have
two or three rows with pages of one row, so that a row can move from one page to
another while the client turns it. What is interchangeable (requests that issue
codes, logins, two accounts with their addresses) is so by symmetry or, where a
constant is shared between components, by being used in an order
(`InOrder`, `ProfilesMove`).

No run checks for deadlock: every request is made once (a free slot may stay
free), and a system that has served them all stops. The liveness properties say
that none stops half-way.

Fairness. A handler that has started goes on, since Node runs every resolved
continuation: weak fairness on the steps of a handler (`WebhookStep`,
`WithdrawStep`, `CallStep`, `UpdateStep`, `AcceptStep`, `IssueStep`, `UseStep`,
`Progress`, ...). BullMQ's worker takes what waits: weak fairness on `Send`.
Stripe keeps delivering: weak fairness on `Deliver` and `Webhook`. PostgreSQL
breaks deadlocks and Prisma times transactions out: weak fairness on
`BreakDeadlock` and `Timeout`. Nothing is assumed of clients, administrators,
failures or crashes.

## Proofs

Every safety property of a passing run (its invariants, the action properties
and the refinement) is a theorem, for every value of the constants. The proofs
rest on the named assumptions of the modules and on nothing else; TLC evaluates
these on every run. Each says what the code's own data has: amounts are
positive; child tables are distinct and there is one; a request is of one kind;
accounts register with different addresses; ids, names and `Nobody` are apart
(`AccountAssumption`, `ServicesAssumption`); a client has one agent or none; a
page has at least one row (see `Listing`); the lists of the seed command are
not empty, name no account twice, and have the agent before its clients
(`SeedAssumption`).
Components that are parts of `Account` or `Services` are proved by themselves;
the lemma `PartsBehave` of each composition then says that a behaviour of the
whole is a behaviour of every part.

The lemmas `...ByOthers` say that an invariant survives a step that leaves its
variables alone; the lemmas `...Step`, `...Keeps` and `...Keep` go through the
actions.

* `WalletProofs`. `NoOverdraftAlone` is not inductive: the debit does not look
  at the balance. The invariant `Covered` adds that for a user without overlap
  at most one withdrawal is between check and debit, and that the balance covers
  it. `Ordered` (what each progress value says of transfer, debit and row) gives
  `CompletedIsSettled` and `DebitFollowsPayout`; `Delivered` (what each webhook
  request has done for its event) gives `AckedIsCredited`.
  `WalletImplementsLedger` is the refinement: `Paying` (an intent is paid before
  a webhook request works for it) is the invariant it needs besides, and every
  step that moves no money leaves the ledger alone (`OthersStutter`).
  `BooksAlwaysBalance` needs `Marked`, that the row of a clean user says
  `succeeded` exactly from the mark to the end, so that the step that credits is
  the one that brings the row into the sum. The provers have no induction over
  folds; `Sums` counts units instead, so that one row more is one disjoint set
  more (`SumOfOneMore`), and `MCWallet` has TLC compare it with the fold of the
  community modules.
* `InvoiceProofs`. `Alone` (of calls that do not overlap at most one is open,
  and once past its check it finds no pending row) gives `OnePendingAlone` and
  `SameCustomerAlone`; `Settled` ties row, link and intent to the progress of
  creation and cancellation.
* `WillProofs`. `WillIsLocked` is inductive. `Emptied` adds that a writing
  update has a live will. `Replacing` adds what a lone update has deleted so
  far, table by table, and needs that the tables are distinct. `Validated` (who
  has begun, and who wrote last, passed the check of the shares) together with
  `ReplacedWhole` gives `AllocatedAlone`: what is left in the table is of one
  request (`SharesOfOne`).
* `HelpRequestProofs`.  `Coordinated` (an accept call nobody overlapped is alone
  and the status is still PENDING) gives `OneVolunteerAlone` and
  `CompletedByFeedback`; `Single` gives `OneFeedbackAlone`; `Counted` gives
  `PointPerFeedback`, with the library's facts on cardinalities.
* `VerificationProofs`. `CodesAreSound`, one invariant for each of its parts.
  `Started` and `Rows` say what a request and a row have at each step, `Asked`
  that a request past its look-up works on a row of the address it was given.
  `Single` adds to one code in force that no code is in force while a request is
  between deletion and insertion. `Owners` says that addresses stay unique and
  that mailbox and target were held by the account; with it a reset by address
  hits the owner (`Rightly`). `Once` counts requests between the check and
  `DeleteToken`; `Dropped` follows a late code from its mark to its deletion,
  and `Proofs` an address from the code that proves it to the write, past
  updates that come without one. The lemmas before them say what any step can do
  to one row, request or slot (`CodeFrame`, `IssueOf`, `UseSteps`, `Ends`).
* `AccountProofs`, sessions. The stored token and the histories of ended tokens
  strengthen each other (`TokenInv`). Addresses are unique, and of the changes
  that write to the address an account has, one is open and its proof still
  holds, unless the account came to the address or was written meanwhile
  (`OneWriting`); writes of other kinds are one lemma (`WriteKeepsOne`), since
  all are a `Rewrite`. A login before its comparison is at the address of its
  account unless the two have parted (`LoginsAtHome`). The flag of the second
  factor is followed from the look-up to the answer.
* `AccountProofs`, profiles. Between deleting the old file and writing the row
  an update's user has an avatar that is gone. `UpdatesFit` and
  `UpdatesAlternate` say what an update holds and that the row is still as it
  read it; `FilesTrace` that every name a row has was drawn by an update of its
  user; `FilesChange` what the disk has on the way; `NumbersFree` that a number
  found free stays so until it is written, unless two asked for it or a
  registration, which does not ask, brought it; `CertificatesFit` is the same
  for registrations.
* `AccountProofs`, the first accounts. `RosterInv` has nine parts. `RosterTyped`,
  `RowsFit`, `ListsFit` and `RunsFit` are what the others rest on: addresses are
  unique, a run's place in its lists tells what it has written, and runs beside
  one another know of each other. `TypesFollow`, `AtHome` and `AgentFits` say
  what the accounts a run has read or written still are; `StaysWritten` and
  `StaysMapped` that what it wrote is there when it ends, unless somebody
  changed it meanwhile. The actions are first reduced to a few shapes (`Quiet`,
  `Writes`, `Reads`, `Maps` for a run; `RowMoves`, `RowsStand` for
  administrators and owners), because nine invariants against some twenty
  actions one by one would hide the argument.
* `MessagingProofs`, chat. `OpeningsFit` (of requests that found no conversation
  of a pair one is open), `MessagesFit` (a row is what its request wrote, in a
  conversation that was there), `ReadsFit` (what is inserted between the mark
  and the stamp, or was being inserted at the mark, slipped through) and
  `AttachmentsFit`.
* `MessagingProofs`, gateway. A recording carried by one socket that nothing
  tore is `Arriving` (the parts in memory are the first, the others under way in
  order, the end behind them) or `Arrived` (the first are on the disk, the others
  wait in order for the stream); presence needs only that what rings
  has joined.
* `MessagingProofs`, notifications. An event is alone unless two calls missed it
  together (`MissingAlone`); a user's token is the device they hold
  (`TokenIsOwn`), and a push under way has the latest one of its receiver, or a
  dead one (`PushKnows`), each unless devices were handed on or logins raced.
* `ServicesProofs`, payout accounts. One invariant ties the saved account, the
  account at Stripe and the progress of the requests of each user that no
  crossing and no fault has hit (`OneAtWork`, `SavedIsOwn`, `GoesToOwn`).
* `ServicesProofs`, appointments. `SeenIsCurrent` (what a change has checked is
  what the row says, unless two overlapped) and `CountedAsIs` (the numbers a
  report has so far are those of the rows, if none was written meanwhile); what
  is counted for a day is among what is counted for its week (`WeekCoversDay`).
* `ServicesProofs`, bequests. `GivenInv`, `AddedInv` and `FileInv`, one for each
  of the three claims. What was added is attached, and whoever has looked at the
  bequest since has seen it there, until a list without it takes it off
  (`TakenOff`).
* `ServicesProofs`, lists. The place of a row is the number of rows before it in
  the order of its list, itself included, and a page shows the rows of its
  places (`PageIsByPlace`). `MissedIn`: what stayed in the list and was not
  shown has a place beyond the pages read, since rows that only come in can push
  it further but not back. `TwiceIn`: what was shown has a place on the pages
  read, since rows that leave can pull it back but not ahead, and rows that come
  in at the end of a conversation move nothing. `CountedIn`: as many rows were
  shown as the pages read have places. They are what the walk knows between its
  pages; the three claims are what is left of them at its end.

Only model-checked are the liveness properties (`PaidIsCredited`, `CallsEnd`,
`RequestsEnd`, `AllAreTold`, `CodesGoOn`), which the provers cannot treat, and
that the violated runs are violated.

## Not modelled

* Searches and statistics change nothing, and only the lists that are paged
  while others write are in `Listing`.
* Assets are rows of one owner written by single statements.  Live streams and
  calls are thin wrappers around LiveKit.  Guards, strategies and validation are
  stateless checks in front of the handlers; the modules start behind them.
  Bootstrap, configuration and metrics have no state of their own.
* The S3 driver and the URLs of files; mails other than those of codes, which
  are never sent; functions nothing calls (`inviteUser`, `syncRole`,
  `convertTo`, `createSuAdminUser`, `handleSuccessfulPayment`).
* Two draws of the same six digits, and guessing them.
* Currencies and floating point: `createTransfer` multiplies by 100
  (`StripePayment.ts:138`), which for 19.99 is not a whole number, and shares of
  a will are added as they are (`will.service.ts:174`). Amounts and shares are
  whole numbers here. The minimum withdrawal is 2 in the guard
  (`withdraw.service.ts:119`) and $20 in its comment and message.
* Registration drops the failure of the invoice it announces
  (`auth.service.ts:286`), and a pending deposit blocks `createInvoice`, because
  the check looks at every pending row of the user
  (`payment-transaction.service.ts:181`): deposits and invoices are on tables of
  their own here.

## Plan

1. Done: all components named above, each safety property with its theorem, and
   the refinement of `Ledger`.
2. `Wallet` and `Invoice` on one table.
3. An abstract specification of a one-time code (issued, in force, used) that
   `Verification` implements for an address no account leaves.
