------------------------------- MODULE Ledger -------------------------------
(***************************************************************************)
(* What the wallet promises of money, without requests, rows, handlers or  *)
(* webhooks: every movement of a balance stands for money that has moved   *)
(* outside, and money leaves the platform only on an authorisation that    *)
(* the balance covered when it was given.                                  *)
(*                                                                         *)
(* Two things a reader may expect are not promised, because the code does  *)
(* not keep them: a deposit may be added more than once, and a payout that *)
(* was authorised may find less in the balance by the time it is debited.  *)
(***************************************************************************)
EXTENDS Integers

CONSTANTS
    Account,     \* the accounts
    Deposit,     \* payments into an account
    Payout,      \* payments out of an account
    Minimum      \* the least amount a payout can be authorised for

VARIABLES
    owner,       \* the account of each payment
    amount,      \* the amount of each payment
    balance,     \* the balance of each account
    paid,        \* deposits the outside world has paid
    authorised,  \* payouts whose amount the balance covered
    sent,        \* payouts that have left the platform
    debited      \* payouts that were taken off a balance

vars == <<owner, amount, balance, paid, authorised, sent, debited>>

Init ==
    /\ owner \in [Deposit \cup Payout -> Account]
    /\ amount \in [Deposit \cup Payout -> Nat \ {0}]
    /\ balance = [a \in Account |-> 0]
    /\ paid = {}
    /\ authorised = {}
    /\ sent = {}
    /\ debited = {}

Pay(d) ==
    /\ d \notin paid
    /\ paid' = paid \cup {d}
    /\ UNCHANGED <<owner, amount, balance, authorised, sent, debited>>

Credit(d) ==
    /\ d \in paid
    /\ balance' = [balance EXCEPT ![owner[d]] = @ + amount[d]]
    /\ UNCHANGED <<owner, amount, paid, authorised, sent, debited>>

Authorise(w) ==
    /\ w \notin authorised
    /\ Minimum <= amount[w] /\ amount[w] <= balance[owner[w]]
    /\ authorised' = authorised \cup {w}
    /\ UNCHANGED <<owner, amount, balance, paid, sent, debited>>

Send(w) ==
    /\ w \in authorised \ sent
    /\ sent' = sent \cup {w}
    /\ UNCHANGED <<owner, amount, balance, paid, authorised, debited>>

Debit(w) ==
    /\ w \in sent \ debited
    /\ balance' = [balance EXCEPT ![owner[w]] = @ - amount[w]]
    /\ debited' = debited \cup {w}
    /\ UNCHANGED <<owner, amount, paid, authorised, sent>>

Next ==
    \/ \E d \in Deposit : Pay(d) \/ Credit(d)
    \/ \E w \in Payout : Authorise(w) \/ Send(w) \/ Debit(w)

Spec == Init /\ [][Next]_vars
=============================================================================
