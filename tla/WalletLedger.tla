---------------------------- MODULE WalletLedger ----------------------------
(***************************************************************************)
(* The wallet implements the ledger.  What happens at Stripe is the        *)
(* ledger's outside world; a withdrawal is authorised once its handler has *)
(* passed the balance check, and stays so when the process dies.           *)
(***************************************************************************)
EXTENDS Wallet

\* Deposits the customer has paid at Stripe.
PaidIn == {d \in Deposit : intent[d] = "paid"}

\* Withdrawals whose handler has passed its check.
Authorised == {w \in Withdrawal : withdrawPc[w] # "idle"}

L == INSTANCE Ledger WITH
       Account <- User, Payout <- Withdrawal, Minimum <- MinWithdraw,
       paid <- PaidIn, authorised <- Authorised, sent <- transferred

\* Whatever handlers, webhook deliveries, administrators, failed writes and
\* crashes do, each step of the wallet is a movement the ledger allows or
\* moves no money: only paid deposits are added, nothing is transferred that
\* the balance did not cover at its check, nothing is debited that was not
\* transferred, and no withdrawal is transferred or debited twice.
ImplementsLedger == L!Spec
=============================================================================
