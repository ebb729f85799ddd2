------------------------------- MODULE Payout -------------------------------
(***************************************************************************)
(* The account at Stripe a user's withdrawals are transferred to: how      *)
(* WithdrawService creates it, hands out the link to complete it, and      *)
(* finds it again when a withdrawal is made.  The money is in Wallet; here *)
(* a withdrawal is only the account it goes to.                            *)
(***************************************************************************)
EXTENDS Naturals

CONSTANTS
    User,        \* users
    Setup,       \* requests for an account; each is the account it creates
    Withdrawal,  \* withdrawals that have passed the checks of the balance
    Nobody,      \* no user, no account
    MaxFaults    \* bound on failures of Stripe, the database or the process

VARIABLES
    connect,     \* users.stripe_connect_id
    setup,       \* progress of createConnectedAccount
    account,     \* external: state of each account at Stripe, and whose it is
    withdrawal   \* progress of processWithdraw and the account it read

VARIABLES        \* history: never read by the system's actions
    crossed,     \* users two of whose requests found no account together
    faults, hit  \* number of faults; users a fault hit

vars == <<connect, setup, account, withdrawal, crossed, faults, hit>>

NoAccount == [state |-> "none", user |-> Nobody]

Init ==
    /\ connect = [u \in User |-> Nobody]
    /\ setup = [r \in Setup |-> [pc |-> "idle", user |-> Nobody]]
    /\ account = [r \in Setup |-> NoAccount]
    /\ withdrawal = [w \in Withdrawal |-> [pc |-> "idle", user |-> Nobody, to |-> Nobody]]
    /\ crossed = {} /\ hit = {}
    /\ faults = 0

Fault(us) ==
    /\ faults < MaxFaults
    /\ faults' = faults + 1
    /\ hit' = hit \cup us

-----------------------------------------------------------------------------
(* createConnectedAccount.                                                 *)

NoCheck(u) == TRUE                        \* mutant: an account may be there already
MayConnect(u) == connect[u] = Nobody

CheckAccount(r, u) ==
    /\ setup[r].pc = "idle"
    /\ MayConnect(u)
    /\ setup' = [setup EXCEPT ![r] = [pc |-> "checked", user |-> u]]
    /\ crossed' = IF \E s \in Setup : setup[s].user = u /\ setup[s].pc \in {"checked", "created"}
                  THEN crossed \cup {u} ELSE crossed
    /\ UNCHANGED <<connect, account, withdrawal, faults, hit>>

CreateAccount(r) ==
    /\ setup[r].pc = "checked"
    /\ setup' = [setup EXCEPT ![r].pc = "created"]
    /\ account' = [account EXCEPT ![r] = [state |-> "created", user |-> setup[r].user]]
    /\ UNCHANGED <<connect, withdrawal, crossed, faults, hit>>

\* Stripe has created the account and the answer is lost.
LoseAnswer(r) ==
    /\ setup[r].pc = "checked"
    /\ Fault({setup[r].user})
    /\ setup' = [setup EXCEPT ![r].pc = "failed"]
    /\ account' = [account EXCEPT ![r] = [state |-> "created", user |-> setup[r].user]]
    /\ UNCHANGED <<connect, withdrawal, crossed>>

AnswerOnly(r) ==                          \* mutant: the id is answered and not saved
    /\ setup[r].pc = "created"
    /\ setup' = [setup EXCEPT ![r].pc = "done"]
    /\ UNCHANGED <<connect, account, withdrawal, crossed, faults, hit>>

SaveUserId(r) ==                          \* mutant: the user's own id is saved
    /\ setup[r].pc = "created"
    /\ setup' = [setup EXCEPT ![r].pc = "done"]
    /\ connect' = [connect EXCEPT ![setup[r].user] = setup[r].user]
    /\ UNCHANGED <<account, withdrawal, crossed, faults, hit>>

\* The id is saved over whatever is there, and the user is answered with it.
SaveAccount(r) ==
    /\ setup[r].pc = "created"
    /\ setup' = [setup EXCEPT ![r].pc = "done"]
    /\ connect' = [connect EXCEPT ![setup[r].user] = r]
    /\ UNCHANGED <<account, withdrawal, crossed, faults, hit>>

\* Stripe refuses, or the account is there and the write of its id fails: the
\* user is told to try again.
SetupFails(r) ==
    /\ setup[r].pc \in {"checked", "created"}
    /\ Fault(IF setup[r].pc = "created" THEN {setup[r].user} ELSE {})
    /\ setup' = [setup EXCEPT ![r].pc = "failed"]
    /\ UNCHANGED <<connect, account, withdrawal, crossed>>

Crash ==
    /\ Fault({setup[r].user : r \in {s \in Setup : setup[s].pc = "created"}})
    /\ setup' = [r \in Setup |-> IF setup[r].pc \in {"checked", "created"}
                                 THEN [setup[r] EXCEPT !.pc = "failed"] ELSE setup[r]]
    /\ withdrawal' = [w \in Withdrawal |-> IF withdrawal[w].pc = "checked"
                                           THEN [withdrawal[w] EXCEPT !.pc = "failed"]
                                           ELSE withdrawal[w]]
    /\ UNCHANGED <<connect, account, crossed>>

-----------------------------------------------------------------------------
(* createOnboardingLink, and processWithdraw as far as the account goes.   *)

\* The link is for the account the request names, the one its user was
\* answered with; the user completes the account at Stripe.
Onboard(r) ==
    /\ setup[r].pc = "done" /\ account[r].state = "created"
    /\ account' = [account EXCEPT ![r].state = "complete"]
    /\ UNCHANGED <<connect, setup, withdrawal, crossed, faults, hit>>

Unchecked(w, u) ==                        \* mutant: without an account, too
    /\ withdrawal[w].pc = "idle"
    /\ withdrawal' = [withdrawal EXCEPT ![w] = [pc |-> "checked", user |-> u,
                                               to |-> CHOOSE r \in Setup : TRUE]]
    /\ UNCHANGED <<connect, setup, account, crossed, faults, hit>>

CheckWithdraw(w, u) ==
    /\ withdrawal[w].pc = "idle"
    /\ connect[u] # Nobody
    /\ withdrawal' = [withdrawal EXCEPT ![w] = [pc |-> "checked", user |-> u,
                                               to |-> connect[u]]]
    /\ UNCHANGED <<connect, setup, account, crossed, faults, hit>>

\* External: Stripe transfers to a completed account only.
Transfer(w) ==
    /\ withdrawal[w].pc = "checked"
    /\ withdrawal' = [withdrawal EXCEPT ![w].pc =
         IF account[withdrawal[w].to].state = "complete" THEN "paid" ELSE "failed"]
    /\ UNCHANGED <<connect, setup, account, crossed, faults, hit>>

Next ==
    \/ \E r \in Setup : \/ \E u \in User : CheckAccount(r, u)
                        \/ CreateAccount(r) \/ LoseAnswer(r) \/ SaveAccount(r)
                        \/ SetupFails(r) \/ Onboard(r)
    \/ \E w \in Withdrawal : (\E u \in User : CheckWithdraw(w, u)) \/ Transfer(w)
    \/ Crash

Spec == Init /\ [][Next]_vars
-----------------------------------------------------------------------------
(* Properties.                                                             *)

\* The shape of the state.
TypeOK ==
    /\ connect \in [User -> Setup \cup {Nobody}]
    /\ setup \in [Setup -> [pc : {"idle", "checked", "created", "done", "failed"},
                            user : User \cup {Nobody}]]
    /\ account \in [Setup -> [state : {"none", "created", "complete"},
                              user : User \cup {Nobody}]]
    /\ withdrawal \in [Withdrawal -> [pc : {"idle", "checked", "paid", "failed"},
                                      user : User \cup {Nobody},
                                      to : Setup \cup {Nobody}]]
    /\ crossed \subseteq User /\ faults \in 0..MaxFaults /\ hit \subseteq User

\* The account a user was told of, and has the link to complete, is the one
\* withdrawals go to, unless two requests both found that there was none: then
\* the user may complete one account and the other is saved.
ToldAccountIsSavedAlone ==
    \A r \in Setup : setup[r].pc = "done" =>
        connect[setup[r].user] = r \/ setup[r].user \in crossed

\* A user has one account at Stripe, unless two requests crossed or one died
\* between the creation and the save, so that a retry creates another.
OneAccountAlone ==
    \A r, s \in Setup :
        /\ account[r].state # "none" /\ account[s].state # "none"
        /\ account[r].user = account[s].user
        => r = s \/ account[r].user \in crossed \cup hit

\* A withdrawal is paid into an account of its own user, completed through the
\* link, even if the saved account has changed since the withdrawal read it.
PaidIntoOwnAccount ==
    \A w \in Withdrawal : withdrawal[w].pc = "paid" =>
        /\ account[withdrawal[w].to].user = withdrawal[w].user
        /\ setup[withdrawal[w].to].pc = "done"

\* One payout account per user, the one the user was told of, and withdrawals
\* that end in it.
PayoutsAreSound ==
    /\ ToldAccountIsSavedAlone
    /\ OneAccountAlone
    /\ PaidIntoOwnAccount
=============================================================================
