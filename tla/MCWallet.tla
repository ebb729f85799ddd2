------------------------------ MODULE MCWallet ------------------------------
(* Wallet on a small instance for TLC. *)
EXTENDS WalletLedger, FiniteSetsExt, TLC

CONSTANTS u1, u2, d1, d2, w1, w2, h1, h2

\* Requests of one kind, webhook slots and users are interchangeable: every
\* user is billed and connected in these instances.
Interchangeable ==
    Permutations(User) \cup Permutations(Deposit) \cup Permutations(Withdrawal)
    \cup Permutations(Delivery)

\* The sums of Sums are those of the community modules.
ASSUME SumsAreFolds ==
    \A f \in [1..3 -> 0..2], S \in SUBSET (1..3) :
        SumOver(f, S) = MapThenSumSet(LAMBDA x : f[x], S)
=============================================================================
