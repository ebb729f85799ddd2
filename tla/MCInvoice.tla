----------------------------- MODULE MCInvoice -----------------------------
(* Invoice on a small instance for TLC. *)
EXTENDS Invoice, TLC

CONSTANTS c1, c2, i1, i2, i3

Interchangeable == Permutations(Client) \cup Permutations(Invoice)
=============================================================================
