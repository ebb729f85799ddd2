------------------------------- MODULE MCWill -------------------------------
(* Will on a small instance for TLC. *)
EXTENDS Will

CONSTANTS a1, a2, r1, r2

TwoTables == <<"dependants", "beneficiaries">>
FourTables == <<"dependants", "beneficiaries", "executors", "exclusions">>

=============================================================================
