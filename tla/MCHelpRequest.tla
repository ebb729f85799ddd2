---------------------------- MODULE MCHelpRequest ----------------------------
(* HelpRequest on a small instance for TLC. *)
EXTENDS HelpRequest

CONSTANTS s, v1, v2, a1, a2, f1, f2, f3

=============================================================================
