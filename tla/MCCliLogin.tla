---------------------------- MODULE MCCliLogin ----------------------------
(* Calls are interchangeable before they start. *)
EXTENDS CliLogin, TLC

Symmetry == Permutations(Poll) \cup Permutations(Canceller)
=============================================================================
