---------------------------- MODULE MCSessions ----------------------------
(* Phones are interchangeable. *)
EXTENDS Sessions, TLC

Symmetry == Permutations(Phone)
=============================================================================
