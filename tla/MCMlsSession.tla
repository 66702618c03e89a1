---------------------------- MODULE MCMlsSession ----------------------------
(* Two accounts; the first has two devices. *)
EXTENDS MlsSession

CONSTANTS d1, d2, d3, a1, a2

MCOwner == [d \in Device |-> IF d = d3 THEN a2 ELSE a1]
MCOwner2 == [d \in Device |-> IF d = d2 THEN a2 ELSE a1]
=============================================================================
