-------------------------- MODULE MCChatDelivery --------------------------
(* Two devices, each of an account of its own. *)
EXTENDS ChatDelivery, TLC

CONSTANTS d1, d2, a1, a2

MCOwner == d1 :> a1 @@ d2 :> a2

\* The two accounts, each with its device, are alike.
Swap == {d1 :> d2 @@ d2 :> d1 @@ a1 :> a2 @@ a2 :> a1}
=============================================================================
