------------------------- MODULE MCDeliveryService -------------------------
(* The Delivery Service with two concurrent handlers and two group ids. *)
EXTENDS DeliveryService
=============================================================================
