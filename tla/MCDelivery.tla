----------------------------- MODULE MCDelivery -----------------------------
(* Instances of Delivery. *)
EXTENDS Delivery
=============================================================================
