----------------------------- MODULE MCDelivery -----------------------------
(* Small instances of Delivery for TLC; the .cfg files give the constants. *)
EXTENDS Delivery
=============================================================================
