----------------------------- MODULE MCDelivery -----------------------------
(* Two messages of one sender, or of two. *)
EXTENDS Delivery
MCOne == [m \in Msg |-> "one"]
=============================================================================
