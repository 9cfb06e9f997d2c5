---------------------------- MODULE MCCheckoutTx ----------------------------
(* Instances of CheckoutTx for TLC. *)
EXTENDS CheckoutTx, TLC

Alike == Permutations(Tx) \cup Permutations(OrderId)
AlikeProducts == Alike \cup Permutations(Product)
=============================================================================
