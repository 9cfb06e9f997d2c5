----------------------------- MODULE MCOrdering -----------------------------
(* Instances of Ordering for TLC. *)
EXTENDS Ordering, TLC

CONSTANTS s1, s2, p1, p2, p3

\* Two products in one shop next to a second shop.
ThreeProductsOf == p1 :> s1 @@ p2 :> s1 @@ p3 :> s2

CustomersAndOrders == Permutations(Customer) \cup Permutations(OrderId)
=============================================================================
