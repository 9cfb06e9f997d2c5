------------------------------ MODULE MCCartTx ------------------------------
(* Instances of CartTx for TLC. *)
EXTENDS CartTx, TLC

CONSTANTS p1, p2, s1, s2

\* Each shop sells one of two products.
TwoSellers == p1 :> s1 @@ p2 :> s2
=============================================================================
