---------------------------- MODULE MCDispatchTx ----------------------------
(* Instances of DispatchTx for TLC. *)
EXTENDS DispatchTx, TLC

Requests == Permutations(Tx)
=============================================================================
