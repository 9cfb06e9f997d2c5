---------------------------- MODULE MCWorkbench ----------------------------
(* Instances of Workbench for TLC. *)
EXTENDS Workbench, TLC

Tabs == Permutations(Tab)
=============================================================================
