---------------------------- MODULE StockLedger ----------------------------
(***************************************************************************)
(* What the shelf promises, with no carts, statuses or histories: units    *)
(* are reserved by a claim only if they are there, a claim is settled      *)
(* exactly once, either by returning its units to every product that is    *)
(* still listed or by keeping them for good, and nothing else moves units  *)
(* except the shopkeeper restating a count.                                *)
(***************************************************************************)
EXTENDS Naturals

CONSTANTS Claim, Product,
          Count,      \* numbers a shopkeeper may state for a product
          Quantity    \* numbers of units one claim may take of a product

VARIABLES listed,   \* products on the shelf
          free,     \* [Product -> Nat] units that can still be sold
          phase,    \* [Claim -> "new", "held", "returned", "kept"]
          units     \* [Claim -> [Product -> Nat]] what a claim took

ledgerVars == <<listed, free, phase, units>>

Nothing == [p \in Product |-> 0]

LedgerInit ==
    /\ listed = {}
    /\ free = Nothing
    /\ phase = [k \in Claim |-> "new"]
    /\ units = [k \in Claim |-> Nothing]

List(p) ==
    /\ p \notin listed
    /\ listed' = listed \cup {p}
    /\ \E n \in Count : free' = [free EXCEPT ![p] = n]
    /\ UNCHANGED <<phase, units>>

Delist(p) ==
    /\ p \in listed
    /\ listed' = listed \ {p}
    /\ free' = [free EXCEPT ![p] = 0]
    /\ UNCHANGED <<phase, units>>

Recount(p) ==
    /\ p \in listed
    /\ \E n \in Count : free' = [free EXCEPT ![p] = n]
    /\ UNCHANGED <<listed, phase, units>>

Reserve(k) ==
    /\ phase[k] = "new"
    /\ phase' = [phase EXCEPT ![k] = "held"]
    /\ \E u \in [Product -> Quantity] :
          /\ u # Nothing
          /\ \A p \in Product : u[p] > 0 => p \in listed /\ u[p] <= free[p]
          /\ units' = [units EXCEPT ![k] = u]
          /\ free' = [p \in Product |-> free[p] - u[p]]
    /\ UNCHANGED listed

Return(k) ==
    /\ phase[k] = "held"
    /\ phase' = [phase EXCEPT ![k] = "returned"]
    /\ free' = [p \in Product |-> IF p \in listed THEN free[p] + units[k][p] ELSE free[p]]
    /\ UNCHANGED <<listed, units>>

Keep(k) ==
    /\ phase[k] = "held"
    /\ phase' = [phase EXCEPT ![k] = "kept"]
    /\ UNCHANGED <<listed, free, units>>

LedgerNext ==
    \/ \E p \in Product : List(p) \/ Delist(p) \/ Recount(p)
    \/ \E k \in Claim : Reserve(k) \/ Return(k) \/ Keep(k)

LedgerSpec == LedgerInit /\ [][LedgerNext]_ledgerVars
=============================================================================
