--------------------------- MODULE ParcelCustody ---------------------------
(***************************************************************************)
(* What the delivery side promises, without deliveries, statuses or        *)
(* assignments: a parcel is with its shop until one rider takes it, leaves *)
(* that rider's hands only to the customer or back to the shop, and once a *)
(* rider has delivered it nobody carries it again.                         *)
(***************************************************************************)
CONSTANTS Parcel, Courier

VARIABLES
    carriedBy,    \* [Parcel -> SUBSET Courier] who holds the parcel now
    deliveredBy   \* [Parcel -> SUBSET Courier] who is credited with its delivery

custodyVars == <<carriedBy, deliveredBy>>

CustodyInit ==
    /\ carriedBy = [p \in Parcel |-> {}]
    /\ deliveredBy = [p \in Parcel |-> {}]

Take(p, r) ==
    /\ carriedBy[p] = {} /\ deliveredBy[p] = {}
    /\ carriedBy' = [carriedBy EXCEPT ![p] = {r}]
    /\ UNCHANGED deliveredBy

Deliver(p, r) ==
    /\ carriedBy[p] = {r} /\ deliveredBy[p] = {}
    /\ carriedBy' = [carriedBy EXCEPT ![p] = {}]
    /\ deliveredBy' = [deliveredBy EXCEPT ![p] = {r}]

BringBack(p, r) ==
    /\ carriedBy[p] = {r}
    /\ carriedBy' = [carriedBy EXCEPT ![p] = {}]
    /\ UNCHANGED deliveredBy

CustodyNext ==
    \E p \in Parcel, r \in Courier : Take(p, r) \/ Deliver(p, r) \/ BringBack(p, r)

CustodySpec == CustodyInit /\ [][CustodyNext]_custodyVars
=============================================================================
