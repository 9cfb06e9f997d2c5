------------------------------ MODULE Dispatch ------------------------------
(***************************************************************************)
(* Riders, delivery rows and the order statuses they drive.  Every handler *)
(* that writes riders or deliveries is one atomic action, `ready` included *)
(* with the assignment it makes; a refused request stutters.  Units, carts *)
(* and history rows are the state of module Ordering.                      *)
(***************************************************************************)
EXTENDS DeliveryRows

vars == <<online, status, courier, leg>>

-----------------------------------------------------------------------------
Move(o, target) == status' = [status EXCEPT ![o] = target]

\* Mutant: the order's new status is written to the delivery.
SetLegMixedUp(o, i, to) ==
    leg' = [leg EXCEPT ![o] = [@ EXCEPT ![i] = IF to = "picked_up" THEN "out_for_delivery" ELSE to]]

\* `delivery.status = target`
SetLeg(o, i, to) == leg' = [leg EXCEPT ![o] = [@ EXCEPT ![i] = to]]

\* A new delivery row for rider k in every order of S.
HandOut(S, k) ==
    /\ \A o \in S : HasRoom(o)
    /\ courier' = [o \in OrderId |-> IF o \in S THEN Append(courier[o], k) ELSE courier[o]]
    /\ leg' = [o \in OrderId |-> IF o \in S THEN Append(leg[o], "assigned") ELSE leg[o]]

\* Mutant: the failed row is given to the next rider instead of a new row.
FailReusingRow(o, i, k) ==
    /\ courier' = [courier EXCEPT ![o] = [@ EXCEPT ![i] = k]]
    /\ leg' = [leg EXCEPT ![o] = [@ EXCEPT ![i] = "assigned"]]

\* A failed row, and the row that reassigns its order to k.
FailAndReassign(o, i, k) ==
    /\ HasRoom(o)
    /\ courier' = [courier EXCEPT ![o] = Append(@, k)]
    /\ leg' = [leg EXCEPT ![o] = Append([@ EXCEPT ![i] = "failed"], "assigned")]

\* _transition's ownership and table checks.
MayMove(r, o, i, to) ==
    /\ i \in Rows(o)
    /\ courier[o][i] = r
    /\ to \in DeliveryAllowed[leg[o][i]]

-----------------------------------------------------------------------------
Init ==
    /\ online = {}
    /\ status = [o \in OrderId |-> NoStatus]
    /\ courier = [o \in OrderId |-> << >>]
    /\ leg = [o \in OrderId |-> << >>]

CreateOrder(o) ==
    /\ status[o] = NoStatus
    /\ Move(o, "pending_shop")
    /\ UNCHANGED <<online, courier, leg>>

\* cancel_order, and the shopkeeper's accept, reject and preparing.
Transition(o, target) ==
    /\ status[o] # NoStatus
    /\ CanTransition(status[o], target)
    /\ Move(o, target)
    /\ UNCHANGED <<online, courier, leg>>

\* ready with auto_assign_ready_order: an order that has an active delivery
\* keeps it, another goes to a rider if one is online.
Ready(o) ==
    /\ status[o] # NoStatus
    /\ CanTransition(status[o], "ready_for_pickup")
    /\ ~LookupRaises(o)
    /\ Move(o, "ready_for_pickup")
    /\ IF HasActive(o) \/ online = {}
       THEN UNCHANGED <<courier, leg>>
       ELSE \E k \in Rider : LeastLoaded(k, online) /\ HandOut({o}, k)
    /\ UNCHANGED online

\* Mutant: a rider who comes online waits for the next order.
GoOnlineOnly(r) == online' = online \cup {r} /\ UNCHANGED <<status, courier, leg>>

\* set_online with the catch-up pass.  The rows it adds are not flushed before
\* the pass ends, so every choice in it sees the same loads: all the waiting
\* orders go to one rider.
GoOnline(r) ==
    /\ ~CatchUpRaises
    /\ online' = online \cup {r}
    /\ \E k \in Rider : LeastLoaded(k, online') /\ HandOut(Waiting, k)
    /\ UNCHANGED status

GoOffline(r) ==
    /\ online' = online \ {r}
    /\ UNCHANGED <<status, courier, leg>>

PickUp(r, o, i) ==
    /\ MayMove(r, o, i, "picked_up")
    /\ status[o] = "ready_for_pickup"
    /\ SetLeg(o, i, "picked_up")
    /\ Move(o, "out_for_delivery")
    /\ UNCHANGED <<online, courier>>

\* Mutant: the order is not closed with the delivery.
CompleteDeliveryOnly(r, o, i) ==
    /\ MayMove(r, o, i, "delivered")
    /\ status[o] = "out_for_delivery"
    /\ SetLeg(o, i, "delivered")
    /\ UNCHANGED <<online, status, courier>>

Complete(r, o, i) ==
    /\ MayMove(r, o, i, "delivered")
    /\ status[o] = "out_for_delivery"
    /\ SetLeg(o, i, "delivered")
    /\ Move(o, "delivered")
    /\ UNCHANGED <<online, courier>>

\* Mutant: the order stays out.
FailLeavingOrder(r, o, i) ==
    /\ MayMove(r, o, i, "failed")
    /\ SetLeg(o, i, "failed")
    /\ UNCHANGED <<online, status, courier>>

\* The order is reassigned to another online rider whatever its state is.
Fail(r, o, i) ==
    /\ MayMove(r, o, i, "failed")
    /\ Move(o, IF status[o] = "out_for_delivery" THEN "ready_for_pickup" ELSE status[o])
    /\ IF online \ {r} = {}
       THEN SetLeg(o, i, "failed") /\ UNCHANGED courier
       ELSE \E k \in Rider : LeastLoaded(k, online \ {r}) /\ FailAndReassign(o, i, k)
    /\ UNCHANGED online

-----------------------------------------------------------------------------
ShopNext ==
    \E o \in OrderId :
        \/ CreateOrder(o)
        \/ Ready(o)
        \/ \E target \in {"accepted", "rejected", "preparing", "cancelled"} : Transition(o, target)

RiderNext ==
    \E r \in Rider :
        \/ GoOnline(r)
        \/ GoOffline(r)
        \/ \E o \in OrderId, i \in 1..MaxAttempts :
              PickUp(r, o, i) \/ Complete(r, o, i) \/ Fail(r, o, i)

Next == ShopNext \/ RiderNext

Spec == Init /\ [][Next]_vars

-----------------------------------------------------------------------------
(* Properties *)

\* Every column holds a value of its type and the two columns of an order's
\* delivery rows have one entry for each row.
TypeOK ==
    /\ online \subseteq Rider
    /\ status \in [OrderId -> OrderStatus \cup {NoStatus}]
    /\ courier \in [OrderId -> Seq(Rider)]
    /\ leg \in [OrderId -> Seq(DeliveryStatus)]
    /\ \A o \in OrderId : Len(courier[o]) = Len(leg[o])

\* Of an order's delivery rows all but one have failed: no two riders are ever
\* on their way with it, and none is sent after it was delivered.  The handlers
\* see to it themselves; the partial unique index is never hit.
OneLiveRow ==
    \A o \in OrderId : \A i, j \in Rows(o) :
        leg[o][i] # "failed" /\ leg[o][j] # "failed" => i = j

\* The live row and the order agree: an assigned rider can pick up, a carried
\* order is on its way or was called back by its shop, a delivered row closed
\* its order.
RowFitsOrder ==
    \A o \in OrderId : \A i \in Rows(o) :
        /\ leg[o][i] = "assigned" => status[o] = "ready_for_pickup"
        /\ leg[o][i] = "picked_up" => status[o] \in {"ready_for_pickup", "out_for_delivery"}
        /\ leg[o][i] = "delivered" => status[o] = "delivered"

\* An order that is out is with a rider, and one that is delivered was
\* delivered by one: each delivered order pays exactly one fee (with OneLiveRow).
OrderHasItsRow ==
    \A o \in OrderId :
        /\ status[o] = "out_for_delivery" => \E i \in Rows(o) : leg[o][i] = "picked_up"
        /\ status[o] = "delivered" => \E i \in Rows(o) : leg[o][i] = "delivered"

\* An order no rider has ever been given waits only while nobody is online: the
\* assignment in `ready` and the catch-up of set_online leave no gap.
FreshOrderWaitsForRiders ==
    \A o \in OrderId : status[o] = "ready_for_pickup" /\ Rows(o) = {} => online = {}

\* Delivery rows are history: none disappears or changes its rider, and one that
\* failed or was delivered keeps that outcome (earnings are summed from them).
RowsAreHistory ==
    [][\A o \in OrderId : \A i \in Rows(o) :
          /\ i \in Rows(o)'
          /\ courier[o][i]' = courier[o][i]
          /\ ~IsActive(o, i) => leg[o][i]' = leg[o][i]]_vars

\* The rider whose row of o fails in this step is passed over.
JustFailed(o, t) ==
    \E i \in Rows(o) : courier[o][i] = t /\ IsActive(o, i) /\ leg[o][i]' = "failed"

\* A delivery goes to the online rider with the fewest active deliveries
\* (_pick_rider's docstring): whoever was given one had, before the last one, no
\* more than any other online rider who did not just fail it.
FewestActive ==
    [][\A o \in OrderId : \A i \in Rows(o)' \ Rows(o) : \A t \in online' :
          ~JustFailed(o, t) => Load(courier[o][i])' - 1 <= Load(t)']_vars

\* Whenever an order waits without a delivery, a rider who comes online can be
\* given it: the catch-up pass runs (assign_waiting_orders' docstring).
WaitingOrderCanBeAssigned == Waiting # {} => ~CatchUpRaises

Custody == INSTANCE ParcelCustody
    WITH Parcel <- OrderId, Courier <- Rider,
         carriedBy <- CarriedBy, deliveredBy <- DeliveredBy

\* Dispatch implements parcel custody: a parcel moves between the shop, one
\* rider and the customer, and is delivered at most once.
CustodySpec == Custody!CustodySpec
=============================================================================
