---------------------------- MODULE OrderStates ----------------------------
(***************************************************************************)
(* The status vocabularies of an order and of a delivery and the two       *)
(* transition tables every handler consults before it moves a row.         *)
(***************************************************************************)

OrderStatus == {"pending_shop", "accepted", "rejected", "preparing",
                "ready_for_pickup", "out_for_delivery", "delivered", "cancelled"}

\* The from_state of the first history row is NULL.
NoStatus == "null"

Allowed ==
    [s \in OrderStatus |->
        CASE s = "pending_shop"     -> {"accepted", "rejected", "cancelled"}
          [] s = "accepted"         -> {"preparing", "cancelled"}
          [] s = "preparing"        -> {"ready_for_pickup"}
          [] s = "ready_for_pickup" -> {"out_for_delivery"}
          [] s = "out_for_delivery" -> {"delivered", "ready_for_pickup"}
          [] OTHER                  -> {}]

\* Mutants of the guard: anything goes until the order is finished; a repeated
\* request for the state the order is already in passes.
AnyUntilFinished(current, target) == Allowed[current] # {}
AllowedOrAlreadyThere(current, target) == target \in Allowed[current] \cup {current}

\* _assert_transition: the guard every status change passes.
CanTransition(current, target) == target \in Allowed[current]

\* Reaching one of these puts the order's units back on the shelf.
RestockTargets == {"rejected", "cancelled"}

DeliveryStatus == {"assigned", "picked_up", "delivered", "failed"}

DeliveryAllowed ==
    [s \in DeliveryStatus |->
        CASE s = "assigned"  -> {"picked_up", "failed"}
          [] s = "picked_up" -> {"delivered", "failed"}
          [] OTHER           -> {}]

\* Delivery states that still occupy a rider.
ActiveStatuses == {"assigned", "picked_up"}
=============================================================================
