---------------------------- MODULE DeliveryRows ----------------------------
(***************************************************************************)
(* Riders, delivery rows and the order statuses they drive: the committed  *)
(* state, and what the riders' service reads from it.  The rows of an      *)
(* order are two columns indexed by attempt, oldest first.                 *)
(***************************************************************************)
EXTENDS Integers, Sequences, FiniteSets, OrderStates

CONSTANTS OrderId,
          Rider,       \* user ids of riders; numbers, because ties go to the lowest
          MaxAttempts  \* bound: delivery rows of one order

ASSUME DispatchAssumption == Rider \subseteq Nat /\ MaxAttempts \in Nat

VARIABLES
    online,   \* riders with is_online
    status,   \* [OrderId -> OrderStatus or NoStatus before the order is placed]
    courier,  \* [OrderId -> Seq(Rider)] rider_user_id of the order's delivery rows
    leg       \* [OrderId -> Seq(DeliveryStatus)] status of the order's delivery rows

-----------------------------------------------------------------------------
Rows(o) == DOMAIN leg[o]

IsActive(o, i) == leg[o][i] \in ActiveStatuses

\* _active_counts
Load(r) ==
    Cardinality({d \in OrderId \X (1..MaxAttempts) :
                    LET o == d[1]  i == d[2]
                    IN i \in Rows(o) /\ courier[o][i] = r /\ IsActive(o, i)})

\* _pick_rider among the riders in S: fewest active deliveries, then lowest id.
LeastLoaded(r, S) ==
    /\ r \in S
    /\ \A t \in S : Load(r) < Load(t) \/ (Load(r) = Load(t) /\ r <= t)

\* The order's delivery is looked up as a single row: with a second row the
\* query raises and the whole request fails.
LookupRaises(o) == Len(leg[o]) > 1

\* Mutant: only a rider who has not picked up yet counts.
HasUnpicked(o) == \E i \in Rows(o) : leg[o][i] = "assigned"

HasActive(o) == \E i \in Rows(o) : IsActive(o, i)

\* Orders the catch-up pass hands out.
Waiting == {o \in OrderId : status[o] = "ready_for_pickup" /\ ~HasActive(o)}

CatchUpRaises == \E o \in OrderId : status[o] = "ready_for_pickup" /\ LookupRaises(o)

HasRoom(o) == Len(leg[o]) < MaxAttempts

-----------------------------------------------------------------------------
(* The custody of an order's parcel, read off its delivery rows. *)

WithLeg(o, s) == {courier[o][i] : i \in {j \in Rows(o) : leg[o][j] = s}}

CarriedBy == [o \in OrderId |-> WithLeg(o, "picked_up")]

DeliveredBy == [o \in OrderId |-> WithLeg(o, "delivered")]
=============================================================================
