----------------------------- MODULE DispatchTx -----------------------------
(***************************************************************************)
(* The requests that assign and move deliveries, one database statement at *)
(* a time.  A request reads what has been committed, locks rows, waits for *)
(* rows another request holds, except that riders who are locked are       *)
(* passed over (SKIP LOCKED), and makes its writes visible with its        *)
(* commit.  Orders start out accepted and being prepared: what happens to  *)
(* them earlier touches no rider and no delivery.                          *)
(***************************************************************************)
EXTENDS DeliveryRows

CONSTANTS Tx,
          Kinds  \* bound: kinds of request that arrive

\* An order's id stands for its placed_at; the orders are the rows of a table.
ASSUME DispatchTxAssumption == OrderId \subseteq Nat \ {0} /\ IsFiniteSet(OrderId) /\ 0 \notin Rider

VARIABLES
    req,     \* [Tx -> the request it serves]
    pc,      \* [Tx -> the statement it is at]
    todo,    \* [Tx -> orders of its catch-up pass it has still to look at]
    plan,    \* [Tx -> [OrderId -> Rider or Nobody]] delivery rows it will insert
    counted, \* [Tx -> [OrderId -> Nat]] active deliveries the chosen rider had
    holds    \* [Tx -> rows it holds locked]

rowVars == <<online, status, courier, leg>>
txVars == <<req, pc, todo, plan, counted, holds>>
vars == <<online, status, courier, leg, req, pc, todo, plan, counted, holds>>

-----------------------------------------------------------------------------
Nobody == 0

NoPlan == [o \in OrderId |-> Nobody]

Planned(t) == {o \in OrderId : plan[t][o] # Nobody}

RiderRow(r) == <<"rider", r>>
DeliveryRow(o, i) == <<"delivery", o, i>>
\* Locked by FOR UPDATE, and by the insertion of a delivery of the order: the
\* new row refers to it and no second active row can be inserted beside it.
OrderRow(o) == <<"order", o>>

NoRequest == [kind |-> "none"]

Request ==
    [kind : {"online"}, rider : Rider]
    \cup [kind : {"ready"}, order : OrderId]
    \cup [kind : {"picked_up", "delivered", "failed"}, rider : Rider, order : OrderId, row : 1..MaxAttempts]

Free(t, r) == \A u \in Tx \ {t} : r \notin holds[u]

Earliest(S) == CHOOSE o \in S : \A u \in S : o <= u

\* All active rows of order o but number i.
OtherActive(o, i) == {j \in Rows(o) : j # i /\ IsActive(o, j)}

Init ==
    /\ online = {}
    /\ status = [o \in OrderId |-> "preparing"]
    /\ courier = [o \in OrderId |-> << >>]
    /\ leg = [o \in OrderId |-> << >>]
    /\ req = [t \in Tx |-> NoRequest]
    /\ pc = [t \in Tx |-> "idle"]
    /\ todo = [t \in Tx |-> {}]
    /\ plan = [t \in Tx |-> NoPlan]
    /\ counted = [t \in Tx |-> [o \in OrderId |-> 0]]
    /\ holds = [t \in Tx |-> {}]

-----------------------------------------------------------------------------
(* Transactions *)

Goto(t, l) == pc' = [pc EXCEPT ![t] = l]

Lock(t, rows) == holds' = [holds EXCEPT ![t] = @ \cup rows]

\* The transaction is over and its locks are released.
Ended(t) ==
    /\ Goto(t, "idle")
    /\ req' = [req EXCEPT ![t] = NoRequest]
    /\ todo' = [todo EXCEPT ![t] = {}]
    /\ plan' = [plan EXCEPT ![t] = NoPlan]
    /\ counted' = [counted EXCEPT ![t] = [o \in OrderId |-> 0]]
    /\ holds' = [holds EXCEPT ![t] = {}]

\* A refusal or an error rolls the session back.
Abort(t) == Ended(t) /\ UNCHANGED rowVars

\* Commit: order o and its row i, if any, take their new state, and a planned
\* row is added to each planned order.
Commit(t, newStatus, newLeg) ==
    /\ status' = newStatus
    /\ courier' = [o \in OrderId |-> IF o \in Planned(t) THEN Append(courier[o], plan[t][o]) ELSE courier[o]]
    /\ leg' = [o \in OrderId |-> IF o \in Planned(t) THEN Append(newLeg[o], "assigned") ELSE newLeg[o]]
    /\ Ended(t)

\* Where a request starts.  set_online loads its rider first and has nothing to
\* write when the flag is already set.
FirstStatement(r) ==
    CASE r.kind = "online" -> IF r.rider \in online THEN "list" ELSE "flag"
      [] r.kind = "ready"  -> "order"
      [] OTHER             -> "delivery"

Start(t, r) ==
    /\ pc[t] = "idle"
    /\ r.kind \in {"picked_up", "delivered", "failed"} => r.row \in Rows(r.order)
    /\ r.kind = "failed" => Len(leg[r.order]) + Cardinality(Tx) <= MaxAttempts
    /\ Goto(t, FirstStatement(r))
    /\ req' = [req EXCEPT ![t] = r]
    /\ UNCHANGED <<rowVars, todo, plan, counted, holds>>

\* set_offline, which writes one row and commits.
GoOffline(r) ==
    /\ \A t \in Tx : RiderRow(r) \notin holds[t]
    /\ online' = online \ {r}
    /\ UNCHANGED <<status, courier, leg, txVars>>

-----------------------------------------------------------------------------
(* Choosing a rider *)

\* Riders the transaction sees online, its own flag included.
SeenOnline(t) ==
    online \cup IF req[t].kind = "online" /\ RiderRow(req[t].rider) \in holds[t]
                THEN {req[t].rider} ELSE {}

\* Riders it gets locked; the others are skipped.
Lockable(t) == {r \in SeenOnline(t) : Free(t, RiderRow(r))}

\* Mutant: the candidates are counted but not locked.
PickUnlocked(t, o, S) ==
    \E k \in Rider :
        /\ LeastLoaded(k, S)
        /\ plan' = [plan EXCEPT ![t][o] = k]
        /\ counted' = [counted EXCEPT ![t][o] = Load(k)]
        /\ UNCHANGED holds

\* _pick_rider: lock every candidate, count the committed deliveries, choose.
Pick(t, o, S) ==
    \E k \in Rider :
        /\ LeastLoaded(k, S)
        /\ plan' = [plan EXCEPT ![t][o] = k]
        /\ counted' = [counted EXCEPT ![t][o] = Load(k)]
        /\ Lock(t, {RiderRow(r) : r \in Lockable(t)})

-----------------------------------------------------------------------------
(* set_online *)

SetFlag(t) ==
    /\ pc[t] = "flag"
    /\ Free(t, RiderRow(req[t].rider))
    /\ Lock(t, {RiderRow(req[t].rider)})
    /\ Goto(t, "list")
    /\ UNCHANGED <<rowVars, req, todo, plan, counted>>

\* After the last order of the pass the rows it planned are inserted.
NextOrder(t, rest) ==
    /\ todo' = [todo EXCEPT ![t] = rest]
    /\ Goto(t, IF rest = {} THEN "insert" ELSE "lookup")

ListReady(t) ==
    /\ pc[t] = "list"
    /\ NextOrder(t, {o \in OrderId : status[o] = "ready_for_pickup"})
    /\ UNCHANGED <<rowVars, req, plan, counted, holds>>

\* The order's delivery, if any, decides whether it is passed over.
LookUp(t) ==
    LET o == Earliest(todo[t]) IN
    /\ pc[t] = "lookup"
    /\ \/ LookupRaises(o) /\ Abort(t)
       \/ /\ ~LookupRaises(o)
          /\ IF HasActive(o) THEN NextOrder(t, todo[t] \ {o}) ELSE Goto(t, "pick") /\ UNCHANGED todo
          /\ UNCHANGED <<rowVars, req, plan, counted, holds>>

\* Without a candidate the pass stops.
PickForWaiting(t) ==
    LET o == Earliest(todo[t]) IN
    /\ pc[t] = "pick" /\ req[t].kind = "online"
    /\ IF Lockable(t) = {}
       THEN NextOrder(t, {}) /\ UNCHANGED <<plan, counted, holds>>
       ELSE Pick(t, o, Lockable(t)) /\ NextOrder(t, todo[t] \ {o})
    /\ UNCHANGED <<rowVars, req>>

\* Orders whose planned row is not inserted yet.
ToInsert(t) == {o \in Planned(t) : OrderRow(o) \notin holds[t]}

\* Mutant: the rows are inserted in any order.
InsertAnyOrder(t) ==
    /\ pc[t] = "insert"
    /\ \E o \in ToInsert(t) :
          /\ Free(t, OrderRow(o))
          /\ IF HasActive(o)
             THEN Abort(t)
             ELSE Lock(t, {OrderRow(o)}) /\ UNCHANGED <<rowVars, req, pc, todo, plan, counted>>

\* A row is inserted once nobody holds its order; if the order has got an
\* active delivery meanwhile the index refuses the row and the request fails.
Insert(t) ==
    LET o == Earliest(ToInsert(t)) IN
    /\ pc[t] = "insert" /\ ToInsert(t) # {}
    /\ Free(t, OrderRow(o))
    /\ IF HasActive(o)
       THEN Abort(t)
       ELSE Lock(t, {OrderRow(o)}) /\ UNCHANGED <<rowVars, req, pc, todo, plan, counted>>

FinishOnline(t) ==
    /\ pc[t] = "insert" /\ ToInsert(t) = {}
    /\ online' = SeenOnline(t)
    /\ Commit(t, status, leg)

-----------------------------------------------------------------------------
(* ready *)

\* Mutant: the order is read and looked up without a lock on it.
ReadReadyOrder(t) ==
    LET o == req[t].order IN
    /\ pc[t] = "order" /\ req[t].kind = "ready"
    /\ IF ~CanTransition(status[o], "ready_for_pickup") \/ LookupRaises(o)
       THEN Abort(t)
       ELSE /\ Goto(t, IF HasActive(o) THEN "commit" ELSE "pick")
            /\ UNCHANGED <<rowVars, req, todo, plan, counted, holds>>

\* The order is locked, the move checked and the order's delivery looked up.
LockReadyOrder(t) ==
    LET o == req[t].order IN
    /\ pc[t] = "order" /\ req[t].kind = "ready"
    /\ Free(t, OrderRow(o))
    /\ IF ~CanTransition(status[o], "ready_for_pickup") \/ LookupRaises(o)
       THEN Abort(t)
       ELSE /\ Lock(t, {OrderRow(o)})
            /\ Goto(t, IF HasActive(o) THEN "commit" ELSE "pick")
            /\ UNCHANGED <<rowVars, req, todo, plan, counted>>

PickForOrder(t) ==
    LET S == IF req[t].kind = "failed" THEN Lockable(t) \ {req[t].rider} ELSE Lockable(t) IN
    /\ pc[t] = "pick" /\ req[t].kind \in {"ready", "failed"}
    /\ IF S = {}
       THEN UNCHANGED <<plan, counted>> /\ Lock(t, {RiderRow(r) : r \in Lockable(t)})
       ELSE Pick(t, req[t].order, S)
    /\ Goto(t, "commit")
    /\ UNCHANGED <<rowVars, req, todo>>

FinishReady(t) ==
    /\ pc[t] = "commit" /\ req[t].kind = "ready"
    /\ Commit(t, [status EXCEPT ![req[t].order] = "ready_for_pickup"], leg)
    /\ UNCHANGED online

-----------------------------------------------------------------------------
(* pick_up, complete, fail *)

\* The delivery is locked, then checked.
LockDelivery(t) ==
    LET o == req[t].order  i == req[t].row IN
    /\ pc[t] = "delivery"
    /\ Free(t, DeliveryRow(o, i))
    /\ IF courier[o][i] # req[t].rider \/ req[t].kind \notin DeliveryAllowed[leg[o][i]]
       THEN Abort(t)
       ELSE /\ Lock(t, {DeliveryRow(o, i)})
            /\ Goto(t, "order")
            /\ UNCHANGED <<rowVars, req, todo, plan, counted>>

\* Mutant: a pick up looks at the delivery alone.
AnyOrderState(t) == TRUE

\* The state the order must be in for the rider's request.
OrderFits(t) ==
    LET s == status[req[t].order] IN
    /\ req[t].kind = "picked_up" => s = "ready_for_pickup"
    /\ req[t].kind = "delivered" => s = "out_for_delivery"

\* The order is locked after its delivery; a failed delivery goes on to look
\* for another rider.
LockMovedOrder(t) ==
    LET o == req[t].order IN
    /\ pc[t] = "order" /\ req[t].kind # "ready"
    /\ Free(t, OrderRow(o))
    /\ IF ~OrderFits(t)
       THEN Abort(t)
       ELSE /\ Lock(t, {OrderRow(o)})
            /\ Goto(t, IF req[t].kind = "failed" THEN "pick" ELSE "commit")
            /\ UNCHANGED <<rowVars, req, todo, plan, counted>>

MovedStatus(t) ==
    LET s == status[req[t].order] IN
    CASE req[t].kind = "picked_up" -> "out_for_delivery"
      [] req[t].kind = "delivered" -> "delivered"
      [] OTHER -> IF s = "out_for_delivery" THEN "ready_for_pickup" ELSE s

\* Mutant: the delivery's new status is written to the order.
FinishMoveMixedUp(t) ==
    LET o == req[t].order  i == req[t].row IN
    /\ pc[t] = "commit" /\ req[t].kind \in {"picked_up", "delivered", "failed"}
    /\ Commit(t, [status EXCEPT ![o] = req[t].kind], [leg EXCEPT ![o] = [@ EXCEPT ![i] = req[t].kind]])
    /\ UNCHANGED online

FinishMove(t) ==
    LET o == req[t].order  i == req[t].row IN
    /\ pc[t] = "commit" /\ req[t].kind \in {"picked_up", "delivered", "failed"}
    /\ Commit(t, [status EXCEPT ![o] = MovedStatus(t)], [leg EXCEPT ![o] = [@ EXCEPT ![i] = req[t].kind]])
    /\ UNCHANGED online

-----------------------------------------------------------------------------
Advance(t) ==
    \/ SetFlag(t) \/ ListReady(t) \/ LookUp(t) \/ PickForWaiting(t) \/ Insert(t) \/ FinishOnline(t)
    \/ LockReadyOrder(t) \/ PickForOrder(t) \/ FinishReady(t)
    \/ LockDelivery(t) \/ LockMovedOrder(t) \/ FinishMove(t)

Next ==
    \/ \E r \in Rider : GoOffline(r)
    \/ \E t \in Tx : Advance(t) \/ \E r \in Request : r.kind \in Kinds /\ Start(t, r)

Spec == Init /\ [][Next]_vars

\* Requests that wait for a row queue for it; no deadlock detector is assumed.
FairSpec == Spec /\ \A t \in Tx : SF_vars(Advance(t))

-----------------------------------------------------------------------------
(* Properties *)

\* Every column and every request's workspace is well typed.
TypeOK ==
    /\ online \subseteq Rider
    /\ status \in [OrderId -> OrderStatus]
    /\ \A o \in OrderId : Len(courier[o]) = Len(leg[o])
    /\ courier \in [OrderId -> Seq(Rider)]
    /\ leg \in [OrderId -> Seq(DeliveryStatus)]
    /\ req \in [Tx -> Request \cup {NoRequest}]
    /\ pc \in [Tx -> {"idle", "flag", "list", "lookup", "pick", "insert", "order", "delivery", "commit"}]
    /\ todo \in [Tx -> SUBSET OrderId]
    /\ plan \in [Tx -> [OrderId -> Rider \cup {Nobody}]]
    /\ counted \in [Tx -> [OrderId -> Nat]]

\* A row that `ready` or `fail` is about to add is the order's only active one,
\* whatever set_online does beside it: these two requests never run into the
\* partial unique index (the order's row is locked before its delivery is read).
ReadyAndFailKeepIndex ==
    \A t \in Tx : pc[t] = "commit" =>
        \A o \in Planned(t) : OtherActive(o, IF req[t].kind = "failed" THEN req[t].row ELSE 0) = {}

\* No two requests give a rider deliveries from the same count: when a rider's
\* new deliveries are committed the rider has no more than were counted
\* (_pick_rider: concurrent transactions cannot double-assign).
NoDoubleAssign ==
    \A t \in Tx : \A o \in Planned(t) : Load(plan[t][o]) <= counted[t][o]

Custody == INSTANCE ParcelCustody
    WITH Parcel <- OrderId, Courier <- Rider,
         carriedBy <- CarriedBy, deliveredBy <- DeliveredBy

\* The interleaved requests implement parcel custody: one rider at a time carries
\* an order, and it is delivered and paid once, ghost rows notwithstanding.
CustodySpec == Custody!CustodySpec

\* Every request ends: the lock order of the riders' and the shops' requests
\* leaves no circle of waiting (_pick_rider: locks in user_id order, SKIP LOCKED).
EveryRequestEnds == \A t \in Tx : pc[t] # "idle" ~> pc[t] = "idle"

\* A request that looks for a rider for its order while riders other than the one
\* who failed it are online finds one, if need be by waiting for the requests that
\* have them locked (_pick_rider's docstring).
LoserWaits ==
    [][\A t \in Tx : pc[t] = "pick" /\ pc'[t] = "commit" =>
          Planned(t)' # {} \/ online \ (IF req[t].kind = "failed" THEN {req[t].rider} ELSE {}) = {}]_vars

\* When no request is under way, an order that has never been given to a rider
\* waits only while nobody is online (auto_assign_ready_order's docstring).
AssignedIfOnline ==
    (\A t \in Tx : pc[t] = "idle") =>
        \A o \in OrderId : status[o] = "ready_for_pickup" /\ Rows(o) = {} => online = {}

\* A delivery is given out for a ready order (assign_waiting_orders' docstring).
OnlyReadyAssigned ==
    [][\A o \in OrderId : \A i \in Rows(o)' \ Rows(o) : status'[o] = "ready_for_pickup"]_vars
=============================================================================
