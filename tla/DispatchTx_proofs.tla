-------------------------- MODULE DispatchTx_proofs --------------------------
(***************************************************************************)
(* Machine-checked theorems about DispatchTx, for every set of requests,   *)
(* orders and riders: an order has one active delivery however the         *)
(* statements interleave, a rider is not given deliveries twice from one   *)
(* count, and the requests implement ParcelCustody.                        *)
(***************************************************************************)
EXTENDS DispatchTx, FiniteSetTheorems, TLAPS

-----------------------------------------------------------------------------
(* The inductive invariant *)

Places == {"idle", "flag", "list", "lookup", "pick", "insert", "order", "delivery", "commit"}

Moves == {"picked_up", "delivered", "failed"}

Columns ==
    /\ online \subseteq Rider
    /\ status \in [OrderId -> OrderStatus]
    /\ courier \in [OrderId -> Seq(Rider)]
    /\ leg \in [OrderId -> Seq(DeliveryStatus)]
    /\ \A o \in OrderId : Len(courier[o]) = Len(leg[o])

Workspaces ==
    /\ req \in [Tx -> Request \cup {NoRequest}]
    /\ pc \in [Tx -> Places]
    /\ todo \in [Tx -> SUBSET OrderId]
    /\ plan \in [Tx -> [OrderId -> Rider \cup {Nobody}]]
    /\ counted \in [Tx -> [OrderId -> Nat]]
    /\ holds = [t \in Tx |-> holds[t]]

\* The partial unique index: an order has at most one active delivery.
OneActive == \A o \in OrderId : \A i, j \in Rows(o) : IsActive(o, i) /\ IsActive(o, j) => i = j

\* A delivery that was made delivered its order, for good.
DeliveredFits == \A o \in OrderId : \A i \in Rows(o) : leg[o][i] = "delivered" => status[o] = "delivered"

LocksApart == \A t, u \in Tx : t # u => holds[t] \cap holds[u] = {}

\* Which requests get to a statement.
KindAt(t) ==
    /\ pc[t] \in {"flag", "list", "lookup", "insert"} => req[t].kind = "online"
    /\ pc[t] = "pick" => req[t].kind \in {"online", "ready", "failed"}
    /\ pc[t] = "order" => req[t].kind \in Moves \cup {"ready"}
    /\ pc[t] = "delivery" => req[t].kind \in Moves
    /\ pc[t] = "commit" => req[t].kind \in Moves \cup {"ready"}
    /\ pc[t] = "idle" => req[t].kind = "none" /\ holds[t] = {}

\* Who plans rows: set_online for the orders it saw, `ready` and `fail` for their
\* own once they have picked.  A rider who is planned is locked, so nobody else
\* gives that rider work before this request commits.
PlanAt(t) ==
    /\ req[t].kind # "online" =>
           Planned(t) \subseteq IF pc[t] = "commit" /\ req[t].kind \in {"ready", "failed"}
                                THEN {req[t].order} ELSE {}
    /\ \A o \in OrderId : \A r \in Rider :
          plan[t][o] = r => RiderRow(r) \in holds[t] /\ Load(r) <= counted[t][o]

\* set_online locks an order when it inserts its row, which it finds without one.
OnlineAt(t) ==
    req[t].kind = "online" =>
        \A o \in OrderId : OrderRow(o) \in holds[t] =>
            pc[t] = "insert" /\ (o \in Planned(t) => ~HasActive(o))

\* `ready` has its order locked in the state it found it, and plans a row only
\* when there is none.
ReadyAt(t) ==
    LET o == req[t].order IN
    req[t].kind = "ready" /\ pc[t] \in {"pick", "commit"} =>
        /\ OrderRow(o) \in holds[t]
        /\ CanTransition(status[o], "ready_for_pickup")
        /\ pc[t] = "pick" \/ Planned(t) # {} => ~HasActive(o)

\* A move has its delivery, then its order locked in the states it found.
MoveAt(t) ==
    LET o == req[t].order  i == req[t].row IN
    req[t].kind \in Moves =>
        /\ i \in Rows(o)
        /\ pc[t] \in {"order", "pick", "commit"} =>
               /\ DeliveryRow(o, i) \in holds[t]
               /\ courier[o][i] = req[t].rider
               /\ req[t].kind \in DeliveryAllowed[leg[o][i]]
        /\ pc[t] \in {"pick", "commit"} => OrderRow(o) \in holds[t] /\ OrderFits(t)

At(t) == KindAt(t) /\ PlanAt(t) /\ OnlineAt(t) /\ ReadyAt(t) /\ MoveAt(t)

TxInv ==
    /\ Columns /\ Workspaces
    /\ OneActive /\ DeliveredFits
    /\ LocksApart
    /\ \A t \in Tx : At(t)

-----------------------------------------------------------------------------
LEMMA RequestFields ==
    ASSUME Workspaces, NEW t \in Tx
    PROVE  /\ req[t].kind = "online" => req[t].rider \in Rider
           /\ req[t].kind = "ready" => req[t].order \in OrderId
           /\ req[t].kind \in Moves => req[t].rider \in Rider /\ req[t].order \in OrderId
<1>1. req[t] \in Request \cup {NoRequest}
  BY DEF Workspaces
<1>. QED
  BY <1>1 DEF Request, NoRequest, Moves

LEMMA PlannedIs ==
    ASSUME Workspaces, NEW t \in Tx
    PROVE  /\ Planned(t) \subseteq OrderId
           /\ \A o \in Planned(t) : plan[t][o] \in Rider
BY DispatchTxAssumption DEF Workspaces, Planned, Nobody

-----------------------------------------------------------------------------
(* A rider's active deliveries *)

LEMMA FewDeliveries == IsFiniteSet(OrderId \X (1..MaxAttempts))
<1>1. IsFiniteSet(1..MaxAttempts)
  BY DispatchAssumption, FS_Interval
<1>2. IsFiniteSet(OrderId)
  BY DispatchTxAssumption
<1>. QED
  BY <1>1, <1>2, FS_Product

LEMMA LoadIsNat ==
    ASSUME NEW r
    PROVE  Load(r) \in Nat /\ Load(r)' \in Nat
<1> DEFINE D == {d \in OrderId \X (1..MaxAttempts) :
                    LET o == d[1]  i == d[2]
                    IN i \in Rows(o) /\ courier[o][i] = r /\ IsActive(o, i)}
<1>1. D \subseteq OrderId \X (1..MaxAttempts) /\ D' \subseteq OrderId \X (1..MaxAttempts)
  OBVIOUS
<1>2. Cardinality(D) \in Nat /\ Cardinality(D') \in Nat
  <2>. HIDE DEF D
  <2>. QED
    BY <1>1, FewDeliveries, FS_Subset, FS_CardinalityType
<1>. QED
  BY <1>2 DEF Load

\* A rider whose active deliveries after a step were his before it has no more.
LEMMA LoadFalls ==
    ASSUME NEW r,
           \A o \in OrderId : \A i \in Rows(o)' :
               courier'[o][i] = r /\ IsActive(o, i)'
                   => i \in Rows(o) /\ courier[o][i] = r /\ IsActive(o, i)
    PROVE  Load(r)' <= Load(r)
<1> DEFINE D == {d \in OrderId \X (1..MaxAttempts) :
                    LET o == d[1]  i == d[2]
                    IN i \in Rows(o) /\ courier[o][i] = r /\ IsActive(o, i)}
<1>1. D' \subseteq D /\ D \subseteq OrderId \X (1..MaxAttempts)
  OBVIOUS
<1>2. Cardinality(D') <= Cardinality(D)
  <2>. HIDE DEF D
  <2>. QED
    BY <1>1, FewDeliveries, FS_Subset
<1>. QED
  BY <1>2 DEF Load

-----------------------------------------------------------------------------
(* Those who wait *)

\* What a step leaves to a request u that did not take it: its workspace, and the
\* rows it has locked.
Apart(u) ==
    /\ req'[u] = req[u] /\ pc'[u] = pc[u] /\ todo'[u] = todo[u] /\ plan'[u] = plan[u]
    /\ counted'[u] = counted[u] /\ holds'[u] = holds[u]

RowsKept(u) ==
    /\ \A o \in OrderId : \A i \in Rows(o) :
          /\ i \in Rows(o)' /\ courier'[o][i] = courier[o][i]
          /\ DeliveryRow(o, i) \in holds[u] => leg'[o][i] = leg[o][i]
    /\ \A o \in OrderId : OrderRow(o) \in holds[u] => status'[o] = status[o] /\ leg'[o] = leg[o]
    /\ \A r \in Rider : RiderRow(r) \in holds[u] => Load(r)' <= Load(r)

LEMMA WaiterStays ==
    ASSUME Workspaces, NEW u \in Tx, At(u), Apart(u), RowsKept(u)
    PROVE  At(u)'
<1>1. KindAt(u)'
  BY DEF At, KindAt, Apart
<1>2. PlanAt(u)'
  <2>1. Planned(u)' = Planned(u)
    BY DEF Planned, Apart
  <2>2. ASSUME NEW o \in OrderId, NEW r \in Rider, plan[u][o] = r
        PROVE  RiderRow(r) \in holds[u] /\ Load(r)' <= counted[u][o]
    <3>1. RiderRow(r) \in holds[u] /\ Load(r) <= counted[u][o] /\ counted[u][o] \in Nat
      BY <2>2 DEF At, PlanAt, Workspaces
    <3>. QED
      BY <3>1, LoadIsNat DEF RowsKept
  <2>. QED
    BY <2>1, <2>2 DEF At, PlanAt, Apart
<1>3. OnlineAt(u)'
  BY DEF At, OnlineAt, Apart, RowsKept, Planned, HasActive, IsActive, Rows
<1>4. ReadyAt(u)'
  BY RequestFields DEF At, ReadyAt, Apart, RowsKept, Planned, HasActive, IsActive, Rows
<1>5. MoveAt(u)'
  BY RequestFields DEF At, MoveAt, Apart, RowsKept, OrderFits
<1>. QED
  BY <1>1, <1>2, <1>3, <1>4, <1>5 DEF At
-----------------------------------------------------------------------------
(* Steps that commit nothing *)

LEMMA NothingWritten ==
    ASSUME UNCHANGED rowVars
    PROVE  /\ Columns => Columns'
           /\ OneActive => OneActive'
           /\ DeliveredFits => DeliveredFits'
           /\ \A u \in Tx : RowsKept(u)
           /\ \A r \in Rider : Load(r)' = Load(r)
<1>1. UNCHANGED <<online, status, courier, leg>>
  BY DEF rowVars
<1>2. \A r \in Rider : Load(r)' = Load(r)
  BY <1>1 DEF Load, IsActive, Rows
<1>3. \A u \in Tx : RowsKept(u)
  BY <1>1, <1>2, LoadIsNat DEF RowsKept, Rows
<1>. QED
  BY <1>1, <1>2, <1>3 DEF Columns, OneActive, DeliveredFits, Rows, IsActive

LEMMA LocksTaken ==
    ASSUME Workspaces, LocksApart, NEW t \in Tx, NEW S, \A r \in S : Free(t, r), Lock(t, S)
    PROVE  /\ LocksApart'
           /\ holds' = [u \in Tx |-> holds'[u]]
           /\ holds'[t] = holds[t] \cup S
           /\ \A u \in Tx \ {t} : holds'[u] = holds[u]
<1>1. /\ holds' = [u \in Tx |-> holds'[u]]
      /\ holds'[t] = holds[t] \cup S
      /\ \A u \in Tx \ {t} : holds'[u] = holds[u]
  BY DEF Workspaces, Lock
<1>2. \A u \in Tx \ {t} : S \cap holds[u] = {}
  BY DEF Free
<1>. QED
  BY <1>1, <1>2 DEF LocksApart

LEMMA NoLockTaken ==
    ASSUME Workspaces, NEW t \in Tx, UNCHANGED holds
    PROVE  Lock(t, {})
BY DEF Workspaces, Lock

LEMMA Goes ==
    ASSUME Workspaces, NEW t \in Tx, NEW l \in Places, Goto(t, l)
    PROVE  /\ pc' \in [Tx -> Places] /\ pc'[t] = l
           /\ \A u \in Tx \ {t} : pc'[u] = pc[u]
BY DEF Workspaces, Goto

LEMMA OwnStep ==
    ASSUME TxInv, NEW t \in Tx, UNCHANGED rowVars, Workspaces', LocksApart',
           \A u \in Tx \ {t} : Apart(u), At(t)'
    PROVE  TxInv'
<1>1. \A u \in Tx \ {t} : At(u)'
  BY NothingWritten, WaiterStays DEF TxInv
<1>. QED
  BY <1>1, NothingWritten DEF TxInv

\* A step of t that locks the rows in S and goes to l.
LEMMA WorkStep ==
    ASSUME TxInv, NEW t \in Tx, UNCHANGED rowVars, UNCHANGED req,
           NEW l \in Places, Goto(t, l),
           NEW S, \A r \in S : Free(t, r), Lock(t, S),
           todo' \in [Tx -> SUBSET OrderId],
           plan' \in [Tx -> [OrderId -> Rider \cup {Nobody}]],
           counted' \in [Tx -> [OrderId -> Nat]],
           \A u \in Tx \ {t} : todo'[u] = todo[u] /\ plan'[u] = plan[u] /\ counted'[u] = counted[u],
           At(t)'
    PROVE  TxInv'
<1>1. pc' \in [Tx -> Places] /\ \A u \in Tx \ {t} : pc'[u] = pc[u]
  BY Goes DEF TxInv
<1>2. /\ LocksApart' /\ holds' = [u \in Tx |-> holds'[u]]
      /\ \A u \in Tx \ {t} : holds'[u] = holds[u]
  BY LocksTaken DEF TxInv
<1>3. Workspaces' /\ \A u \in Tx \ {t} : Apart(u)
  BY <1>1, <1>2 DEF TxInv, Workspaces, Apart
<1>. QED
  BY <1>2, <1>3, OwnStep

LEMMA EndedIs ==
    ASSUME Workspaces, LocksApart, NEW t \in Tx, Ended(t)
    PROVE  /\ Workspaces' /\ LocksApart'
           /\ At(t)' /\ \A u \in Tx \ {t} : Apart(u)
<1>1. /\ pc' \in [Tx -> Places] /\ pc'[t] = "idle"
      /\ \A u \in Tx \ {t} : pc'[u] = pc[u]
  BY Goes DEF Ended, Places
<1>2. /\ plan' \in [Tx -> [OrderId -> Rider \cup {Nobody}]] /\ plan'[t] = NoPlan
      /\ \A u \in Tx \ {t} : plan'[u] = plan[u]
  BY DEF Ended, Workspaces, NoPlan, Nobody
<1>3. /\ req' \in [Tx -> Request \cup {NoRequest}] /\ req'[t].kind = "none"
      /\ todo' \in [Tx -> SUBSET OrderId] /\ counted' \in [Tx -> [OrderId -> Nat]]
      /\ holds' = [u \in Tx |-> holds'[u]] /\ holds'[t] = {}
      /\ \A u \in Tx \ {t} : /\ req'[u] = req[u] /\ todo'[u] = todo[u]
                             /\ counted'[u] = counted[u] /\ holds'[u] = holds[u]
  BY DEF Ended, Workspaces, NoRequest
<1>4. Workspaces'
  BY <1>1, <1>2, <1>3 DEF Workspaces
<1>5. LocksApart'
  BY <1>3 DEF LocksApart
<1>6. At(t)'
  <2>1. Planned(t)' = {} /\ \A o \in OrderId : plan'[t][o] \notin Rider
    BY <1>2, DispatchTxAssumption DEF Planned, NoPlan, Nobody
  <2>. QED
    BY <1>1, <1>3, <2>1 DEF At, KindAt, PlanAt, OnlineAt, ReadyAt, MoveAt, Moves
<1>. QED
  BY <1>1, <1>2, <1>3, <1>4, <1>5, <1>6 DEF Apart

LEMMA AbortKeeps ==
    ASSUME TxInv, NEW t \in Tx, Abort(t)
    PROVE  TxInv'
BY EndedIs, OwnStep DEF Abort, TxInv

\* At the start of a request nothing is planned and nothing is locked.
LEMMA StartKeeps ==
    ASSUME TxInv, NEW t \in Tx, NEW r \in Request, Start(t, r)
    PROVE  TxInv'
<1>1. /\ pc[t] = "idle" /\ req' = [req EXCEPT ![t] = r]
      /\ Goto(t, FirstStatement(r))
      /\ r.kind \in Moves => r.row \in Rows(r.order)
      /\ UNCHANGED <<rowVars, todo, plan, counted, holds>>
  BY DEF Start, Moves
<1>2. /\ FirstStatement(r) \in Places
      /\ r.kind = "online" => FirstStatement(r) \in {"list", "flag"}
      /\ r.kind = "ready" => FirstStatement(r) = "order"
      /\ r.kind \in Moves => FirstStatement(r) = "delivery"
      /\ r.kind \in Moves \cup {"online", "ready"}
  BY DEF FirstStatement, Places, Moves, Request
<1>3. /\ pc' \in [Tx -> Places] /\ pc'[t] = FirstStatement(r)
      /\ \A u \in Tx \ {t} : pc'[u] = pc[u]
  BY <1>1, <1>2, Goes DEF TxInv
<1>4. /\ req'[t] = r /\ req' \in [Tx -> Request \cup {NoRequest}]
      /\ \A u \in Tx \ {t} : req'[u] = req[u]
  BY <1>1 DEF TxInv, Workspaces
<1>5. Workspaces' /\ LocksApart' /\ \A u \in Tx \ {t} : Apart(u)
  BY <1>1, <1>3, <1>4 DEF TxInv, Workspaces, LocksApart, Apart
<1>6. Planned(t) = {} /\ holds[t] = {} /\ \A o \in OrderId : plan[t][o] \notin Rider
  BY <1>1, DispatchTxAssumption DEF TxInv, At, KindAt, PlanAt, Planned, Nobody
<1>7. UNCHANGED <<courier, leg, status>>
  BY <1>1 DEF rowVars
<1>8. KindAt(t)' /\ OnlineAt(t)' /\ ReadyAt(t)'
  BY <1>1, <1>2, <1>3, <1>4, <1>6 DEF KindAt, OnlineAt, ReadyAt, Moves
<1>9. PlanAt(t)'
  BY <1>1, <1>6 DEF PlanAt, Planned
<1>10. MoveAt(t)'
  BY <1>1, <1>2, <1>3, <1>4, <1>7 DEF MoveAt, Rows, Moves
<1>. QED
  BY <1>1, <1>5, <1>8, <1>9, <1>10, OwnStep DEF At

LEMMA GoOfflineKeeps ==
    ASSUME TxInv, NEW r \in Rider, GoOffline(r)
    PROVE  TxInv'
<1>1. UNCHANGED <<status, courier, leg>> /\ UNCHANGED txVars /\ online' \subseteq online
  BY DEF GoOffline
<1>2. Columns' /\ OneActive' /\ DeliveredFits'
  BY <1>1 DEF TxInv, Columns, OneActive, DeliveredFits, Rows, IsActive
<1>3. Workspaces' /\ LocksApart' /\ \A u \in Tx : Apart(u)
  BY <1>1 DEF txVars, TxInv, Workspaces, LocksApart, Apart
<1>4. \A k \in Rider : Load(k)' = Load(k)
  BY <1>1 DEF Load, IsActive, Rows
<1>5. \A u \in Tx : RowsKept(u)
  BY <1>1, <1>4, LoadIsNat DEF RowsKept, Rows
<1>. QED
  BY <1>2, <1>3, <1>5, WaiterStays DEF TxInv
\* A step of t that leaves its plan alone: besides what it locks and where it goes
\* it may only shorten or fill the list of orders to look at.
LEMMA PlainStep ==
    ASSUME TxInv, NEW t \in Tx, UNCHANGED <<rowVars, req, plan, counted>>,
           NEW l \in Places \ {"commit"}, Goto(t, l),
           NEW S, \A r \in S : Free(t, r), Lock(t, S),
           todo' \in [Tx -> SUBSET OrderId],
           \A u \in Tx \ {t} : todo'[u] = todo[u],
           pc[t] # "commit",
           KindAt(t)', OnlineAt(t)', ReadyAt(t)', MoveAt(t)'
    PROVE  TxInv'
<1>1. pc'[t] = l /\ holds'[t] = holds[t] \cup S
  BY Goes, LocksTaken DEF TxInv
<1>2. PlanAt(t)'
  <2>1. Planned(t)' = Planned(t)
    BY DEF Planned
  <2>2. \A r \in Rider : Load(r)' = Load(r)
    BY NothingWritten
  <2>. QED
    BY <1>1, <2>1, <2>2 DEF TxInv, At, PlanAt
<1>3. At(t)'
  BY <1>2 DEF At
<1>4. /\ plan' \in [Tx -> [OrderId -> Rider \cup {Nobody}]]
      /\ counted' \in [Tx -> [OrderId -> Nat]]
      /\ UNCHANGED rowVars /\ UNCHANGED req
      /\ \A u \in Tx \ {t} : todo'[u] = todo[u] /\ plan'[u] = plan[u] /\ counted'[u] = counted[u]
  BY DEF TxInv, Workspaces
<1>. QED
  BY <1>3, <1>4, WorkStep

LEMMA SetFlagKeeps ==
    ASSUME TxInv, NEW t \in Tx, SetFlag(t)
    PROVE  TxInv'
<1> DEFINE S == {RiderRow(req[t].rider)}
<1>1. /\ pc[t] = "flag" /\ \A r \in S : Free(t, r)
      /\ Lock(t, S) /\ Goto(t, "list") /\ "list" \in Places \ {"commit"}
      /\ UNCHANGED <<rowVars, req, todo, plan, counted>>
  BY DEF SetFlag, Places
<1>2. pc'[t] = "list" /\ holds'[t] = holds[t] \cup S /\ req[t].kind = "online"
  BY <1>1, Goes, LocksTaken DEF TxInv, At, KindAt
<1>3. KindAt(t)' /\ OnlineAt(t)' /\ ReadyAt(t)' /\ MoveAt(t)'
  BY <1>1, <1>2 DEF TxInv, At, KindAt, OnlineAt, ReadyAt, MoveAt, OrderRow, RiderRow, Moves
<1>4. todo' \in [Tx -> SUBSET OrderId]
  BY <1>1 DEF TxInv, Workspaces
<1>. HIDE DEF S
<1>. QED
  BY <1>1, <1>3, <1>4, PlainStep

LEMMA NextOrderIs ==
    ASSUME Workspaces, NEW t \in Tx, NEW rest \in SUBSET OrderId, NextOrder(t, rest)
    PROVE  /\ todo' \in [Tx -> SUBSET OrderId]
           /\ \A u \in Tx \ {t} : todo'[u] = todo[u]
           /\ \E l \in {"insert", "lookup"} : Goto(t, l)
BY DEF Workspaces, NextOrder

\* A pass that looks at committed rows only goes on without a lock on an order.
LEMMA PassStep ==
    ASSUME TxInv, NEW t \in Tx, UNCHANGED <<rowVars, req, plan, counted, holds>>,
           pc[t] \in {"list", "lookup"},
           NEW l \in {"insert", "lookup", "pick"}, Goto(t, l),
           todo' \in [Tx -> SUBSET OrderId], \A u \in Tx \ {t} : todo'[u] = todo[u]
    PROVE  TxInv'
<1>1. /\ l \in Places \ {"commit"} /\ Lock(t, {}) /\ pc[t] # "commit"
      /\ \A r \in {} : Free(t, r)
  BY NoLockTaken DEF Places, TxInv
<1>2. pc'[t] = l /\ req[t].kind = "online"
  BY <1>1, Goes DEF TxInv, At, KindAt
<1>3. KindAt(t)' /\ OnlineAt(t)' /\ ReadyAt(t)' /\ MoveAt(t)'
  BY <1>2 DEF TxInv, At, KindAt, OnlineAt, ReadyAt, MoveAt, Moves
<1>. QED
  BY <1>1, <1>3, PlainStep

LEMMA ListReadyKeeps ==
    ASSUME TxInv, NEW t \in Tx, ListReady(t)
    PROVE  TxInv'
<1>1. /\ pc[t] = "list" /\ UNCHANGED <<rowVars, req, plan, counted, holds>>
      /\ NextOrder(t, {o \in OrderId : status[o] = "ready_for_pickup"})
  BY DEF ListReady
<1>2. {o \in OrderId : status[o] = "ready_for_pickup"} \in SUBSET OrderId
  OBVIOUS
<1>. QED
  BY <1>1, <1>2, NextOrderIs, PassStep DEF TxInv

LEMMA LookUpKeeps ==
    ASSUME TxInv, NEW t \in Tx, LookUp(t)
    PROVE  TxInv'
<1> DEFINE o == Earliest(todo[t])
<1>1. CASE Abort(t)
  BY <1>1, AbortKeeps
<1>2. CASE ~Abort(t)
  <2>1. /\ pc[t] = "lookup" /\ UNCHANGED <<rowVars, req, plan, counted, holds>>
        /\ NextOrder(t, todo[t] \ {o}) \/ (Goto(t, "pick") /\ UNCHANGED todo)
    BY <1>2 DEF LookUp
  <2>2. todo[t] \ {o} \in SUBSET OrderId /\ todo \in [Tx -> SUBSET OrderId]
    BY DEF TxInv, Workspaces
  <2>3. CASE NextOrder(t, todo[t] \ {o})
    BY <2>1, <2>2, <2>3, NextOrderIs, PassStep DEF TxInv
  <2>4. CASE Goto(t, "pick") /\ UNCHANGED todo
    BY <2>1, <2>2, <2>4, PassStep
  <2>. QED
    BY <2>1, <2>3, <2>4
<1>. QED
  BY <1>1, <1>2

\* What a choice leaves behind: the chosen rider is locked, and has been counted.
LEMMA PickIs ==
    ASSUME TxInv, NEW t \in Tx, NEW o, NEW S \in SUBSET Lockable(t), Pick(t, o, S),
           UNCHANGED rowVars
    PROVE  /\ plan' \in [Tx -> [OrderId -> Rider \cup {Nobody}]]
           /\ counted' \in [Tx -> [OrderId -> Nat]]
           /\ \A u \in Tx \ {t} : plan'[u] = plan[u] /\ counted'[u] = counted[u]
           /\ \A r \in {RiderRow(k) : k \in Lockable(t)} : Free(t, r)
           /\ Lock(t, {RiderRow(k) : k \in Lockable(t)})
           /\ Planned(t)' \subseteq Planned(t) \cup {o}
           /\ \A u \in OrderId : \A r \in Rider :
                 plan'[t][u] = r => RiderRow(r) \in holds'[t] /\ Load(r)' <= counted'[t][u]
<1>1. PICK k \in Rider :
          /\ k \in S /\ plan' = [plan EXCEPT ![t][o] = k]
          /\ counted' = [counted EXCEPT ![t][o] = Load(k)]
          /\ Lock(t, {RiderRow(r) : r \in Lockable(t)})
  BY DEF Pick, LeastLoaded
<1>2. Load(k) \in Nat /\ \A r \in Rider : Load(r)' = Load(r)
  BY LoadIsNat, NothingWritten
<1>3. \A r \in {RiderRow(j) : j \in Lockable(t)} : Free(t, r)
  BY DEF Lockable
<1>4. holds'[t] = holds[t] \cup {RiderRow(r) : r \in Lockable(t)}
  BY <1>1, <1>3, LocksTaken DEF TxInv
<1>5. /\ plan[t] \in [OrderId -> Rider \cup {Nobody}] /\ counted[t] \in [OrderId -> Nat]
      /\ plan' = [plan EXCEPT ![t] = [plan[t] EXCEPT ![o] = k]]
      /\ counted' = [counted EXCEPT ![t] = [counted[t] EXCEPT ![o] = Load(k)]]
  BY <1>1 DEF TxInv, Workspaces
<1>6. /\ [plan[t] EXCEPT ![o] = k] \in [OrderId -> Rider \cup {Nobody}]
      /\ [counted[t] EXCEPT ![o] = Load(k)] \in [OrderId -> Nat]
  BY <1>2, <1>5
<1>7. /\ plan' \in [Tx -> [OrderId -> Rider \cup {Nobody}]]
      /\ counted' \in [Tx -> [OrderId -> Nat]]
      /\ \A u \in Tx \ {t} : plan'[u] = plan[u] /\ counted'[u] = counted[u]
      /\ plan'[t] = [plan[t] EXCEPT ![o] = k]
      /\ counted'[t] = [counted[t] EXCEPT ![o] = Load(k)]
  BY <1>5, <1>6 DEF TxInv, Workspaces
<1>8. Planned(t)' \subseteq Planned(t) \cup {o}
  BY <1>5, <1>7 DEF Planned
<1>9. ASSUME NEW u \in OrderId, NEW r \in Rider, plan'[t][u] = r
      PROVE  RiderRow(r) \in holds'[t] /\ Load(r)' <= counted'[t][u]
  <2>1. CASE u = o
    BY <1>1, <1>2, <1>4, <1>5, <1>7, <1>9, <2>1
  <2>2. CASE u # o
    BY <1>2, <1>4, <1>5, <1>7, <1>9, <2>2 DEF TxInv, At, PlanAt
  <2>. QED
    BY <2>1, <2>2
<1>. QED
  BY <1>1, <1>3, <1>7, <1>8, <1>9
LEMMA PickForWaitingKeeps ==
    ASSUME TxInv, NEW t \in Tx, PickForWaiting(t)
    PROVE  TxInv'
<1> DEFINE o == Earliest(todo[t])
           S == {RiderRow(k) : k \in Lockable(t)}
<1>1. /\ pc[t] = "pick" /\ req[t].kind = "online" /\ UNCHANGED <<rowVars, req>>
      /\ \/ NextOrder(t, {}) /\ UNCHANGED <<plan, counted, holds>>
         \/ Pick(t, o, Lockable(t)) /\ NextOrder(t, todo[t] \ {o})
  BY DEF PickForWaiting
<1>2. todo[t] \ {o} \in SUBSET OrderId /\ {} \in SUBSET OrderId
  BY DEF TxInv, Workspaces
<1>3. PICK l \in {"insert", "lookup"} : Goto(t, l)
  BY <1>1, <1>2, NextOrderIs DEF TxInv
<1>4. todo' \in [Tx -> SUBSET OrderId] /\ \A u \in Tx \ {t} : todo'[u] = todo[u]
  BY <1>1, <1>2, NextOrderIs DEF TxInv
<1>5. l \in Places \ {"commit"} /\ pc'[t] = l
  BY <1>3, Goes DEF TxInv, Places
<1>6. \A u \in OrderId : OrderRow(u) \notin holds[t]
  BY <1>1 DEF TxInv, At, OnlineAt
<1>7. CASE UNCHANGED <<plan, counted, holds>>
  <2>1. Lock(t, {}) /\ \A r \in {} : Free(t, r)
    BY <1>7, NoLockTaken DEF TxInv
  <2>2. KindAt(t)' /\ OnlineAt(t)' /\ ReadyAt(t)' /\ MoveAt(t)'
    BY <1>1, <1>3, <1>5, <1>6, <1>7 DEF KindAt, OnlineAt, ReadyAt, MoveAt, Moves
  <2>. QED
    BY <1>1, <1>3, <1>4, <1>5, <1>7, <2>1, <2>2, PlainStep
<1>8. CASE Pick(t, o, Lockable(t))
  <2>1. /\ plan' \in [Tx -> [OrderId -> Rider \cup {Nobody}]]
        /\ counted' \in [Tx -> [OrderId -> Nat]]
        /\ \A u \in Tx \ {t} : plan'[u] = plan[u] /\ counted'[u] = counted[u]
        /\ \A r \in S : Free(t, r)
        /\ Lock(t, S)
        /\ \A u \in OrderId : \A r \in Rider :
              plan'[t][u] = r => RiderRow(r) \in holds'[t] /\ Load(r)' <= counted'[t][u]
    <3>. HIDE DEF o
    <3>. QED
      BY <1>1, <1>8, PickIs
  <2>2. holds'[t] = holds[t] \cup S
    <3>. HIDE DEF S
    <3>. QED
      BY <2>1, LocksTaken DEF TxInv
  <2>3. KindAt(t)' /\ OnlineAt(t)' /\ ReadyAt(t)' /\ MoveAt(t)'
    BY <1>1, <1>3, <1>5, <1>6, <2>2
       DEF KindAt, OnlineAt, ReadyAt, MoveAt, Moves, OrderRow, RiderRow
  <2>4. At(t)'
    BY <1>1, <2>1, <2>3 DEF At, PlanAt
  <2>. HIDE DEF S
  <2>. QED
    BY <1>1, <1>3, <1>4, <1>5, <2>1, <2>4, WorkStep
<1>. QED
  BY <1>1, <1>7, <1>8

LEMMA InsertKeeps ==
    ASSUME TxInv, NEW t \in Tx, Insert(t)
    PROVE  TxInv'
<1> DEFINE o == Earliest(ToInsert(t))
           S == {OrderRow(o)}
<1>1. CASE Abort(t)
  BY <1>1, AbortKeeps
<1>2. CASE ~Abort(t)
  <2>1. /\ pc[t] = "insert" /\ \A r \in S : Free(t, r)
        /\ ~HasActive(o) /\ Lock(t, S)
        /\ UNCHANGED <<rowVars, req, pc, todo, plan, counted>>
    BY <1>2 DEF Insert
  <2>2. holds'[t] = holds[t] \cup S /\ req[t].kind = "online"
    <3>1. req[t].kind = "online"
      BY <2>1 DEF TxInv, At, KindAt
    <3>. HIDE DEF S
    <3>. QED
      BY <2>1, <3>1, LocksTaken DEF TxInv
  <2>3. OnlineAt(t)'
    <3>. SUFFICES ASSUME NEW u \in OrderId, OrderRow(u) \in holds'[t], u \in Planned(t)
                  PROVE  ~HasActive(u)'
      BY <2>1, <2>2 DEF OnlineAt, Planned
    <3>1. HasActive(u)' <=> HasActive(u)
      BY <2>1 DEF HasActive, IsActive, Rows, rowVars
    <3>2. CASE OrderRow(u) \in holds[t]
      BY <2>2, <3>1, <3>2 DEF TxInv, At, OnlineAt
    <3>3. CASE OrderRow(u) = OrderRow(o)
      <4>1. u = o
        BY <3>3 DEF OrderRow
      <4>. QED
        BY <2>1, <3>1, <4>1
    <3>. QED
      BY <2>2, <3>2, <3>3
  <2>4. KindAt(t)' /\ ReadyAt(t)' /\ MoveAt(t)'
    BY <2>1, <2>2 DEF KindAt, ReadyAt, MoveAt, Moves
  <2>5. /\ Goto(t, "insert") /\ "insert" \in Places \ {"commit"}
        /\ todo' \in [Tx -> SUBSET OrderId] /\ \A u \in Tx \ {t} : todo'[u] = todo[u]
    BY <2>1 DEF TxInv, Workspaces, Goto, Places
  <2>. HIDE DEF S
  <2>. QED
    BY <2>1, <2>3, <2>4, <2>5, PlainStep
<1>. QED
  BY <1>1, <1>2

LEMMA LockReadyOrderKeeps ==
    ASSUME TxInv, NEW t \in Tx, LockReadyOrder(t)
    PROVE  TxInv'
<1> DEFINE o == req[t].order
           S == {OrderRow(o)}
           l == IF HasActive(o) THEN "commit" ELSE "pick"
<1>1. CASE Abort(t)
  BY <1>1, AbortKeeps
<1>2. CASE ~Abort(t)
  <2>1. /\ pc[t] = "order" /\ req[t].kind = "ready" /\ \A r \in S : Free(t, r)
        /\ CanTransition(status[o], "ready_for_pickup")
        /\ Lock(t, S) /\ Goto(t, l)
        /\ UNCHANGED <<rowVars, req, todo, plan, counted>>
    BY <1>2 DEF LockReadyOrder
  <2>2. l \in Places
    BY DEF Places
  <2>3. holds'[t] = holds[t] \cup S
    <3>. HIDE DEF S
    <3>. QED
      BY <2>1, LocksTaken DEF TxInv
  <2>4. pc'[t] = l
    <3>. HIDE DEF l
    <3>. QED
      BY <2>1, <2>2, Goes DEF TxInv
  <2>5. Planned(t) = {} /\ Planned(t)' = {} /\ \A u \in OrderId : plan'[t][u] \notin Rider
    BY <2>1, DispatchTxAssumption DEF TxInv, At, PlanAt, Planned, Nobody
  <2>6. UNCHANGED <<status, leg, courier>>
    BY <2>1 DEF rowVars
  <2>7. KindAt(t)' /\ OnlineAt(t)' /\ MoveAt(t)' /\ PlanAt(t)'
    BY <2>1, <2>4, <2>5 DEF KindAt, OnlineAt, MoveAt, PlanAt, Moves
  <2>8. ReadyAt(t)'
    BY <2>1, <2>3, <2>4, <2>5, <2>6 DEF ReadyAt, HasActive, IsActive, Rows
  <2>9. /\ todo' \in [Tx -> SUBSET OrderId]
        /\ plan' \in [Tx -> [OrderId -> Rider \cup {Nobody}]]
        /\ counted' \in [Tx -> [OrderId -> Nat]]
        /\ \A u \in Tx \ {t} : todo'[u] = todo[u] /\ plan'[u] = plan[u] /\ counted'[u] = counted[u]
    BY <2>1 DEF TxInv, Workspaces
  <2>10. At(t)'
    BY <2>7, <2>8 DEF At
  <2>. HIDE DEF S, l
  <2>. QED
    BY <2>1, <2>2, <2>9, <2>10, WorkStep
<1>. QED
  BY <1>1, <1>2

LEMMA LockDeliveryKeeps ==
    ASSUME TxInv, NEW t \in Tx, LockDelivery(t)
    PROVE  TxInv'
<1> DEFINE o == req[t].order
           i == req[t].row
           S == {DeliveryRow(o, i)}
<1>1. CASE Abort(t)
  BY <1>1, AbortKeeps
<1>2. CASE ~Abort(t)
  <2>1. /\ pc[t] = "delivery" /\ \A r \in S : Free(t, r)
        /\ courier[o][i] = req[t].rider /\ req[t].kind \in DeliveryAllowed[leg[o][i]]
        /\ Lock(t, S) /\ Goto(t, "order") /\ "order" \in Places \ {"commit"}
        /\ UNCHANGED <<rowVars, req, todo, plan, counted>>
    BY <1>2 DEF LockDelivery, Places
  <2>2. holds'[t] = holds[t] \cup S /\ pc'[t] = "order" /\ req[t].kind \in Moves
    <3>1. req[t].kind \in Moves
      BY <2>1 DEF TxInv, At, KindAt
    <3>. HIDE DEF S
    <3>. QED
      BY <2>1, <3>1, LocksTaken, Goes DEF TxInv
  <2>3. UNCHANGED <<status, leg, courier>>
    BY <2>1 DEF rowVars
  <2>4. KindAt(t)' /\ OnlineAt(t)' /\ ReadyAt(t)'
    BY <2>1, <2>2 DEF KindAt, OnlineAt, ReadyAt, Moves
  <2>5. MoveAt(t)'
    BY <2>1, <2>2, <2>3 DEF TxInv, At, MoveAt, Rows
  <2>6. todo' \in [Tx -> SUBSET OrderId] /\ \A u \in Tx \ {t} : todo'[u] = todo[u]
    BY <2>1 DEF TxInv, Workspaces
  <2>. HIDE DEF S
  <2>. QED
    BY <2>1, <2>4, <2>5, <2>6, PlainStep
<1>. QED
  BY <1>1, <1>2

LEMMA LockMovedOrderKeeps ==
    ASSUME TxInv, NEW t \in Tx, LockMovedOrder(t)
    PROVE  TxInv'
<1> DEFINE o == req[t].order
           S == {OrderRow(o)}
           l == IF req[t].kind = "failed" THEN "pick" ELSE "commit"
<1>1. CASE Abort(t)
  BY <1>1, AbortKeeps
<1>2. CASE ~Abort(t)
  <2>1. /\ pc[t] = "order" /\ req[t].kind # "ready" /\ \A r \in S : Free(t, r)
        /\ OrderFits(t)
        /\ Lock(t, S) /\ Goto(t, l) /\ l \in Places
        /\ UNCHANGED <<rowVars, req, todo, plan, counted>>
    BY <1>2 DEF LockMovedOrder, Places
  <2>2. req[t].kind \in Moves
    BY <2>1 DEF TxInv, At, KindAt
  <2>3. holds'[t] = holds[t] \cup S
    <3>. HIDE DEF S
    <3>. QED
      BY <2>1, LocksTaken DEF TxInv
  <2>4. pc'[t] = l
    <3>. HIDE DEF l
    <3>. QED
      BY <2>1, Goes DEF TxInv
  <2>5. Planned(t)' = {} /\ \A u \in OrderId : plan'[t][u] \notin Rider
    BY <2>1, <2>2, DispatchTxAssumption DEF TxInv, At, PlanAt, Planned, Nobody, Moves
  <2>6. UNCHANGED <<status, leg, courier>>
    BY <2>1 DEF rowVars
  <2>7. KindAt(t)' /\ OnlineAt(t)' /\ ReadyAt(t)' /\ PlanAt(t)'
    BY <2>1, <2>2, <2>4, <2>5 DEF KindAt, OnlineAt, ReadyAt, PlanAt, Moves
  <2>8. MoveAt(t)'
    BY <2>1, <2>2, <2>3, <2>4, <2>6 DEF TxInv, At, MoveAt, Rows, OrderFits
  <2>9. /\ todo' \in [Tx -> SUBSET OrderId]
        /\ plan' \in [Tx -> [OrderId -> Rider \cup {Nobody}]]
        /\ counted' \in [Tx -> [OrderId -> Nat]]
        /\ \A u \in Tx \ {t} : todo'[u] = todo[u] /\ plan'[u] = plan[u] /\ counted'[u] = counted[u]
    BY <2>1 DEF TxInv, Workspaces
  <2>10. At(t)'
    BY <2>7, <2>8 DEF At
  <2>. HIDE DEF S, l
  <2>. QED
    BY <2>1, <2>9, <2>10, WorkStep
<1>. QED
  BY <1>1, <1>2
\* `ready` or `fail` picks: it has its order locked, and what it may plan is a row
\* of that order.
LEMMA PickForOrderKeeps ==
    ASSUME TxInv, NEW t \in Tx, PickForOrder(t)
    PROVE  TxInv'
<1> DEFINE S == {RiderRow(k) : k \in Lockable(t)}
           o == req[t].order
<1>1. /\ pc[t] = "pick" /\ req[t].kind \in {"ready", "failed"} /\ UNCHANGED <<rowVars, req, todo>>
      /\ \/ UNCHANGED <<plan, counted>> /\ Lock(t, S)
         \/ \E C \in SUBSET Lockable(t) : Pick(t, o, C)
      /\ Goto(t, "commit") /\ "commit" \in Places
  BY DEF PickForOrder, Places
<1>2. pc'[t] = "commit" /\ Planned(t) = {}
  BY <1>1, Goes DEF TxInv, At, PlanAt
<1>3. \A r \in S : Free(t, r)
  BY DEF Lockable
<1>4. /\ plan' \in [Tx -> [OrderId -> Rider \cup {Nobody}]]
      /\ counted' \in [Tx -> [OrderId -> Nat]]
      /\ \A u \in Tx \ {t} : plan'[u] = plan[u] /\ counted'[u] = counted[u]
      /\ Lock(t, S) /\ Planned(t)' \subseteq {o}
      /\ \A u \in OrderId : \A r \in Rider :
            plan'[t][u] = r => RiderRow(r) \in holds'[t] /\ Load(r)' <= counted'[t][u]
  <2>1. CASE UNCHANGED <<plan, counted>> /\ Lock(t, S)
    <3>1. Planned(t)' = {} /\ \A u \in OrderId : plan'[t][u] \notin Rider
      BY <1>2, <2>1, DispatchTxAssumption DEF Planned, Nobody
    <3>. QED
      BY <2>1, <3>1 DEF TxInv, Workspaces
  <2>2. ASSUME NEW C \in SUBSET Lockable(t), Pick(t, o, C)
        PROVE  <1>4
    <3>. HIDE DEF o
    <3>. QED
      BY <1>1, <1>2, <2>2, PickIs
  <2>. QED
    BY <1>1, <2>1, <2>2
<1>5. holds[t] \subseteq holds'[t]
  <2>. HIDE DEF S
  <2>. QED
    BY <1>3, <1>4, LocksTaken DEF TxInv
<1>6. UNCHANGED <<status, leg, courier>>
  BY <1>1 DEF rowVars
<1>7. KindAt(t)' /\ OnlineAt(t)' /\ PlanAt(t)'
  BY <1>1, <1>2, <1>4 DEF KindAt, OnlineAt, PlanAt, Moves
<1>8. ReadyAt(t)' /\ MoveAt(t)'
  BY <1>1, <1>2, <1>5, <1>6
     DEF TxInv, At, ReadyAt, MoveAt, HasActive, IsActive, Rows, OrderFits, Moves
<1>9. todo' \in [Tx -> SUBSET OrderId] /\ \A u \in Tx \ {t} : todo'[u] = todo[u]
  BY <1>1 DEF TxInv, Workspaces
<1>10. At(t)'
  BY <1>7, <1>8 DEF At
<1>. HIDE DEF S
<1>. QED
  BY <1>1, <1>3, <1>4, <1>9, <1>10, WorkStep

-----------------------------------------------------------------------------
(* Commits *)

\* What a commit of t leaves in the delivery rows.
LEMMA CommitRows ==
    ASSUME Columns, Workspaces, NEW t \in Tx,
           NEW newStatus \in [OrderId -> OrderStatus],
           NEW newLeg \in [OrderId -> Seq(DeliveryStatus)],
           \A o \in OrderId : Len(newLeg[o]) = Len(leg[o]),
           Commit(t, newStatus, newLeg), online' \subseteq Rider
    PROVE  /\ Columns' /\ status' = newStatus
           /\ \A o \in OrderId : \A i \in Rows(o) :
                 i \in Rows(o)' /\ courier'[o][i] = courier[o][i] /\ leg'[o][i] = newLeg[o][i]
           /\ \A o \in OrderId : \A i \in Rows(o)' : i \notin Rows(o) =>
                 o \in Planned(t) /\ courier'[o][i] = plan[t][o] /\ leg'[o][i] = "assigned"
                 /\ i = Len(leg[o]) + 1
           /\ \A o \in OrderId \ Planned(t) : leg'[o] = newLeg[o]
<1>1. /\ status' = newStatus
      /\ courier' = [o \in OrderId |-> IF o \in Planned(t) THEN Append(courier[o], plan[t][o])
                                       ELSE courier[o]]
      /\ leg' = [o \in OrderId |-> IF o \in Planned(t) THEN Append(newLeg[o], "assigned")
                                   ELSE newLeg[o]]
  BY DEF Commit
<1>2. ASSUME NEW o \in OrderId
      PROVE  /\ courier'[o] \in Seq(Rider) /\ leg'[o] \in Seq(DeliveryStatus)
             /\ Len(courier'[o]) = Len(leg'[o])
             /\ \A i \in Rows(o) :
                   i \in Rows(o)' /\ courier'[o][i] = courier[o][i] /\ leg'[o][i] = newLeg[o][i]
             /\ \A i \in Rows(o)' : i \notin Rows(o) =>
                   /\ o \in Planned(t) /\ courier'[o][i] = plan[t][o] /\ leg'[o][i] = "assigned"
                   /\ i = Len(leg[o]) + 1
  <2>1. /\ courier[o] \in Seq(Rider) /\ leg[o] \in Seq(DeliveryStatus)
        /\ newLeg[o] \in Seq(DeliveryStatus)
        /\ Len(courier[o]) = Len(leg[o]) /\ Len(newLeg[o]) = Len(leg[o])
    BY DEF Columns
  <2>2. CASE o \in Planned(t)
    <3>1. plan[t][o] \in Rider /\ "assigned" \in DeliveryStatus
      BY <2>2, PlannedIs DEF DeliveryStatus
    <3>2. courier'[o] = Append(courier[o], plan[t][o]) /\ leg'[o] = Append(newLeg[o], "assigned")
      BY <1>1, <2>2
    <3>. QED
      BY <2>1, <2>2, <3>1, <3>2 DEF Rows
  <2>3. CASE o \notin Planned(t)
    BY <1>1, <2>1, <2>3 DEF Rows
  <2>. QED
    BY <2>2, <2>3
<1>3. courier' \in [OrderId -> Seq(Rider)] /\ leg' \in [OrderId -> Seq(DeliveryStatus)]
  BY <1>1, <1>2
<1>4. Columns'
  BY <1>1, <1>2, <1>3 DEF Columns
<1>5. \A o \in OrderId \ Planned(t) : leg'[o] = newLeg[o]
  BY <1>1
<1>. QED
  BY <1>1, <1>2, <1>4, <1>5

\* A commit keeps the invariant when it writes only what it has locked, frees
\* riders or keeps them, and adds a row only to an order that has no active one.
LEMMA CommitStep ==
    ASSUME TxInv, NEW t \in Tx,
           NEW newStatus \in [OrderId -> OrderStatus],
           NEW newLeg \in [OrderId -> Seq(DeliveryStatus)],
           \A o \in OrderId : Len(newLeg[o]) = Len(leg[o]),
           Commit(t, newStatus, newLeg), online' \subseteq Rider,
           \A o \in Planned(t) :
               OrderRow(o) \in holds[t] /\ \A i \in Rows(o) : newLeg[o][i] \notin ActiveStatuses,
           \A o \in OrderId : newStatus[o] # status[o] \/ newLeg[o] # leg[o] => OrderRow(o) \in holds[t],
           \A o \in OrderId : \A i \in Rows(o) :
               /\ newLeg[o][i] # leg[o][i] => DeliveryRow(o, i) \in holds[t]
               /\ newLeg[o][i] \in ActiveStatuses => IsActive(o, i)
               /\ newLeg[o][i] = "delivered" => newStatus[o] = "delivered"
    PROVE  TxInv'
<1>1. /\ Columns' /\ status' = newStatus
      /\ \A o \in OrderId : \A i \in Rows(o) :
            i \in Rows(o)' /\ courier'[o][i] = courier[o][i] /\ leg'[o][i] = newLeg[o][i]
      /\ \A o \in OrderId : \A i \in Rows(o)' : i \notin Rows(o) =>
            o \in Planned(t) /\ courier'[o][i] = plan[t][o] /\ leg'[o][i] = "assigned"
            /\ i = Len(leg[o]) + 1
      /\ \A o \in OrderId \ Planned(t) : leg'[o] = newLeg[o]
  <2>1. Columns /\ Workspaces
    BY DEF TxInv
  <2>2. \A o \in OrderId : Len(newLeg[o]) = Len(leg[o])
    OBVIOUS
  <2>3. Commit(t, newStatus, newLeg) /\ online' \subseteq Rider
    OBVIOUS
  <2>. QED
    BY ONLY <2>1, <2>2, <2>3, CommitRows, t \in Tx, newStatus \in [OrderId -> OrderStatus],
            newLeg \in [OrderId -> Seq(DeliveryStatus)]
<1>2. /\ Workspaces' /\ LocksApart'
      /\ At(t)' /\ \A u \in Tx \ {t} : Apart(u)
  BY EndedIs DEF Commit, TxInv
<1>3. OneActive'
  <2>. SUFFICES ASSUME NEW o \in OrderId, NEW i \in Rows(o)', NEW j \in Rows(o)',
                       leg'[o][i] \in ActiveStatuses, leg'[o][j] \in ActiveStatuses
                PROVE  i = j
    BY DEF OneActive, IsActive, Rows
  <2>1. CASE i \in Rows(o) /\ j \in Rows(o)
    BY <1>1, <2>1 DEF TxInv, OneActive, IsActive
  <2>2. CASE i \notin Rows(o) \/ j \notin Rows(o)
    BY <1>1, <2>2
  <2>. QED
    BY <2>1, <2>2
<1>4. DeliveredFits'
  BY <1>1 DEF DeliveredFits, Rows
<1>5. ASSUME NEW u \in Tx \ {t} PROVE RowsKept(u)
  <2>1. holds[t] \cap holds[u] = {}
    BY DEF TxInv, LocksApart
  <2>2. ASSUME NEW o \in OrderId, OrderRow(o) \in holds[u]
        PROVE  status'[o] = status[o] /\ leg'[o] = leg[o]
    BY <1>1, <2>1, <2>2
  <2>3. ASSUME NEW o \in OrderId, NEW i \in Rows(o)
        PROVE  /\ i \in Rows(o)' /\ courier'[o][i] = courier[o][i]
               /\ DeliveryRow(o, i) \in holds[u] => leg'[o][i] = leg[o][i]
    BY <1>1, <2>1
  <2>4. ASSUME NEW r \in Rider, RiderRow(r) \in holds[u]
        PROVE  Load(r)' <= Load(r)
    <3>1. ASSUME NEW o \in OrderId, NEW i \in Rows(o)', courier'[o][i] = r, IsActive(o, i)'
          PROVE  i \in Rows(o) /\ courier[o][i] = r /\ IsActive(o, i)
      <4>1. i \in Rows(o)
        <5>1. ASSUME i \notin Rows(o) PROVE FALSE
          <6>1. o \in Planned(t) /\ plan[t][o] = r
            BY <1>1, <3>1, <5>1
          <6>2. RiderRow(r) \in holds[t]
            BY <6>1 DEF TxInv, At, PlanAt
          <6>. QED
            BY <2>1, <2>4, <6>2
        <5>. QED
          BY <5>1
      <4>. QED
        BY <1>1, <3>1, <4>1 DEF IsActive
    <3>. QED
      BY <3>1, LoadFalls
  <2>. QED
    BY <2>2, <2>3, <2>4 DEF RowsKept
<1>6. \A u \in Tx \ {t} : At(u)'
  BY <1>2, <1>5, WaiterStays DEF TxInv
<1>. QED
  BY <1>1, <1>2, <1>3, <1>4, <1>6 DEF TxInv
LEMMA FinishOnlineKeeps ==
    ASSUME TxInv, NEW t \in Tx, FinishOnline(t)
    PROVE  TxInv'
<1>1. /\ pc[t] = "insert" /\ ToInsert(t) = {}
      /\ online' = SeenOnline(t) /\ Commit(t, status, leg)
  BY DEF FinishOnline
<1>2. /\ status \in [OrderId -> OrderStatus] /\ leg \in [OrderId -> Seq(DeliveryStatus)]
  BY DEF TxInv, Columns
<1>3. req[t].kind = "online"
  BY <1>1 DEF TxInv, At, KindAt
<1>4. online' \subseteq Rider
  BY <1>1, <1>3, RequestFields DEF SeenOnline, TxInv, Columns
<1>5. \A o \in Planned(t) : OrderRow(o) \in holds[t] /\ \A i \in Rows(o) : leg[o][i] \notin ActiveStatuses
  BY <1>1, <1>3, PlannedIs DEF ToInsert, TxInv, At, OnlineAt, HasActive, IsActive
<1>6. \A o \in OrderId : \A i \in Rows(o) : /\ leg[o][i] \in ActiveStatuses => IsActive(o, i)
                                            /\ leg[o][i] = "delivered" => status[o] = "delivered"
  BY DEF IsActive, TxInv, DeliveredFits
<1>7. Commit(t, status, leg)
  BY <1>1
<1>8. /\ \A o \in OrderId : Len(leg[o]) = Len(leg[o])
      /\ \A o \in OrderId : status[o] # status[o] \/ leg[o] # leg[o] => OrderRow(o) \in holds[t]
      /\ \A o \in OrderId : \A i \in Rows(o) :
            /\ leg[o][i] # leg[o][i] => DeliveryRow(o, i) \in holds[t]
            /\ leg[o][i] \in ActiveStatuses => IsActive(o, i)
            /\ leg[o][i] = "delivered" => status[o] = "delivered"
  BY <1>6
<1>. QED
  BY ONLY TxInv, t \in Tx, <1>2, <1>4, <1>5, <1>7, <1>8, CommitStep

\* The order `ready` writes is the one it has locked, in a state it may leave.
LEMMA FinishReadyKeeps ==
    ASSUME TxInv, NEW t \in Tx, FinishReady(t)
    PROVE  TxInv'
<1> DEFINE o == req[t].order
           ns == [status EXCEPT ![o] = "ready_for_pickup"]
<1>1. /\ pc[t] = "commit" /\ req[t].kind = "ready" /\ Commit(t, ns, leg) /\ online' = online
  BY DEF FinishReady
<1>2. /\ status \in [OrderId -> OrderStatus] /\ leg \in [OrderId -> Seq(DeliveryStatus)]
      /\ ns \in [OrderId -> OrderStatus] /\ online' \subseteq Rider
  BY <1>1 DEF TxInv, Columns, OrderStatus
<1>3. /\ o \in OrderId /\ OrderRow(o) \in holds[t] /\ status[o] # "delivered"
      /\ Planned(t) \subseteq {o} /\ (Planned(t) # {} => ~HasActive(o))
  BY <1>1, RequestFields DEF TxInv, At, ReadyAt, PlanAt, CanTransition, Allowed, OrderStatus
<1>4. \A u \in Planned(t) : OrderRow(u) \in holds[t] /\ \A i \in Rows(u) : leg[u][i] \notin ActiveStatuses
  BY <1>3 DEF HasActive, IsActive
<1>5. \A u \in OrderId : ns[u] # status[u] \/ leg[u] # leg[u] => OrderRow(u) \in holds[t]
  BY <1>2, <1>3
<1>6. \A u \in OrderId : \A i \in Rows(u) : /\ leg[u][i] \in ActiveStatuses => IsActive(u, i)
                                            /\ leg[u][i] = "delivered" => ns[u] = "delivered"
  BY <1>2, <1>3 DEF IsActive, TxInv, DeliveredFits
<1>. HIDE DEF ns
<1>. QED
  BY <1>1, <1>2, <1>4, <1>5, <1>6, CommitStep

\* What a move finds when it commits: the row it moves is its order's active one.
LEMMA MoveFinds ==
    ASSUME TxInv, NEW t \in Tx, FinishMove(t)
    PROVE  LET o == req[t].order  i == req[t].row IN
           /\ req[t].kind \in Moves /\ o \in OrderId /\ i \in Rows(o) /\ IsActive(o, i)
           /\ {OrderRow(o), DeliveryRow(o, i)} \subseteq holds[t]
           /\ courier[o][i] = req[t].rider /\ req[t].rider \in Rider
           /\ OtherActive(o, i) = {}
           /\ req[t].kind = "picked_up" => leg[o][i] = "assigned" /\ status[o] = "ready_for_pickup"
           /\ req[t].kind = "delivered" => leg[o][i] = "picked_up" /\ status[o] = "out_for_delivery"
           /\ Planned(t) \subseteq IF req[t].kind = "failed" THEN {o} ELSE {}
           /\ MovedStatus(t) \in OrderStatus
           /\ MovedStatus(t) = "delivered" <=> req[t].kind = "delivered" \/ status[o] = "delivered"
<1> DEFINE o == req[t].order
           i == req[t].row
<1>1. pc[t] = "commit" /\ req[t].kind \in Moves
  BY DEF FinishMove, Moves
<1>2. o \in OrderId /\ req[t].rider \in Rider
  BY <1>1, RequestFields DEF TxInv
<1>3. /\ i \in Rows(o) /\ {OrderRow(o), DeliveryRow(o, i)} \subseteq holds[t]
      /\ courier[o][i] = req[t].rider /\ req[t].kind \in DeliveryAllowed[leg[o][i]] /\ OrderFits(t)
  BY <1>1 DEF TxInv, At, MoveAt
<1>4. leg[o][i] \in DeliveryStatus /\ status[o] \in OrderStatus
  BY <1>2, <1>3 DEF TxInv, Columns, Rows
<1>5. /\ leg[o][i] \in ActiveStatuses
      /\ req[t].kind = "delivered" => leg[o][i] = "picked_up"
      /\ req[t].kind = "picked_up" => leg[o][i] = "assigned"
  BY <1>1, <1>3, <1>4 DEF DeliveryAllowed, DeliveryStatus, ActiveStatuses, Moves
<1>6. OtherActive(o, i) = {}
  BY <1>2, <1>3, <1>5 DEF TxInv, OneActive, OtherActive, IsActive
<1>7. /\ req[t].kind = "picked_up" => status[o] = "ready_for_pickup"
      /\ req[t].kind = "delivered" => status[o] = "out_for_delivery"
  BY <1>3 DEF OrderFits
<1>8. Planned(t) \subseteq IF req[t].kind = "failed" THEN {o} ELSE {}
  BY <1>1 DEF TxInv, At, PlanAt, Moves
<1>9. /\ MovedStatus(t) \in OrderStatus
      /\ MovedStatus(t) = "delivered" <=> req[t].kind = "delivered" \/ status[o] = "delivered"
  BY <1>1, <1>4, <1>7 DEF MovedStatus, OrderStatus, Moves
<1>. QED
  BY <1>1, <1>2, <1>3, <1>5, <1>6, <1>7, <1>8, <1>9 DEF IsActive

LEMMA FinishMoveKeeps ==
    ASSUME TxInv, NEW t \in Tx, FinishMove(t)
    PROVE  TxInv'
<1> DEFINE o == req[t].order
           i == req[t].row
           ns == [status EXCEPT ![o] = MovedStatus(t)]
           nl == [leg EXCEPT ![o] = [@ EXCEPT ![i] = req[t].kind]]
<1>1. Commit(t, ns, nl) /\ online' = online
  BY DEF FinishMove
<1>2. /\ req[t].kind \in Moves /\ o \in OrderId /\ i \in Rows(o) /\ IsActive(o, i)
      /\ OrderRow(o) \in holds[t] /\ DeliveryRow(o, i) \in holds[t]
      /\ OtherActive(o, i) = {}
      /\ Planned(t) \subseteq IF req[t].kind = "failed" THEN {o} ELSE {}
      /\ MovedStatus(t) \in OrderStatus
      /\ MovedStatus(t) = "delivered" <=> req[t].kind = "delivered" \/ status[o] = "delivered"
  BY MoveFinds
<1>3. /\ status \in [OrderId -> OrderStatus] /\ leg \in [OrderId -> Seq(DeliveryStatus)]
      /\ online' \subseteq Rider
  BY <1>1 DEF TxInv, Columns
<1>4. /\ ns \in [OrderId -> OrderStatus] /\ ns[o] = MovedStatus(t)
      /\ \A u \in OrderId \ {o} : ns[u] = status[u]
  BY <1>2, <1>3
<1>5. /\ [leg[o] EXCEPT ![i] = req[t].kind] \in Seq(DeliveryStatus)
      /\ Len([leg[o] EXCEPT ![i] = req[t].kind]) = Len(leg[o])
  <2>1. leg[o] \in Seq(DeliveryStatus) /\ req[t].kind \in DeliveryStatus /\ i \in 1..Len(leg[o])
    BY <1>2, <1>3 DEF Moves, DeliveryStatus, Rows
  <2>. QED
    BY <2>1
<1>6. /\ nl \in [OrderId -> Seq(DeliveryStatus)] /\ nl[o] = [leg[o] EXCEPT ![i] = req[t].kind]
      /\ \A u \in OrderId \ {o} : nl[u] = leg[u]
      /\ \A u \in OrderId : Len(nl[u]) = Len(leg[u])
  BY <1>2, <1>3, <1>5
<1>7. \A j \in Rows(o) : nl[o][j] = IF j = i THEN req[t].kind ELSE leg[o][j]
  BY <1>6 DEF Rows
<1>8. \A u \in Planned(t) : OrderRow(u) \in holds[t] /\ \A j \in Rows(u) : nl[u][j] \notin ActiveStatuses
  BY <1>2, <1>7 DEF OtherActive, IsActive, ActiveStatuses
<1>9. \A u \in OrderId : ns[u] # status[u] \/ nl[u] # leg[u] => OrderRow(u) \in holds[t]
  BY <1>2, <1>4, <1>6
<1>10. ASSUME NEW u \in OrderId, NEW j \in Rows(u)
       PROVE  /\ nl[u][j] # leg[u][j] => DeliveryRow(u, j) \in holds[t]
              /\ nl[u][j] \in ActiveStatuses => IsActive(u, j)
              /\ nl[u][j] = "delivered" => ns[u] = "delivered"
  <2>1. CASE u = o
    BY <1>2, <1>4, <1>7, <2>1 DEF IsActive, TxInv, DeliveredFits
  <2>2. CASE u # o
    BY <1>4, <1>6, <2>2 DEF IsActive, TxInv, DeliveredFits
  <2>. QED
    BY <2>1, <2>2
<1>11. /\ Commit(t, ns, nl) /\ online' \subseteq Rider
       /\ ns \in [OrderId -> OrderStatus] /\ nl \in [OrderId -> Seq(DeliveryStatus)]
       /\ \A u \in OrderId : Len(nl[u]) = Len(leg[u])
       /\ \A u \in Planned(t) :
             OrderRow(u) \in holds[t] /\ \A j \in Rows(u) : nl[u][j] \notin ActiveStatuses
       /\ \A u \in OrderId : ns[u] # status[u] \/ nl[u] # leg[u] => OrderRow(u) \in holds[t]
       /\ \A u \in OrderId : \A j \in Rows(u) :
             /\ nl[u][j] # leg[u][j] => DeliveryRow(u, j) \in holds[t]
             /\ nl[u][j] \in ActiveStatuses => IsActive(u, j)
             /\ nl[u][j] = "delivered" => ns[u] = "delivered"
  <2>. HIDE DEF ns, nl
  <2>. QED
    BY <1>1, <1>3, <1>4, <1>6, <1>8, <1>9, <1>10
<1>. HIDE DEF ns, nl
<1>. QED
  BY ONLY TxInv, t \in Tx, <1>11, CommitStep
-----------------------------------------------------------------------------
(* The invariant, and what follows from it *)

LEMMA Initially == Init => TxInv
<1>. SUFFICES ASSUME Init PROVE TxInv
  OBVIOUS
<1>1. Columns
  BY DEF Init, Columns, OrderStatus
<1>2. Workspaces
  BY DEF Init, Workspaces, Places, NoPlan, Nobody
<1>3. OneActive /\ DeliveredFits /\ LocksApart
  BY DEF Init, OneActive, DeliveredFits, Rows, LocksApart
<1>4. ASSUME NEW t \in Tx PROVE At(t)
  <2>1. Planned(t) = {} /\ \A o \in OrderId : plan[t][o] \notin Rider
    BY DispatchTxAssumption DEF Init, Planned, NoPlan, Nobody
  <2>. QED
    BY <2>1 DEF Init, NoRequest, At, KindAt, PlanAt, OnlineAt, ReadyAt, MoveAt, Moves
<1>. QED
  BY <1>1, <1>2, <1>3, <1>4 DEF TxInv

LEMMA TxInvKept == TxInv /\ [Next]_vars => TxInv'
<1>. SUFFICES ASSUME TxInv, [Next]_vars PROVE TxInv'
  OBVIOUS
<1>1. CASE UNCHANGED vars
  <2>1. UNCHANGED rowVars /\ UNCHANGED txVars
    BY <1>1 DEF vars, rowVars, txVars
  <2>2. Workspaces' /\ LocksApart' /\ \A u \in Tx : Apart(u)
    BY <2>1 DEF txVars, TxInv, Workspaces, LocksApart, Apart
  <2>. QED
    BY <2>1, <2>2, NothingWritten, WaiterStays DEF TxInv
<1>2. ASSUME NEW t \in Tx, Advance(t) PROVE TxInv'
  <2>1. CASE SetFlag(t) \/ ListReady(t) \/ LookUp(t) \/ PickForWaiting(t) \/ Insert(t)
    BY <2>1, SetFlagKeeps, ListReadyKeeps, LookUpKeeps, PickForWaitingKeeps, InsertKeeps
  <2>2. CASE LockReadyOrder(t) \/ PickForOrder(t) \/ LockDelivery(t) \/ LockMovedOrder(t)
    BY <2>2, LockReadyOrderKeeps, PickForOrderKeeps, LockDeliveryKeeps, LockMovedOrderKeeps
  <2>3. CASE FinishOnline(t) \/ FinishReady(t) \/ FinishMove(t)
    BY <2>3, FinishOnlineKeeps, FinishReadyKeeps, FinishMoveKeeps
  <2>. QED
    BY <1>2, <2>1, <2>2, <2>3 DEF Advance
<1>3. ASSUME NEW t \in Tx, NEW r \in Request, Start(t, r) PROVE TxInv'
  BY <1>3, StartKeeps
<1>4. ASSUME NEW r \in Rider, GoOffline(r) PROVE TxInv'
  BY <1>4, GoOfflineKeeps
<1>. QED
  BY <1>1, <1>2, <1>3, <1>4 DEF Next

\* Every column and every request's workspace is well typed, whichever
\* statements interleave (riders/service.py, shops/service.py).
THEOREM TypeCorrect == Spec => []TypeOK
<1>1. TxInv => TypeOK
  BY DEF TxInv, Columns, Workspaces, Places, TypeOK
<1>. QED
  BY <1>1, Initially, TxInvKept, PTL DEF Spec

\* A row that `ready` or `fail` is about to add is its order's only active one,
\* whatever runs beside it: the partial unique index never refuses these requests.
THEOREM ReadyAndFailNeverRefused == Spec => []ReadyAndFailKeepIndex
<1>1. TxInv => ReadyAndFailKeepIndex
  <2>. SUFFICES ASSUME TxInv, NEW t \in Tx, pc[t] = "commit", NEW o \in Planned(t)
                PROVE  OtherActive(o, IF req[t].kind = "failed" THEN req[t].row ELSE 0) = {}
    BY DEF ReadyAndFailKeepIndex
  <2>1. req[t].kind \in {"ready", "failed"} /\ o = req[t].order
    BY DEF TxInv, At, KindAt, PlanAt, Moves
  <2>2. o \in OrderId
    BY PlannedIs DEF TxInv
  <2>3. CASE req[t].kind = "ready"
    <3>1. ~HasActive(o)
      BY <2>1, <2>3 DEF TxInv, At, ReadyAt
    <3>. QED
      BY <2>3, <3>1 DEF OtherActive, HasActive
  <2>4. CASE req[t].kind = "failed"
    <3>1. req[t].row \in Rows(o) /\ "failed" \in DeliveryAllowed[leg[o][req[t].row]]
      BY <2>1, <2>4 DEF TxInv, At, MoveAt, Moves
    <3>2. leg[o][req[t].row] \in DeliveryStatus
      BY <2>2, <3>1 DEF TxInv, Columns, Rows
    <3>3. IsActive(o, req[t].row)
      BY <3>1, <3>2 DEF IsActive, ActiveStatuses, DeliveryAllowed, DeliveryStatus
    <3>. QED
      BY <2>2, <2>4, <3>1, <3>3 DEF TxInv, OneActive, OtherActive
  <2>. QED
    BY <2>1, <2>3, <2>4
<1>. QED
  BY <1>1, Initially, TxInvKept, PTL DEF Spec

\* A rider is never given deliveries by two requests from the same count: until
\* the request that chose a rider commits, he has no more active deliveries than
\* it counted (riders/service.py _pick_rider).
THEOREM CountsStayGood == Spec => []NoDoubleAssign
<1>1. TxInv => NoDoubleAssign
  BY PlannedIs DEF TxInv, At, PlanAt, NoDoubleAssign
<1>. QED
  BY <1>1, Initially, TxInvKept, PTL DEF Spec

-----------------------------------------------------------------------------
(* Parcel custody *)

LEMMA CustodyStutter ==
    UNCHANGED <<courier, leg>> => UNCHANGED Custody!custodyVars
BY DEF Custody!custodyVars, CarriedBy, DeliveredBy, WithLeg, Rows

LEMMA WithLegIs ==
    ASSUME NEW o, NEW s
    PROVE  \A r : r \in WithLeg(o, s) <=> \E i \in Rows(o) : leg[o][i] = s /\ courier[o][i] = r
BY DEF WithLeg

\* A planned row is nobody's parcel yet.
LEMMA CommitCustody ==
    ASSUME NEW o, NEW s, s # "assigned", NEW newLeg,
           \A i \in Rows(o) :
               i \in Rows(o)' /\ courier'[o][i] = courier[o][i] /\ leg'[o][i] = newLeg[i],
           \A i \in Rows(o)' : i \notin Rows(o) => leg'[o][i] = "assigned"
    PROVE  \A r : r \in WithLeg(o, s)' <=> \E i \in Rows(o) : newLeg[i] = s /\ courier[o][i] = r
<1>1. \A r : r \in WithLeg(o, s)' <=> \E i \in Rows(o)' : leg'[o][i] = s /\ courier'[o][i] = r
  BY DEF WithLeg, Rows
<1>. QED
  BY <1>1

LEMMA RowlessCommitStutters ==
    ASSUME TxInv, NEW t \in Tx,
           NEW newStatus \in [OrderId -> OrderStatus],
           Commit(t, newStatus, leg), online' \subseteq Rider
    PROVE  UNCHANGED Custody!custodyVars
<1>1. /\ leg \in [OrderId -> Seq(DeliveryStatus)] /\ \A o \in OrderId : Len(leg[o]) = Len(leg[o])
      /\ Columns /\ Workspaces
  BY DEF TxInv, Columns
<1>2. \A o \in OrderId :
         /\ \A i \in Rows(o) :
               i \in Rows(o)' /\ courier'[o][i] = courier[o][i] /\ leg'[o][i] = leg[o][i]
         /\ \A i \in Rows(o)' : i \notin Rows(o) => leg'[o][i] = "assigned"
  BY ONLY <1>1, CommitRows, t \in Tx, newStatus \in [OrderId -> OrderStatus],
          Commit(t, newStatus, leg), online' \subseteq Rider
<1>3. ASSUME NEW o \in OrderId, NEW s, s # "assigned"
      PROVE  WithLeg(o, s)' = WithLeg(o, s)
  <2>1. \A r : r \in WithLeg(o, s)' <=> \E i \in Rows(o) : leg[o][i] = s /\ courier[o][i] = r
    BY <1>2, <1>3, CommitCustody
  <2>2. \A r : r \in WithLeg(o, s)' <=> r \in WithLeg(o, s)
    BY <2>1, WithLegIs
  <2>. QED
    BY <2>2
<1>. QED
  BY <1>3 DEF Custody!custodyVars, CarriedBy, DeliveredBy

\* The moved row is its order's only active one, so the rider's parcel is nobody
\* else's; and no delivery of the order has been made.
LEMMA MoveHandsOver ==
    ASSUME TxInv, NEW t \in Tx, FinishMove(t)
    PROVE  [Custody!CustodyNext]_Custody!custodyVars
<1>. PICK o \in OrderId, r \in Rider : req[t].order = o /\ req[t].rider = r
  BY MoveFinds
<1>. PICK i \in Rows(o) : req[t].row = i
  BY MoveFinds
<1> DEFINE ns == [status EXCEPT ![o] = MovedStatus(t)]
           nl == [leg EXCEPT ![o] = [@ EXCEPT ![i] = req[t].kind]]
<1>1. Commit(t, ns, nl) /\ online' = online
  BY DEF FinishMove
<1>2. /\ req[t].kind \in Moves /\ IsActive(o, i) /\ OtherActive(o, i) = {} /\ courier[o][i] = r
      /\ req[t].kind = "picked_up" => leg[o][i] = "assigned" /\ status[o] = "ready_for_pickup"
      /\ req[t].kind = "delivered" => leg[o][i] = "picked_up" /\ status[o] = "out_for_delivery"
      /\ MovedStatus(t) \in OrderStatus
  BY MoveFinds
<1>3. /\ status \in [OrderId -> OrderStatus] /\ leg \in [OrderId -> Seq(DeliveryStatus)]
      /\ online' \subseteq Rider
  BY <1>1 DEF TxInv, Columns
<1>4. ns \in [OrderId -> OrderStatus]
  BY <1>2, <1>3
<1>5. /\ [leg[o] EXCEPT ![i] = req[t].kind] \in Seq(DeliveryStatus)
      /\ Len([leg[o] EXCEPT ![i] = req[t].kind]) = Len(leg[o])
  <2>1. leg[o] \in Seq(DeliveryStatus) /\ req[t].kind \in DeliveryStatus /\ i \in 1..Len(leg[o])
    BY <1>2, <1>3 DEF Moves, DeliveryStatus, Rows
  <2>. QED
    BY <2>1
<1>6. /\ nl \in [OrderId -> Seq(DeliveryStatus)]
      /\ \A u \in OrderId : Len(nl[u]) = Len(leg[u])
      /\ \A u \in OrderId \ {o} : nl[u] = leg[u]
      /\ nl[o] = [leg[o] EXCEPT ![i] = req[t].kind]
  BY <1>2, <1>3, <1>5
<1>7. \A j \in Rows(o) : nl[o][j] = IF j = i THEN req[t].kind ELSE leg[o][j]
  BY <1>6 DEF Rows
<1>8. ASSUME NEW u \in OrderId, NEW s, s # "assigned"
      PROVE  \A k : k \in WithLeg(u, s)' <=> \E j \in Rows(u) : nl[u][j] = s /\ courier[u][j] = k
  <2>1. \A v \in OrderId : Len(nl[v]) = Len(leg[v])
    BY <1>6
  <2>2. nl \in [OrderId -> Seq(DeliveryStatus)]
    BY <1>6
  <2>3. Columns /\ Workspaces
    BY DEF TxInv
  <2>4. /\ \A j \in Rows(u) :
              j \in Rows(u)' /\ courier'[u][j] = courier[u][j] /\ leg'[u][j] = nl[u][j]
        /\ \A j \in Rows(u)' : j \notin Rows(u) => leg'[u][j] = "assigned"
    <3>. HIDE DEF ns, nl
    <3>. QED
      BY ONLY t \in Tx, u \in OrderId, <1>1, <1>3, <1>4, <2>1, <2>2, <2>3, CommitRows
  <2>. HIDE DEF nl
  <2>. QED
    BY <1>8, <2>4, CommitCustody
<1>9. ASSUME NEW u \in OrderId \ {o}, NEW s, s # "assigned"
      PROVE  WithLeg(u, s)' = WithLeg(u, s)
  <2>1. nl[u] = leg[u]
    BY <1>6
  <2>2. \A k : k \in WithLeg(u, s)' <=> k \in WithLeg(u, s)
    BY <1>8, <1>9, <2>1, WithLegIs
  <2>. QED
    BY <2>2
<1>10. \A j \in Rows(o) : leg[o][j] \in {"assigned", "picked_up"} => j = i
  BY <1>2 DEF OtherActive, IsActive, ActiveStatuses
<1>11. status[o] # "delivered" => \A j \in Rows(o) : leg[o][j] # "delivered"
  BY <1>2 DEF TxInv, DeliveredFits
<1>12. CASE req[t].kind = "picked_up"
  <2>1. \A j \in Rows(o) : leg[o][j] \notin {"picked_up", "delivered"}
    BY <1>2, <1>10, <1>11, <1>12
  <2>2. \A j \in Rows(o) : (nl[o][j] = "picked_up" <=> j = i) /\ nl[o][j] # "delivered"
    BY <1>7, <1>12, <2>1
  <2>3. /\ WithLeg(o, "picked_up") = {} /\ WithLeg(o, "delivered") = {}
        /\ WithLeg(o, "picked_up")' = {r} /\ WithLeg(o, "delivered")' = {}
    BY <1>2, <1>8, <2>1, <2>2, WithLegIs
  <2>4. Custody!Take(o, r)
    BY <1>2, <1>9, <2>3 DEF Custody!Take, CarriedBy, DeliveredBy
  <2>. QED
    BY <1>2, <2>4 DEF Custody!CustodyNext
<1>13. CASE req[t].kind = "delivered"
  <2>1. \A j \in Rows(o) : (leg[o][j] = "picked_up" <=> j = i) /\ leg[o][j] # "delivered"
    BY <1>2, <1>10, <1>11, <1>13
  <2>2. \A j \in Rows(o) : nl[o][j] # "picked_up" /\ (nl[o][j] = "delivered" <=> j = i)
    BY <1>7, <1>13, <2>1
  <2>3. /\ WithLeg(o, "picked_up") = {r} /\ WithLeg(o, "delivered") = {}
        /\ WithLeg(o, "picked_up")' = {} /\ WithLeg(o, "delivered")' = {r}
    BY <1>2, <1>8, <2>1, <2>2, WithLegIs
  <2>4. Custody!Deliver(o, r)
    BY <1>2, <1>9, <2>3 DEF Custody!Deliver, CarriedBy, DeliveredBy
  <2>. QED
    BY <1>2, <2>4 DEF Custody!CustodyNext
<1>14. CASE req[t].kind = "failed"
  <2>1. \A j \in Rows(o) : nl[o][j] # "picked_up" /\ (nl[o][j] = "delivered" <=> leg[o][j] = "delivered")
    BY <1>2, <1>7, <1>10, <1>14 DEF IsActive, ActiveStatuses
  <2>2. WithLeg(o, "picked_up")' = {} /\ WithLeg(o, "delivered")' = WithLeg(o, "delivered")
    <3>1. \A k : k \notin WithLeg(o, "picked_up")'
      BY <1>8, <2>1
    <3>2. \A k : k \in WithLeg(o, "delivered")' <=> k \in WithLeg(o, "delivered")
      BY <1>8, <2>1, WithLegIs
    <3>. QED
      BY <3>1, <3>2
  <2>3. CASE leg[o][i] = "picked_up"
    <3>1. WithLeg(o, "picked_up") = {r}
      BY <1>2, <1>10, <2>3 DEF WithLeg
    <3>2. Custody!BringBack(o, r)
      BY <1>2, <1>9, <2>2, <3>1 DEF Custody!BringBack, CarriedBy, DeliveredBy
    <3>. QED
      BY <1>2, <3>2 DEF Custody!CustodyNext
  <2>4. CASE leg[o][i] # "picked_up"
    <3>1. WithLeg(o, "picked_up") = {}
      BY <1>10, <2>4 DEF WithLeg
    <3>2. UNCHANGED Custody!custodyVars
      BY <1>9, <2>2, <3>1 DEF Custody!custodyVars, CarriedBy, DeliveredBy
    <3>. QED
      BY <3>2
  <2>. QED
    BY <2>3, <2>4
<1>. QED
  BY <1>2, <1>12, <1>13, <1>14 DEF Moves

LEMMA NextCustody == TxInv /\ [Next]_vars => [Custody!CustodyNext]_Custody!custodyVars
<1>. SUFFICES ASSUME TxInv, [Next]_vars
              PROVE  [Custody!CustodyNext]_Custody!custodyVars
  OBVIOUS
<1>1. CASE UNCHANGED <<courier, leg>>
  BY <1>1, CustodyStutter
<1>2. ASSUME NEW t \in Tx, FinishOnline(t) PROVE UNCHANGED Custody!custodyVars
  <2>1. pc[t] = "insert" /\ online' = SeenOnline(t) /\ Commit(t, status, leg)
    BY <1>2 DEF FinishOnline
  <2>2. status \in [OrderId -> OrderStatus] /\ online' \subseteq Rider
    BY <2>1, RequestFields DEF SeenOnline, TxInv, Columns
  <2>. QED
    BY <2>1, <2>2, RowlessCommitStutters
<1>3. ASSUME NEW t \in Tx, FinishReady(t) PROVE UNCHANGED Custody!custodyVars
  <2> DEFINE ns == [status EXCEPT ![req[t].order] = "ready_for_pickup"]
  <2>1. Commit(t, ns, leg) /\ online' = online
    BY <1>3 DEF FinishReady
  <2>2. ns \in [OrderId -> OrderStatus] /\ online' \subseteq Rider
    BY <2>1 DEF TxInv, Columns, OrderStatus
  <2>. HIDE DEF ns
  <2>. QED
    BY <2>1, <2>2, RowlessCommitStutters
<1>4. CASE ~UNCHANGED <<courier, leg>>
  <2>1. \E t \in Tx : FinishOnline(t) \/ FinishReady(t) \/ FinishMove(t)
    BY <1>4 DEF Next, vars, rowVars, GoOffline, Start, Advance, Abort, SetFlag, ListReady, LookUp,
                PickForWaiting, Insert, LockReadyOrder, PickForOrder, LockDelivery, LockMovedOrder
  <2>. QED
    BY <2>1, <1>2, <1>3, MoveHandsOver
<1>. QED
  BY <1>1, <1>4

\* However the statements of the requests interleave, one rider at a time carries
\* an order's parcel and it is delivered once: a stale look at the orders may
\* leave a row on a finished order, and nobody can be credited through it.
THEOREM ImplementsCustody == Spec => CustodySpec
<1>1. Init => Custody!CustodyInit
  BY DEF Init, Custody!CustodyInit, CarriedBy, DeliveredBy, WithLeg, Rows
<1>. QED
  BY <1>1, NextCustody, Initially, TxInvKept, PTL DEF Spec, CustodySpec, Custody!CustodySpec
=============================================================================
