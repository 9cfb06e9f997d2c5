-------------------------- MODULE Ordering_proofs --------------------------
(***************************************************************************)
(* Machine-checked theorems about Ordering for every set of customers,     *)
(* shops, products and orders and every value of the bounds; the last two  *)
(* are that Ordering implements StockLedger and that no unit is lost.      *)
(***************************************************************************)
EXTENDS Ordering, FiniteSetTheorems, TLAPS

Roles == {"customer", "shopkeeper", "rider"}

\* The two status-changing steps of Move keep the columns typed and touch one order.
LEMMA MoveColumns ==
    ASSUME TypeOK, NEW o \in Placed, NEW target \in OrderStatus, NEW role \in Roles,
           Move(o, target, role)
    PROVE  /\ status' \in [Placed -> OrderStatus]
           /\ history' \in [Placed -> Seq(HistoryRows)]
           /\ status'[o] = target
           /\ history'[o] = Append(history[o], HistoryRow(status[o], target, role))
           /\ \A k \in Placed \ {o} : status'[k] = status[k] /\ history'[k] = history[k]
<1>1. HistoryRow(status[o], target, role) \in HistoryRows
  BY DEF HistoryRow, HistoryRows, TypeOK, Roles
<1>2. Append(history[o], HistoryRow(status[o], target, role)) \in Seq(HistoryRows)
  BY <1>1 DEF TypeOK
<1>. QED
  BY <1>1, <1>2 DEF Move, TypeOK

LEMMA InitTypeOK == Init => TypeOK
BY OrderingAssumption DEF Init, TypeOK, NoLines, Listed, Placed

LEMMA NextTypeOK == TypeOK /\ [Next]_vars => TypeOK'
<1>. SUFFICES ASSUME TypeOK, [Next]_vars
              PROVE  TypeOK'
  OBVIOUS
<1>. USE OrderingAssumption
<1>1. ASSUME NEW c \in Customer, NEW p \in Product, NEW q \in RequestQty, AddItem(c, p, q)
      PROVE  TypeOK'
  BY <1>1 DEF AddItem, TypeOK, Listed, Placed, shelfVars, orderVars
<1>2. ASSUME NEW c \in Customer, NEW p \in Product, NEW q \in RequestQty, UpdateItem(c, p, q)
      PROVE  TypeOK'
  BY <1>2 DEF UpdateItem, TypeOK, Listed, Placed, shelfVars, orderVars
<1>3. ASSUME NEW c \in Customer, NEW p \in Product, DeleteItem(c, p)
      PROVE  TypeOK'
  BY <1>3 DEF DeleteItem, TypeOK, Listed, Placed, shelfVars, orderVars
<1>4. ASSUME NEW c \in Customer, ClearCart(c)
      PROVE  TypeOK'
  BY <1>4 DEF ClearCart, TypeOK, Listed, Placed, shelfVars, orderVars, NoLines
<1>5. ASSUME NEW s \in Shop, SetShopStatus(s)
      PROVE  TypeOK'
  BY <1>5 DEF SetShopStatus, TypeOK, Listed, Placed, cartVars, orderVars
<1>6. ASSUME NEW p \in Product, NEW n \in Count, CreateProduct(p, n)
      PROVE  TypeOK'
  BY <1>6 DEF CreateProduct, TypeOK, Listed, Placed, cartVars, orderVars
<1>7. ASSUME NEW p \in Product, UpdateProduct(p)
      PROVE  TypeOK'
  BY <1>7 DEF UpdateProduct, TypeOK, Listed, Placed, cartVars, orderVars
<1>8. ASSUME NEW p \in Product, NEW n \in Count, UpdateInventory(p, n)
      PROVE  TypeOK'
  BY <1>8 DEF UpdateInventory, TypeOK, Listed, Placed, cartVars, orderVars
<1>9. ASSUME NEW p \in Product, DeleteProduct(p)
      PROVE  TypeOK'
  BY <1>9 DEF DeleteProduct, TypeOK, Listed, Placed, orderVars
<1>10. ASSUME NEW c \in Customer, NEW o \in OrderId, CreateOrder(c, o)
       PROVE  TypeOK'
  <2>1. cartShop[c] \in Shop /\ cartLines[c] \in [Product -> Nat]
    BY <1>10 DEF CreateOrder, TypeOK
  <2>2. \A p \in Product : cartLines[c][p] <= stock[p]
    BY <1>10, <2>1 DEF CreateOrder, InStock, TypeOK, LinesOf
  <2>3. stock' \in [Product -> Nat]
    BY <1>10, <2>1, <2>2 DEF CreateOrder, TypeOK
  <2>4. [customer |-> c, shop |-> cartShop[c], lines |-> cartLines[c]] \in OrderRow
    BY <2>1 DEF OrderRow
  <2>5. orders' \in [Placed \cup {o} -> OrderRow] /\ Placed' = Placed \cup {o}
    BY <1>10, <2>4 DEF CreateOrder, TypeOK, Placed, Inserted
  <2>6. "pending_shop" \in OrderStatus
    BY DEF OrderStatus
  <2>7. status' \in [Placed \cup {o} -> OrderStatus]
    BY <1>10, <2>6 DEF CreateOrder, TypeOK, Inserted
  <2>8. <<HistoryRow(NoStatus, "pending_shop", "customer")>> \in Seq(HistoryRows)
    BY <2>6 DEF HistoryRow, HistoryRows
  <2>9. history' \in [Placed \cup {o} -> Seq(HistoryRows)]
    BY <1>10, <2>8 DEF CreateOrder, TypeOK, Inserted
  <2>10. cartShop' \in [Customer -> Shop \cup {NoShop}] /\ cartLines' \in [Customer -> [Product -> Nat]]
    BY <1>10 DEF CreateOrder, TypeOK, NoLines
  <2>. QED
    BY <1>10, <2>3, <2>5, <2>7, <2>9, <2>10 DEF CreateOrder, TypeOK, Listed
<1>11. ASSUME NEW o \in Placed, NEW target \in OrderStatus, NEW role \in Roles,
              Move(o, target, role), stock' \in {stock, Restocked(o)},
              UNCHANGED <<cartVars, openShop, row, active, orders>>
       PROVE  TypeOK'
  <2>1. Restocked(o) \in [Product -> Nat]
    BY DEF Restocked, TypeOK, OrderRow
  <2>. QED
    BY <1>11, <2>1, MoveColumns DEF TypeOK, Placed, Listed, cartVars
<1>12. ASSUME NEW c \in Customer, NEW o \in OrderId, CancelOrder(c, o)
       PROVE  TypeOK'
  BY <1>11, <1>12 DEF CancelOrder, OrderStatus, Roles
<1>13. ASSUME NEW s \in Shop, NEW o \in OrderId, NEW target \in ShopkeeperTargets,
              ShopkeeperTransition(s, o, target)
       PROVE  TypeOK'
  BY <1>11, <1>13 DEF ShopkeeperTransition, OrderStatus, Roles, ShopkeeperTargets
<1>14. ASSUME NEW o \in OrderId,
              NEW target \in {"out_for_delivery", "delivered", "ready_for_pickup"},
              RiderTransition(o, target)
       PROVE  TypeOK'
  BY <1>11, <1>14 DEF RiderTransition, OrderStatus, Roles, shelfVars
<1>15. CASE UNCHANGED vars
  BY <1>15 DEF vars, TypeOK, Listed, Placed
<1>. QED
  BY <1>1, <1>2, <1>3, <1>4, <1>5, <1>6, <1>7, <1>8, <1>9, <1>10, <1>12, <1>13, <1>14, <1>15
     DEF Next, CartNext, ShelfNext, OrderNext

\* Every reachable state is well typed; no inventory figure is ever negative.
THEOREM TypeCorrect == Spec => []TypeOK
<1>1. Init => TypeOK
  BY InitTypeOK
<1>2. TypeOK /\ [Next]_vars => TypeOK'
  BY NextTypeOK
<1>. QED
  BY <1>1, <1>2, PTL DEF Spec

-----------------------------------------------------------------------------
LEMMA NextCartOfOneShop == TypeOK /\ CartOfOneShop /\ [Next]_vars => CartOfOneShop'
<1>. SUFFICES ASSUME TypeOK, CartOfOneShop, [Next]_vars
              PROVE  CartOfOneShop'
  OBVIOUS
<1>. USE OrderingAssumption DEF CartOfOneShop, LinesOf, TypeOK, Listed
<1>1. ASSUME NEW c \in Customer, NEW p \in Product, NEW q \in RequestQty, AddItem(c, p, q)
      PROVE  CartOfOneShop'
  <2>1. \A k \in Product : cartLines[c][k] > 0 => cartShop[c] = ShopOf[p]
    BY <1>1 DEF AddItem, Accepts
  <2>. QED
    BY <1>1, <2>1 DEF AddItem, shelfVars
<1>2. ASSUME NEW c \in Customer, NEW p \in Product, NEW q \in RequestQty, UpdateItem(c, p, q)
      PROVE  CartOfOneShop'
  BY <1>2 DEF UpdateItem, shelfVars
<1>3. ASSUME NEW c \in Customer, NEW p \in Product, DeleteItem(c, p)
      PROVE  CartOfOneShop'
  BY <1>3 DEF DeleteItem, shelfVars
<1>4. ASSUME NEW c \in Customer, ClearCart(c)
      PROVE  CartOfOneShop'
  BY <1>4 DEF ClearCart, shelfVars, NoLines
<1>5. ASSUME NEW p \in Product, NEW n \in Count,
             CreateProduct(p, n) \/ UpdateInventory(p, n) \/ UpdateProduct(p)
      PROVE  CartOfOneShop'
  BY <1>5 DEF CreateProduct, UpdateInventory, UpdateProduct, cartVars
<1>6. ASSUME NEW p \in Product, DeleteProduct(p)
      PROVE  CartOfOneShop'
  BY <1>6 DEF DeleteProduct
<1>7. ASSUME NEW c \in Customer, NEW o \in OrderId, CreateOrder(c, o)
      PROVE  CartOfOneShop'
  BY <1>7 DEF CreateOrder, NoLines
<1>8. CASE UNCHANGED <<cartVars, row>>
  BY <1>8 DEF cartVars
<1>9. ASSUME NEW p \in Product, UpdateProduct(p)
      PROVE  CartOfOneShop'
  BY <1>9 DEF UpdateProduct, cartVars
<1>. HIDE DEF CartOfOneShop, LinesOf, TypeOK, Listed
<1>. QED
  BY <1>1, <1>2, <1>3, <1>4, <1>5, <1>6, <1>7, <1>8, <1>9
     DEF Next, CartNext, ShelfNext, OrderNext, SetShopStatus, CancelOrder,
         ShopkeeperTransition, RiderTransition, vars, cartVars, shelfVars

\* Whatever is added, changed, removed, deleted from the catalogue or checked
\* out, a cart's lines all belong to the shop the cart is bound to.
THEOREM CartsAreSingleShop == Spec => []CartOfOneShop
<1>1. Init => CartOfOneShop
  BY DEF Init, CartOfOneShop, LinesOf, NoLines
<1>2. TypeOK /\ CartOfOneShop /\ [Next]_vars => CartOfOneShop'
  BY NextCartOfOneShop
<1>. QED
  BY <1>1, <1>2, TypeCorrect, PTL DEF Spec

-----------------------------------------------------------------------------
LEMMA NextOrderOfOneShop == TypeOK /\ OrderOfOneShop /\ [Next]_vars => OrderOfOneShop'
<1>. SUFFICES ASSUME TypeOK, OrderOfOneShop, [Next]_vars
              PROVE  OrderOfOneShop'
  OBVIOUS
<1>1. ASSUME NEW c \in Customer, NEW o \in OrderId, CreateOrder(c, o)
      PROVE  OrderOfOneShop'
  <2>1. Placed' = Placed \cup {o}
    BY <1>1 DEF CreateOrder, Placed, Inserted
  <2>2. orders'[o].lines = cartLines[c] /\ orders'[o].shop = cartShop[c]
    BY <1>1 DEF CreateOrder, Placed, Inserted
  <2>3. \A k \in Placed : orders'[k] = orders[k]
    BY <1>1 DEF CreateOrder, Placed, Inserted
  <2>. QED
    BY <1>1, <2>1, <2>2, <2>3 DEF CreateOrder, HasItems, Orderable, OrderOfOneShop, LinesOf
<1>2. CASE UNCHANGED orders
  BY <1>2 DEF OrderOfOneShop, Placed
<1>. QED
  BY <1>1, <1>2 DEF Next, CartNext, ShelfNext, OrderNext, AddItem, UpdateItem, DeleteItem,
     ClearCart, SetShopStatus, CreateProduct, UpdateProduct, UpdateInventory, DeleteProduct,
     CancelOrder, ShopkeeperTransition, RiderTransition, vars, orderVars

\* No order is empty and none mixes the products of two shops.
THEOREM OrdersAreSingleShop == Spec => []OrderOfOneShop
<1>1. Init => OrderOfOneShop
  BY DEF Init, OrderOfOneShop, Placed
<1>2. TypeOK /\ OrderOfOneShop /\ [Next]_vars => OrderOfOneShop'
  BY NextOrderOfOneShop
<1>. QED
  BY <1>1, <1>2, TypeCorrect, PTL DEF Spec

-----------------------------------------------------------------------------
(* The order's story.  That it tells the status is inductive; that an order  *)
(* undone was never prepared is not, since it says nothing of the orders that *)
(* are still under way: PreparedStays does.                                   *)

\* Once prepared, the table only leads onwards to the rider and the customer.
Late == {"preparing", "ready_for_pickup", "out_for_delivery", "delivered"}

PreparedStays ==
    \A o \in Placed :
        (\E i \in 1..Len(history[o]) : history[o][i].to = "preparing")
            => status[o] \in Late

StoryInv == HistoryTellsStatus /\ PreparedStays

\* A step of Next places one order, moves one order along the table, or leaves
\* every order's status and history alone.
LEMMA OrderSteps ==
    ASSUME TypeOK, [Next]_vars
    PROVE  \/ \E c \in Customer, o \in OrderId : CreateOrder(c, o)
           \/ \E o \in Placed, target \in OrderStatus, role \in Roles :
                 /\ CanTransition(status[o], target)
                 /\ Move(o, target, role)
                 /\ UNCHANGED orders
           \/ UNCHANGED orderVars
<1>1. ASSUME NEW c \in Customer, NEW o \in OrderId, CancelOrder(c, o)
      PROVE  \E target \in OrderStatus, role \in Roles :
                 CanTransition(status[o], target) /\ Move(o, target, role) /\ UNCHANGED orders
  BY <1>1 DEF CancelOrder, OrderStatus, Roles
<1>2. ASSUME NEW s \in Shop, NEW o \in OrderId, NEW target \in ShopkeeperTargets,
             ShopkeeperTransition(s, o, target)
      PROVE  \E t \in OrderStatus, role \in Roles :
                 CanTransition(status[o], t) /\ Move(o, t, role) /\ UNCHANGED orders
  BY <1>2 DEF ShopkeeperTransition, OrderStatus, Roles, ShopkeeperTargets
<1>3. ASSUME NEW o \in OrderId,
             NEW target \in {"out_for_delivery", "delivered", "ready_for_pickup"},
             RiderTransition(o, target)
      PROVE  \E t \in OrderStatus, role \in Roles :
                 CanTransition(status[o], t) /\ Move(o, t, role) /\ UNCHANGED orders
  BY <1>3 DEF RiderTransition, OrderStatus, Roles
<1>4. CASE CartNext \/ ShelfNext \/ UNCHANGED vars
  BY <1>4 DEF CartNext, ShelfNext, AddItem, UpdateItem, DeleteItem, ClearCart, SetShopStatus,
     CreateProduct, UpdateProduct, UpdateInventory, DeleteProduct, vars, orderVars
<1>. QED
  BY <1>1, <1>2, <1>3, <1>4
     DEF Next, OrderNext, CancelOrder, ShopkeeperTransition, RiderTransition

LEMMA LateStaysLate ==
    ASSUME NEW s \in Late, NEW t, CanTransition(s, t)
    PROVE  t \in Late
<1>1. s \in OrderStatus
  BY DEF Late, OrderStatus
<1>2. CASE s = "preparing"
  BY <1>1, <1>2 DEF CanTransition, Allowed, Late
<1>3. CASE s = "ready_for_pickup"
  BY <1>1, <1>3 DEF CanTransition, Allowed, Late
<1>4. CASE s = "out_for_delivery"
  BY <1>1, <1>4 DEF CanTransition, Allowed, Late
<1>5. CASE s = "delivered"
  BY <1>1, <1>5 DEF CanTransition, Allowed, Late
<1>. QED
  BY <1>2, <1>3, <1>4, <1>5 DEF Late

LEMMA NextStory == TypeOK /\ StoryInv /\ [Next]_vars => StoryInv'
<1>. SUFFICES ASSUME TypeOK, StoryInv, [Next]_vars
              PROVE  StoryInv'
  OBVIOUS
<1>1. ASSUME NEW c \in Customer, NEW o \in OrderId, CreateOrder(c, o)
      PROVE  StoryInv'
  <2>1. Placed' = Placed \cup {o}
    BY <1>1 DEF CreateOrder, Placed, Inserted
  <2>2. status'[o] = "pending_shop"
        /\ history'[o] = <<HistoryRow(NoStatus, "pending_shop", "customer")>>
    BY <1>1 DEF CreateOrder, Inserted
  <2>3. \A k \in Placed : status'[k] = status[k] /\ history'[k] = history[k]
    BY <1>1 DEF CreateOrder, Placed, Inserted, TypeOK
  <2>4. Len(history'[o]) = 1 /\ history'[o][1] = HistoryRow(NoStatus, "pending_shop", "customer")
    BY <2>2
  <2>5. TellsStatus(history'[o], status'[o])
    BY <2>2, <2>4 DEF TellsStatus, HistoryRow
  <2>6. HistoryTellsStatus'
    BY <2>1, <2>3, <2>5 DEF StoryInv, HistoryTellsStatus
  <2>7. PreparedStays'
    BY <2>1, <2>3, <2>4 DEF StoryInv, PreparedStays, HistoryRow
  <2>. QED
    BY <2>6, <2>7 DEF StoryInv
<1>2. ASSUME NEW o \in Placed, NEW target \in OrderStatus, NEW role \in Roles,
             CanTransition(status[o], target), Move(o, target, role), UNCHANGED orders
      PROVE  StoryInv'
  <2>. DEFINE h == history[o]
              r == HistoryRow(status[o], target, role)
  <2>1. /\ status'[o] = target /\ history'[o] = Append(h, r)
        /\ \A k \in Placed \ {o} : status'[k] = status[k] /\ history'[k] = history[k]
    BY <1>2, MoveColumns
  <2>2. Placed' = Placed
    BY <1>2 DEF Placed
  <2>3. h \in Seq(HistoryRows) /\ Len(h) \in Nat /\ status[o] \in OrderStatus
    BY DEF TypeOK
  <2>4. /\ Len(Append(h, r)) = Len(h) + 1
        /\ Append(h, r)[Len(h) + 1] = r
        /\ \A i \in 1..Len(h) : Append(h, r)[i] = h[i]
    BY <2>3
  <2>5. r.from = status[o] /\ r.to = target
    BY DEF HistoryRow
  <2>6. /\ Len(h) > 0
        /\ h[1].from = NoStatus /\ h[1].to = "pending_shop"
        /\ \A i \in 2..Len(h) : h[i].from = h[i-1].to /\ CanTransition(h[i].from, h[i].to)
        /\ h[Len(h)].to = status[o]
    BY DEF StoryInv, HistoryTellsStatus, TellsStatus
  <2>7. HistoryTellsStatus'
    <3>. DEFINE g == history'[o]
    <3>1. Len(g) > 0 /\ g[1].from = NoStatus /\ g[1].to = "pending_shop" /\ g[Len(g)].to = status'[o]
      BY <2>1, <2>3, <2>4, <2>5, <2>6
    <3>2. ASSUME NEW i \in 2..Len(g)
          PROVE  g[i].from = g[i-1].to /\ CanTransition(g[i].from, g[i].to)
      <4>1. CASE i \in 2..Len(h)
        <5>1. i \in 1..Len(h) /\ i - 1 \in 1..Len(h)
          BY <4>1, <2>3
        <5>2. g[i] = h[i] /\ g[i-1] = h[i-1]
          BY <5>1, <2>1, <2>4
        <5>. QED
          BY <4>1, <5>2, <2>6
      <4>2. CASE i = Len(h) + 1
        <5>1. i - 1 = Len(h) /\ Len(h) \in 1..Len(h)
          BY <4>2, <2>3, <2>6
        <5>2. g[i] = r /\ g[i-1] = h[Len(h)]
          BY <4>2, <5>1, <2>1, <2>4
        <5>. QED
          BY <1>2, <5>2, <2>5, <2>6
      <4>. QED
        BY <4>1, <4>2, <2>1, <2>3, <2>4
    <3>3. TellsStatus(g, status'[o])
      BY <3>1, <3>2 DEF TellsStatus
    <3>4. \A k \in Placed \ {o} : TellsStatus(history'[k], status'[k])
      BY <2>1 DEF StoryInv, HistoryTellsStatus
    <3>. QED
      BY <2>2, <3>3, <3>4 DEF HistoryTellsStatus
  <2>8. PreparedStays'
    <3>1. status[o] \in Late => target \in Late
      BY <1>2, LateStaysLate
    <3>2. (\E i \in 1..Len(h) : h[i].to = "preparing") => status[o] \in Late
      BY DEF StoryInv, PreparedStays, Late
    <3>3. (\E i \in 1..Len(history'[o]) : history'[o][i].to = "preparing") => status'[o] \in Late
      <4>. SUFFICES ASSUME NEW i \in 1..Len(history'[o]), history'[o][i].to = "preparing"
                    PROVE  status'[o] \in Late
        OBVIOUS
      <4>1. CASE i \in 1..Len(h)
        BY <4>1, <2>1, <2>4, <3>1, <3>2
      <4>2. CASE i = Len(h) + 1
        BY <4>2, <2>1, <2>4, <2>5 DEF Late
      <4>. QED
        BY <2>1, <2>3, <2>4, <4>1, <4>2
    <3>. QED
      BY <2>1, <2>2, <3>3 DEF StoryInv, PreparedStays
  <2>. QED
    BY <2>7, <2>8 DEF StoryInv
<1>3. CASE UNCHANGED orderVars
  BY <1>3 DEF orderVars, StoryInv, HistoryTellsStatus, PreparedStays, Placed
<1>. QED
  BY <1>1, <1>2, <1>3, OrderSteps

LEMMA StoryUndone == TypeOK /\ StoryInv => NeverUndoneOncePrepared
BY DEF TypeOK, StoryInv, PreparedStays, Late, NeverUndoneOncePrepared, RestockTargets

LEMMA SpecStory == Spec => []StoryInv
<1>1. Init => StoryInv
  BY DEF Init, StoryInv, HistoryTellsStatus, PreparedStays, Placed
<1>2. TypeOK /\ StoryInv /\ [Next]_vars => StoryInv'
  BY NextStory
<1>. QED
  BY <1>1, <1>2, TypeCorrect, PTL DEF Spec

\* The audit trail of every order begins at NULL, follows the table without a
\* gap and ends in the order's present status.
THEOREM HistoryIsTheStory == Spec => []HistoryTellsStatus
<1>1. StoryInv => HistoryTellsStatus
  BY DEF StoryInv
<1>. QED
  BY <1>1, SpecStory, PTL

\* An order that was ever in preparation is never cancelled or rejected, so its
\* units never go back on the shelf.
THEOREM PreparedNeverUndone == Spec => []NeverUndoneOncePrepared
BY SpecStory, TypeCorrect, StoryUndone, PTL

-----------------------------------------------------------------------------
(* Ordering implements StockLedger: the claim of an order is held while the *)
(* order can still be undone, and every handler is a step of the ledger or  *)
(* leaves it alone.                                                         *)

\* No line of a cart outgrows the bound, so an order claims at most that.
CartBounded == \A c \in Customer, p \in Product : cartLines[c][p] \in 0..MaxLine

LEMMA NextCartBounded == TypeOK /\ CartBounded /\ [Next]_vars => CartBounded'
<1>. SUFFICES ASSUME TypeOK, CartBounded, [Next]_vars
              PROVE  CartBounded'
  OBVIOUS
<1>. USE OrderingAssumption
<1>1. ASSUME NEW c \in Customer, NEW p \in Product, NEW q \in RequestQty,
             AddItem(c, p, q) \/ UpdateItem(c, p, q)
      PROVE  CartBounded'
  <2>1. q \in 1..MaxLine /\ cartLines \in [Customer -> [Product -> Nat]]
    BY DEF TypeOK
  <2>2. cartLines'[c][p] \in 0..MaxLine
    BY <1>1, <2>1 DEF AddItem, UpdateItem
  <2>3. \A d \in Customer, k \in Product : <<d, k>> # <<c, p>> => cartLines'[d][k] = cartLines[d][k]
    BY <1>1, <2>1 DEF AddItem, UpdateItem
  <2>. QED
    BY <2>2, <2>3 DEF CartBounded
<1>2. ASSUME NEW c \in Customer, NEW p \in Product, DeleteItem(c, p)
      PROVE  CartBounded'
  BY <1>2 DEF DeleteItem, CartBounded, TypeOK
<1>3. ASSUME NEW c \in Customer, cartLines' = [cartLines EXCEPT ![c] = NoLines]
      PROVE  CartBounded'
  BY <1>3 DEF CartBounded, TypeOK, NoLines
<1>4. ASSUME NEW p \in Product, DeleteProduct(p)
      PROVE  CartBounded'
  BY <1>4 DEF DeleteProduct, CartBounded, TypeOK
<1>5. CASE UNCHANGED cartLines
  BY <1>5 DEF CartBounded
<1>. QED
  BY <1>1, <1>2, <1>3, <1>4, <1>5
     DEF Next, CartNext, ShelfNext, OrderNext, SetShopStatus, CreateProduct, UpdateProduct,
         UpdateInventory, ClearCart, CreateOrder, CancelOrder, ShopkeeperTransition,
         RiderTransition, vars, cartVars, shelfVars

\* The ledger does not move when the shelf, the orders and their statuses do not.
LEMMA LedgerStutter ==
    UNCHANGED <<row, stock, orders, status>> => UNCHANGED Ledger!ledgerVars
BY DEF Ledger!ledgerVars, Listed, Phase, Claimed, Placed

LEMMA InitLedger == Init => Ledger!LedgerInit
BY DEF Init, Ledger!LedgerInit, Ledger!Nothing, Listed, Phase, Claimed, Placed, NoLines

LEMMA CreateOrderReserves ==
    ASSUME TypeOK, CartBounded, NEW c \in Customer, NEW o \in OrderId, CreateOrder(c, o)
    PROVE  Ledger!Reserve(o)
<1>1. Placed' = Placed \cup {o} /\ o \notin Placed
  BY DEF CreateOrder, Placed, Inserted
<1>2. /\ orders'[o].lines = cartLines[c] /\ status'[o] = "pending_shop"
      /\ \A k \in Placed : orders'[k] = orders[k] /\ status'[k] = status[k]
  BY DEF CreateOrder, Placed, Inserted, TypeOK
<1>3. Phase[o] = "new" /\ Phase' = [Phase EXCEPT ![o] = "held"]
  BY <1>1, <1>2 DEF Phase
<1>4. cartLines[c] \in [Product -> 0..MaxLine]
  BY DEF CartBounded, TypeOK
<1>5. cartLines[c] # Ledger!Nothing
  BY <1>4 DEF CreateOrder, HasItems, LinesOf, Ledger!Nothing
<1>6. \A p \in Product : cartLines[c][p] > 0 => p \in Listed /\ cartLines[c][p] <= stock[p]
  BY DEF CreateOrder, Orderable, InStock, LinesOf
<1>7. Claimed' = [Claimed EXCEPT ![o] = cartLines[c]]
  BY <1>1, <1>2 DEF Claimed
<1>8. stock' = [p \in Product |-> stock[p] - cartLines[c][p]] /\ Listed' = Listed
  BY DEF CreateOrder, Listed
<1>. QED
  BY <1>3, <1>4, <1>5, <1>6, <1>7, <1>8 DEF Ledger!Reserve

\* The table and the phases: a move keeps a claim held, settles it, or happens
\* after it was settled.
LEMMA MovePhase ==
    ASSUME TypeOK, NEW o \in Placed, NEW target \in OrderStatus, NEW role \in Roles,
           CanTransition(status[o], target), Move(o, target, role), UNCHANGED orders
    PROVE  /\ Claimed' = Claimed
           /\ target \in RestockTargets =>
                 Phase[o] = "held" /\ Phase' = [Phase EXCEPT ![o] = "returned"]
           /\ target \notin RestockTargets =>
                 \/ Phase' = Phase
                 \/ Phase[o] = "held" /\ Phase' = [Phase EXCEPT ![o] = "kept"]
<1>1. /\ status'[o] = target /\ Placed' = Placed /\ o \in OrderId
      /\ \A k \in Placed \ {o} : status'[k] = status[k]
  BY MoveColumns DEF Placed, TypeOK
<1>2. Claimed' = Claimed
  BY <1>1 DEF Claimed
<1>3. status[o] \in {"pending_shop", "accepted"} \/ status[o] \in Late \/ Allowed[status[o]] = {}
  <2>1. status[o] \in OrderStatus
    BY DEF TypeOK
  <2>2. Allowed["rejected"] = {} /\ Allowed["cancelled"] = {}
    BY DEF Allowed, OrderStatus
  <2>. QED
    BY <2>1, <2>2 DEF OrderStatus, Late
<1>4. CASE status[o] \in {"pending_shop", "accepted"}
  <2>1. Phase[o] = "held"
    BY <1>1, <1>4 DEF Phase
  <2>2. CASE target \in RestockTargets
    BY <1>1, <1>2, <2>1, <2>2 DEF Phase, RestockTargets
  <2>3. CASE target \in {"pending_shop", "accepted"}
    <3>1. Phase' = Phase
      <4>1. ASSUME NEW k \in OrderId PROVE Phase'[k] = Phase[k]
        BY <1>1, <1>4, <2>3 DEF Phase
      <4>2. Phase = [k \in OrderId |-> Phase[k]] /\ Phase' = [k \in OrderId |-> Phase'[k]]
        BY DEF Phase
      <4>. QED
        BY <4>1, <4>2
    <3>. QED
      BY <1>2, <2>3, <3>1 DEF RestockTargets
  <2>4. CASE target \notin RestockTargets \cup {"pending_shop", "accepted"}
    <3>1. Phase' = [Phase EXCEPT ![o] = "kept"]
      BY <1>1, <2>4 DEF Phase
    <3>. QED
      BY <1>2, <2>1, <2>4, <3>1
  <2>. QED
    BY <2>2, <2>3, <2>4
<1>5. CASE status[o] \in Late
  <2>1. target \in Late
    BY <1>5, LateStaysLate
  <2>2. Phase' = Phase
    <3>1. ASSUME NEW k \in OrderId PROVE Phase'[k] = Phase[k]
      BY <1>1, <1>5, <2>1 DEF Phase, Late, RestockTargets
    <3>2. Phase = [k \in OrderId |-> Phase[k]] /\ Phase' = [k \in OrderId |-> Phase'[k]]
      BY DEF Phase
    <3>. QED
      BY <3>1, <3>2
  <2>. QED
    BY <1>2, <2>1, <2>2 DEF Late, RestockTargets
<1>6. CASE Allowed[status[o]] = {}
  BY <1>6 DEF CanTransition
<1>. QED
  BY <1>3, <1>4, <1>5, <1>6

LEMMA MoveLedger ==
    ASSUME TypeOK, NEW o \in Placed, NEW target \in OrderStatus, NEW role \in Roles,
           CanTransition(status[o], target), Move(o, target, role), UNCHANGED <<orders, row>>,
           stock' = IF target \in RestockTargets THEN Restocked(o) ELSE stock
    PROVE  [Ledger!LedgerNext]_Ledger!ledgerVars
<1>1. Listed' = Listed /\ o \in OrderId
  BY DEF Listed, TypeOK
<1>2. Claimed[o] = orders[o].lines
  BY <1>1 DEF Claimed
<1>3. CASE target \in RestockTargets
  <2>1. stock' = [p \in Product |-> IF p \in Listed THEN stock[p] + Claimed[o][p] ELSE stock[p]]
    BY <1>2, <1>3 DEF Restocked
  <2>2. Ledger!Return(o)
    BY <1>1, <1>3, <2>1, MovePhase DEF Ledger!Return
  <2>. QED
    BY <1>1, <2>2 DEF Ledger!LedgerNext
<1>4. CASE target \notin RestockTargets
  <2>1. stock' = stock
    BY <1>4
  <2>2. UNCHANGED Ledger!ledgerVars \/ Ledger!Keep(o)
    BY <1>1, <1>4, <2>1, MovePhase DEF Ledger!Keep, Ledger!ledgerVars
  <2>. QED
    BY <1>1, <2>2 DEF Ledger!LedgerNext
<1>. QED
  BY <1>3, <1>4

LEMMA NextLedger ==
    TypeOK /\ CartBounded /\ [Next]_vars => [Ledger!LedgerNext]_Ledger!ledgerVars
<1>. SUFFICES ASSUME TypeOK, CartBounded, [Next]_vars
              PROVE  [Ledger!LedgerNext]_Ledger!ledgerVars
  OBVIOUS
<1>1. ASSUME NEW p \in Product, NEW n \in Count, CreateProduct(p, n)
      PROVE  Ledger!List(p)
  <2>1. Phase' = Phase /\ Claimed' = Claimed
    BY <1>1 DEF CreateProduct, Phase, Claimed, Placed, orderVars
  <2>2. p \notin Listed /\ Listed' = Listed \cup {p} /\ stock' = [stock EXCEPT ![p] = n]
    BY <1>1 DEF CreateProduct, Listed, TypeOK
  <2>. QED
    BY <2>1, <2>2 DEF Ledger!List
<1>2. ASSUME NEW p \in Product, NEW n \in Count, UpdateInventory(p, n)
      PROVE  Ledger!Recount(p)
  BY <1>2 DEF UpdateInventory, Ledger!Recount, Phase, Claimed, Placed, orderVars, Listed
<1>3. ASSUME NEW p \in Product, DeleteProduct(p)
      PROVE  Ledger!Delist(p)
  <2>1. Phase' = Phase /\ Claimed' = Claimed
    BY <1>3 DEF DeleteProduct, Phase, Claimed, Placed, orderVars
  <2>2. p \in Listed /\ Listed' = Listed \ {p} /\ stock' = [stock EXCEPT ![p] = 0]
    BY <1>3 DEF DeleteProduct, Listed, TypeOK
  <2>. QED
    BY <2>1, <2>2 DEF Ledger!Delist
<1>4. ASSUME NEW c \in Customer, NEW o \in OrderId, CreateOrder(c, o)
      PROVE  Ledger!Reserve(o)
  BY <1>4, CreateOrderReserves
<1>5. ASSUME NEW c \in Customer, NEW o \in OrderId, CancelOrder(c, o)
      PROVE  [Ledger!LedgerNext]_Ledger!ledgerVars
  BY <1>5, MoveLedger DEF CancelOrder, OrderStatus, Roles, RestockTargets
<1>6. ASSUME NEW s \in Shop, NEW o \in OrderId, NEW target \in ShopkeeperTargets,
             ShopkeeperTransition(s, o, target)
      PROVE  [Ledger!LedgerNext]_Ledger!ledgerVars
  BY <1>6, MoveLedger DEF ShopkeeperTransition, OrderStatus, Roles, ShopkeeperTargets
<1>7. ASSUME NEW o \in OrderId,
             NEW target \in {"out_for_delivery", "delivered", "ready_for_pickup"},
             RiderTransition(o, target)
      PROVE  [Ledger!LedgerNext]_Ledger!ledgerVars
  <2>1. target \notin RestockTargets /\ target \in OrderStatus
    BY DEF RestockTargets, OrderStatus
  <2>. QED
    BY <1>7, <2>1, MoveLedger DEF RiderTransition, Roles, shelfVars
<1>8. CASE UNCHANGED <<row, stock, orders, status>>
  BY <1>8, LedgerStutter
<1>. QED
  BY <1>1, <1>2, <1>3, <1>4, <1>5, <1>6, <1>7, <1>8
     DEF Next, CartNext, ShelfNext, OrderNext, AddItem, UpdateItem, DeleteItem, ClearCart,
         SetShopStatus, UpdateProduct, vars, cartVars, shelfVars, orderVars, Ledger!LedgerNext

\* Units are reserved only when they are there, every order's claim is settled
\* exactly once, by returning its units or by keeping them, and apart from the
\* shopkeeper's own figures nothing else moves a unit.
THEOREM ImplementsLedger == Spec => LedgerSpec
<1>1. Init => Ledger!LedgerInit
  BY InitLedger
<1>2. Init => CartBounded
  BY OrderingAssumption DEF Init, CartBounded, NoLines
<1>3. TypeOK /\ CartBounded /\ [Next]_vars => CartBounded'
  BY NextCartBounded
<1>4. TypeOK /\ CartBounded /\ [Next]_vars => [Ledger!LedgerNext]_Ledger!ledgerVars
  BY NextLedger
<1>. QED
  BY <1>1, <1>2, <1>3, <1>4, TypeCorrect, PTL DEF Spec, LedgerSpec, Ledger!LedgerSpec

-----------------------------------------------------------------------------
(* The units.  They are counted one by one, so placing an order adds as many  *)
(* pairs to Taken as it takes off the shelf, and undoing it removes those.    *)

\* The units of one order's line.
LineOf(o, n) == {o} \X (1..n)

LEMMA LineHas ==
    ASSUME NEW o, NEW n \in Nat
    PROVE  IsFiniteSet(LineOf(o, n)) /\ Cardinality(LineOf(o, n)) = n
<1>1. IsFiniteSet({o}) /\ Cardinality({o}) = 1
  BY FS_Singleton
<1>2. IsFiniteSet(1..n) /\ Cardinality(1..n) = n
  BY FS_Interval
<1>3. /\ IsFiniteSet({o} \X (1..n))
      /\ Cardinality({o} \X (1..n)) = Cardinality({o}) * Cardinality(1..n)
  BY <1>1, <1>2, FS_Product
<1>4. 1 * n = n
  OBVIOUS
<1>. QED
  BY <1>1, <1>2, <1>3, <1>4 DEF LineOf

\* A line that no unit of S belongs to.
LEMMA LineJoins ==
    ASSUME NEW S, NEW T, NEW o, NEW n \in Nat, IsFiniteSet(S),
           T = S \cup LineOf(o, n), S \cap LineOf(o, n) = {}
    PROVE  IsFiniteSet(T) /\ Cardinality(T) = Cardinality(S) + n
           /\ Cardinality(S) \in Nat /\ Cardinality(T) \in Nat
<1>1. Cardinality(S \cap LineOf(o, n)) = 0
  BY FS_EmptySet
<1>2. IsFiniteSet(T) /\ Cardinality(T) = Cardinality(S) + n - 0
  BY <1>1, LineHas, FS_Union
<1>3. Cardinality(S) \in Nat
  BY FS_CardinalityType
<1>. QED
  BY <1>2, <1>3

Standing == {k \in Placed : status[k] \notin RestockTargets}

LEMMA TakenIs ==
    ASSUME NEW p
    PROVE  /\ Taken(p) = UNION {LineOf(o, orders[o].lines[p]) : o \in Standing}
           /\ Taken(p)' = UNION {LineOf(o, orders'[o].lines[p]) : o \in Standing'}
BY DEF Taken, LineOf, Standing

TakenFinite == \A p \in Product : IsFiniteSet(Taken(p))

\* Orders that stand as they stood take what they took.
LEMMA TakenStays ==
    ASSUME NEW p, Standing' = Standing,
           \A o \in Standing : orders'[o].lines[p] = orders[o].lines[p]
    PROVE  Taken(p)' = Taken(p)
<1>1. {LineOf(o, orders'[o].lines[p]) : o \in Standing'} =
      {LineOf(o, orders[o].lines[p]) : o \in Standing}
  OBVIOUS
<1>. QED
  BY <1>1, TakenIs

\* One more order stands.
LEMMA TakenGrows ==
    ASSUME NEW p, NEW o, NEW n \in Nat, o \notin Standing, Standing' = Standing \cup {o},
           orders'[o].lines[p] = n, \A k \in Standing : orders'[k].lines[p] = orders[k].lines[p]
    PROVE  /\ Taken(p)' = Taken(p) \cup LineOf(o, n)
           /\ Taken(p) \cap LineOf(o, n) = {}
<1>1. \A u : u \in Taken(p)' <=> \E k \in Standing' : u \in LineOf(k, orders'[k].lines[p])
  BY TakenIs
<1>2. \A u : u \in Taken(p) <=> \E k \in Standing : u \in LineOf(k, orders[k].lines[p])
  BY TakenIs
<1>3. \A u : u \in Taken(p)' <=> u \in Taken(p) \/ u \in LineOf(o, n)
  BY <1>1, <1>2
<1>4. \A k : \A m : \A u : u \in LineOf(k, m) => u[1] = k
  BY DEF LineOf
<1>5. \A u : ~(u \in Taken(p) /\ u \in LineOf(o, n))
  BY <1>2, <1>4
<1>. QED
  BY <1>3, <1>5

\* One order stands no longer.
LEMMA TakenShrinks ==
    ASSUME NEW p, NEW o \in Standing, NEW n \in Nat, Standing' = Standing \ {o},
           orders' = orders, orders[o].lines[p] = n
    PROVE  /\ Taken(p) = Taken(p)' \cup LineOf(o, n)
           /\ Taken(p)' \cap LineOf(o, n) = {}
<1>1. \A u : u \in Taken(p)' <=> \E k \in Standing' : u \in LineOf(k, orders[k].lines[p])
  BY TakenIs
<1>2. \A u : u \in Taken(p) <=> \E k \in Standing : u \in LineOf(k, orders[k].lines[p])
  BY TakenIs
<1>3. \A u : u \in Taken(p) <=> u \in Taken(p)' \/ u \in LineOf(o, n)
  BY <1>1, <1>2
<1>4. \A k : \A m : \A u : u \in LineOf(k, m) => u[1] = k
  BY DEF LineOf
<1>5. \A u : ~(u \in Taken(p)' /\ u \in LineOf(o, n))
  BY <1>1, <1>4
<1>. QED
  BY <1>3, <1>5

\* What one step does to the units of a product: with the orders, and on the shelf.
LEMMA OrderedUnits ==
    ASSUME TypeOK, TypeOK', TakenFinite, NEW p \in Product, NEW c \in Customer, NEW o \in OrderId,
           CreateOrder(c, o)
    PROVE  IsFiniteSet(Taken(p)') /\ Units(p)' = Units(p)
<1>. DEFINE n == cartLines[c][p]
<1>1. n \in Nat /\ stock[p] \in Nat /\ stock' = [k \in Product |-> stock[k] - cartLines[c][k]]
      /\ stock'[p] \in Nat
  BY DEF CreateOrder, TypeOK
<1>2. stock'[p] = stock[p] - n
  BY <1>1
<1>3. /\ o \notin Placed /\ Placed' = Placed \cup {o}
      /\ orders'[o].lines[p] = n
      /\ status'[o] = "pending_shop"
      /\ \A k \in Placed : orders'[k] = orders[k] /\ status'[k] = status[k]
  BY DEF CreateOrder, Inserted, TypeOK, Placed
<1>4. o \notin Standing /\ Standing' = Standing \cup {o}
      /\ \A k \in Standing : orders'[k].lines[p] = orders[k].lines[p]
  BY <1>3 DEF Standing, RestockTargets
<1>. HIDE DEF n
<1>5. Taken(p)' = Taken(p) \cup LineOf(o, n) /\ Taken(p) \cap LineOf(o, n) = {}
  BY <1>1, <1>3, <1>4, TakenGrows
<1>6. /\ IsFiniteSet(Taken(p)') /\ Cardinality(Taken(p)') = Cardinality(Taken(p)) + n
      /\ Cardinality(Taken(p)) \in Nat
  <2>1. PICK S, T : S = Taken(p) /\ T = Taken(p)'
    OBVIOUS
  <2>2. IsFiniteSet(S) /\ T = S \cup LineOf(o, n) /\ S \cap LineOf(o, n) = {}
    BY <1>5, <2>1 DEF TakenFinite
  <2>3. IsFiniteSet(T) /\ Cardinality(T) = Cardinality(S) + n /\ Cardinality(S) \in Nat
    BY <1>1, <2>2, LineJoins
  <2>. QED
    BY <2>1, <2>3
<1>7. Units(p) = stock[p] + Cardinality(Taken(p))
      /\ Units(p)' = stock'[p] + Cardinality(Taken(p)')
  BY DEF Units
<1>. QED
  BY <1>1, <1>2, <1>6, <1>7

LEMMA MovedUnits ==
    ASSUME TypeOK, TypeOK', TakenFinite, NEW p \in Product, NEW o \in Placed,
           NEW target \in OrderStatus, NEW role \in Roles,
           CanTransition(status[o], target), Move(o, target, role), UNCHANGED orders,
           stock' = IF target \in RestockTargets THEN Restocked(o) ELSE stock
    PROVE  IsFiniteSet(Taken(p)') /\ (p \in Listed => Units(p)' = Units(p))
<1>. DEFINE n == orders[o].lines[p]
<1>1. n \in Nat /\ stock[p] \in Nat
  BY DEF TypeOK, OrderRow
<1>2. status'[o] = target /\ \A k \in Placed \ {o} : status'[k] = status[k]
  BY MoveColumns
<1>3. status[o] \notin RestockTargets
  <2>1. status[o] \in OrderStatus
    BY DEF TypeOK
  <2>. QED
    BY <2>1 DEF CanTransition, Allowed, RestockTargets, OrderStatus
<1>4. o \in Standing /\ Placed' = Placed
  BY <1>3 DEF Standing, Placed
<1>5. Units(p) = stock[p] + Cardinality(Taken(p))
      /\ Units(p)' = stock'[p] + Cardinality(Taken(p)')
  BY DEF Units
<1>. HIDE DEF n
<1>6. CASE target \in RestockTargets
  <2>1. Standing' = Standing \ {o}
    BY <1>2, <1>4, <1>6 DEF Standing
  <2>2. Taken(p) = Taken(p)' \cup LineOf(o, n) /\ Taken(p)' \cap LineOf(o, n) = {}
    BY <1>1, <1>4, <2>1, TakenShrinks DEF n
  <2>3. IsFiniteSet(Taken(p)')
    <3>1. Taken(p)' \in SUBSET Taken(p) /\ IsFiniteSet(Taken(p))
      BY <2>2 DEF TakenFinite
    <3>. QED
      BY <3>1, FS_Subset
  <2>4. Cardinality(Taken(p)) = Cardinality(Taken(p)') + n /\ Cardinality(Taken(p)') \in Nat
    <3>1. PICK S, T : S = Taken(p)' /\ T = Taken(p)
      OBVIOUS
    <3>2. IsFiniteSet(S) /\ T = S \cup LineOf(o, n) /\ S \cap LineOf(o, n) = {}
      BY <2>2, <2>3, <3>1
    <3>3. n \in Nat
      BY <1>1 DEF n
    <3>4. Cardinality(T) = Cardinality(S) + n /\ Cardinality(S) \in Nat
      BY ONLY <3>2, <3>3, LineJoins
    <3>. QED
      BY <3>1, <3>4
  <2>5. p \in Listed => stock'[p] = stock[p] + n
    BY <1>6 DEF Restocked, n
  <2>. QED
    BY <1>1, <1>5, <2>3, <2>4, <2>5
<1>7. CASE target \notin RestockTargets
  <2>1. Standing' = Standing
    BY <1>2, <1>3, <1>4, <1>7 DEF Standing
  <2>2. Taken(p)' = Taken(p) /\ stock' = stock
    BY <1>7, <2>1, TakenStays
  <2>. QED
    BY <1>5, <2>2 DEF TakenFinite
<1>. QED
  BY <1>6, <1>7

\* Whatever moves an order puts its units back when it is undone, and only then.
LEMMA MovesRestock ==
    ASSUME TypeOK, NEW o \in OrderId,
           \/ \E c \in Customer : CancelOrder(c, o)
           \/ \E s \in Shop, target \in ShopkeeperTargets : ShopkeeperTransition(s, o, target)
           \/ \E target \in {"out_for_delivery", "delivered", "ready_for_pickup"} :
                 RiderTransition(o, target)
    PROVE  /\ o \in Placed /\ UNCHANGED orders
           /\ \E target \in OrderStatus, role \in Roles :
                 /\ CanTransition(status[o], target) /\ Move(o, target, role)
                 /\ stock' = IF target \in RestockTargets THEN Restocked(o) ELSE stock
<1>1. ASSUME NEW c \in Customer, CancelOrder(c, o)
      PROVE  /\ o \in Placed /\ UNCHANGED orders
             /\ CanTransition(status[o], "cancelled") /\ Move(o, "cancelled", "customer")
             /\ stock' = Restocked(o)
  BY <1>1 DEF CancelOrder
<1>2. ASSUME NEW s \in Shop, NEW target \in ShopkeeperTargets, ShopkeeperTransition(s, o, target)
      PROVE  /\ o \in Placed /\ UNCHANGED orders
             /\ CanTransition(status[o], target) /\ Move(o, target, "shopkeeper")
             /\ stock' = IF target \in RestockTargets THEN Restocked(o) ELSE stock
  BY <1>2 DEF ShopkeeperTransition
<1>3. ASSUME NEW target \in {"out_for_delivery", "delivered", "ready_for_pickup"},
             RiderTransition(o, target)
      PROVE  /\ o \in Placed /\ UNCHANGED orders
             /\ CanTransition(status[o], target) /\ Move(o, target, "rider")
             /\ stock' = stock /\ target \notin RestockTargets
  BY <1>3 DEF RiderTransition, shelfVars, RestockTargets
<1>4. /\ "cancelled" \in OrderStatus \cap RestockTargets
      /\ ShopkeeperTargets \subseteq OrderStatus
      /\ {"out_for_delivery", "delivered", "ready_for_pickup"} \subseteq OrderStatus
      /\ Roles = {"customer", "shopkeeper", "rider"}
  BY DEF OrderStatus, RestockTargets, ShopkeeperTargets, Roles
<1>. QED
  BY <1>1, <1>2, <1>3, <1>4

LEMMA NextUnits ==
    ASSUME TypeOK, TakenFinite, [Next]_vars
    PROVE  /\ TakenFinite'
           /\ CartNext \/ OrderNext => \A p \in Listed : Units(p)' = Units(p)
<1>0. TypeOK'
  BY NextTypeOK
<1>1. ASSUME CartNext \/ ShelfNext \/ UNCHANGED vars
      PROVE  /\ \A p \in Product : Taken(p)' = Taken(p)
             /\ CartNext => UNCHANGED stock
  <2>1. UNCHANGED orderVars
    BY <1>1 DEF CartNext, ShelfNext, AddItem, UpdateItem, DeleteItem, ClearCart, SetShopStatus,
       CreateProduct, UpdateProduct, UpdateInventory, DeleteProduct, vars, orderVars
  <2>2. \A p \in Product : Taken(p)' = Taken(p)
    BY <2>1, TakenStays DEF orderVars, Standing, Placed
  <2>3. CartNext => UNCHANGED stock
    BY DEF CartNext, AddItem, UpdateItem, DeleteItem, ClearCart, shelfVars
  <2>. QED
    BY <2>2, <2>3
<1>2. ASSUME NEW o \in OrderId, NEW c \in Customer, CreateOrder(c, o)
      PROVE  \A p \in Product : IsFiniteSet(Taken(p)') /\ Units(p)' = Units(p)
  BY <1>0, <1>2, OrderedUnits
<1>3. ASSUME NEW o \in OrderId,
             \/ \E c \in Customer : CancelOrder(c, o)
             \/ \E s \in Shop, target \in ShopkeeperTargets : ShopkeeperTransition(s, o, target)
             \/ \E target \in {"out_for_delivery", "delivered", "ready_for_pickup"} :
                   RiderTransition(o, target)
      PROVE  \A p \in Product : IsFiniteSet(Taken(p)') /\ (p \in Listed => Units(p)' = Units(p))
  BY <1>0, <1>3, MovesRestock, MovedUnits
<1>4. CartNext => \A p \in Listed : Units(p)' = Units(p)
  BY <1>1 DEF Units, Listed
<1>5. OrderNext => \A p \in Product : IsFiniteSet(Taken(p)') /\ (p \in Listed => Units(p)' = Units(p))
  BY <1>2, <1>3 DEF OrderNext
<1>6. \A p \in Product : IsFiniteSet(Taken(p)')
  BY <1>1, <1>5 DEF Next, TakenFinite
<1>. QED
  BY <1>4, <1>5, <1>6 DEF TakenFinite, Listed

\* create_order, _restock, cancel_order, reject.  However many orders there are:
\* no step of a cart or an order makes up or loses a unit of a listed product.
THEOREM UnitsAreConserved == Spec => UnitsConserved
<1>1. Init => TypeOK /\ TakenFinite
  <2>. SUFFICES ASSUME Init, NEW p \in Product PROVE IsFiniteSet(Taken(p))
    BY InitTypeOK DEF TakenFinite
  <2>1. Placed = {}
    BY DEF Init, Placed
  <2>2. Taken(p) = {}
    BY <2>1 DEF Taken
  <2>. QED
    BY <2>2, FS_EmptySet
<1>2. TypeOK /\ TakenFinite /\ [Next]_vars => (TypeOK /\ TakenFinite)'
  BY NextTypeOK, NextUnits
<1>3. TypeOK /\ TakenFinite /\ [Next]_vars =>
          [CartNext \/ OrderNext => \A p \in Listed : Units(p)' = Units(p)]_vars
  BY NextUnits
<1>. QED
  BY <1>1, <1>2, <1>3, PTL DEF Spec, UnitsConserved
=============================================================================
