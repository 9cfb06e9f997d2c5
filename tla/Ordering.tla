------------------------------ MODULE Ordering ------------------------------
(***************************************************************************)
(* Carts, the product catalogue with its inventory, and orders, with every *)
(* request handler that changes one of them as one atomic action.  A       *)
(* refused request (404, 409, 422) rolls its session back and is a         *)
(* stuttering step.  The delivery rows that the `ready` handler and the    *)
(* rider handlers also write are the state of module Dispatch; what those  *)
(* handlers do to the order is here.                                       *)
(***************************************************************************)
EXTENDS Integers, Sequences, FiniteSets, OrderStates

CONSTANTS Customer, Shop, Product, OrderId,
          ShopOf,      \* [Product -> Shop], product.shop_id, never rewritten
          NoShop,      \* cart.shop_id IS NULL
          RequestQty,  \* quantities one add or update request may carry
          MaxLine,     \* bound: units of one product in one cart
          Count,       \* inventory figures a shopkeeper may state
          MaxHistory   \* bound: history rows of one order

ASSUME OrderingAssumption ==
    /\ ShopOf \in [Product -> Shop]
    /\ NoShop \notin Shop
    /\ MaxLine \in Nat
    /\ RequestQty \subseteq 1..MaxLine
    /\ Count \subseteq Nat
    /\ MaxHistory \in Nat

VARIABLES
    cartShop,   \* [Customer -> Shop or NoShop] the active cart's shop_id
    cartLines,  \* [Customer -> [Product -> Nat]] cart_items, 0 when there is no row
    openShop,   \* shops whose status is active
    row,        \* [Product -> "absent", "present", "deleted"] the product's row
    active,     \* products with is_active
    stock,      \* [Product -> Nat] inventory.quantity_available
    orders,     \* placed order |-> customer, shop and order_items, never rewritten
    status,     \* placed order |-> its status
    history     \* placed order |-> its order_state_history rows, oldest first

cartVars == <<cartShop, cartLines>>
shelfVars == <<openShop, row, active, stock>>
orderVars == <<orders, status, history>>
vars == <<cartShop, cartLines, openShop, row, active, stock, orders, status, history>>

-----------------------------------------------------------------------------
NoLines == [p \in Product |-> 0]

Listed == {p \in Product : row[p] = "present"}

LinesOf(lines) == {p \in Product : lines[p] > 0}

Placed == DOMAIN orders

HistoryRow(from, to, role) == [from |-> from, to |-> to, role |-> role]

\* Mutant: the previous status is read after it was overwritten.
MoveReadingLate(o, target, role) ==
    /\ status' = [status EXCEPT ![o] = target]
    /\ history' = [history EXCEPT ![o] = Append(@, HistoryRow(target, target, role))]

\* `order.status = target` and the history row added beside it.
Move(o, target, role) ==
    /\ status' = [status EXCEPT ![o] = target]
    /\ history' = [history EXCEPT ![o] = Append(@, HistoryRow(status[o], target, role))]

\* A row added under a fresh key.
Inserted(table, key, value) ==
    [k \in DOMAIN table \cup {key} |-> IF k = key THEN value ELSE table[k]]

\* Mutant: one unit per line instead of the line's quantity.
RestockedByOne(o) ==
    [p \in Product |-> IF p \in Listed /\ orders[o].lines[p] > 0 THEN stock[p] + 1 ELSE stock[p]]

\* _restock: an order line whose product row is gone (product_id NULL) is skipped.
Restocked(o) ==
    [p \in Product |-> IF p \in Listed THEN stock[p] + orders[o].lines[p] ELSE stock[p]]

\* Mutants: a cart takes any shop's product; a bound cart need not hold anything;
\* having some of a product in stock is enough.
AcceptsAny(c, s) == TRUE
BoundIsEnough(lines) == TRUE
SomeInStock(lines) == \A p \in LinesOf(lines) : stock[p] > 0

\* add_item's cross-shop check.
Accepts(c, s) == cartShop[c] \in {NoShop, s}

\* create_order: cart lines are joined with their products, and there are any.
HasItems(lines) == LinesOf(lines) # {}

\* create_order: each line's product is for sale in the shop the cart is bound to.
Orderable(lines, s) ==
    \A p \in LinesOf(lines) : p \in Listed \cap active /\ ShopOf[p] = s

\* create_order: the check under the inventory lock and the conditional decrement.
InStock(lines) == \A p \in LinesOf(lines) : lines[p] <= stock[p]

-----------------------------------------------------------------------------
Init ==
    /\ cartShop = [c \in Customer |-> NoShop]
    /\ cartLines = [c \in Customer |-> NoLines]
    /\ openShop = Shop
    /\ row = [p \in Product |-> "absent"]
    /\ active = {}
    /\ stock = NoLines
    /\ orders = << >>
    /\ status = << >>
    /\ history = << >>

-----------------------------------------------------------------------------
(* Carts *)

AddItem(c, p, q) ==
    /\ p \in Listed \cap active
    /\ ShopOf[p] \in openShop
    /\ Accepts(c, ShopOf[p])
    /\ cartLines[c][p] + q <= MaxLine
    /\ cartLines' = [cartLines EXCEPT ![c][p] = @ + q]
    /\ cartShop' = [cartShop EXCEPT ![c] = ShopOf[p]]
    /\ UNCHANGED <<shelfVars, orderVars>>

UpdateItem(c, p, q) ==
    /\ cartLines[c][p] > 0
    /\ cartLines' = [cartLines EXCEPT ![c][p] = q]
    /\ UNCHANGED <<cartShop, shelfVars, orderVars>>

DeleteItem(c, p) ==
    /\ cartLines[c][p] > 0
    /\ cartLines' = [cartLines EXCEPT ![c][p] = 0]
    /\ cartShop' = [cartShop EXCEPT ![c] = IF LinesOf(cartLines'[c]) = {} THEN NoShop ELSE @]
    /\ UNCHANGED <<shelfVars, orderVars>>

ClearCart(c) ==
    /\ cartLines' = [cartLines EXCEPT ![c] = NoLines]
    /\ cartShop' = [cartShop EXCEPT ![c] = NoShop]
    /\ UNCHANGED <<shelfVars, orderVars>>

-----------------------------------------------------------------------------
(* Catalogue and inventory *)

SetShopStatus(s) ==
    /\ openShop' = IF s \in openShop THEN openShop \ {s} ELSE openShop \cup {s}
    /\ UNCHANGED <<cartVars, row, active, stock, orderVars>>

\* The product and its inventory row are inserted in one transaction.
CreateProduct(p, n) ==
    /\ row[p] = "absent"
    /\ row' = [row EXCEPT ![p] = "present"]
    /\ active' \in {active, active \cup {p}}
    /\ stock' = [stock EXCEPT ![p] = n]
    /\ UNCHANGED <<cartVars, openShop, orderVars>>

\* Of the editable fields only is_active decides anything here.
UpdateProduct(p) ==
    /\ p \in Listed
    /\ active' = IF p \in active THEN active \ {p} ELSE active \cup {p}
    /\ UNCHANGED <<cartVars, openShop, row, stock, orderVars>>

UpdateInventory(p, n) ==
    /\ p \in Listed
    /\ stock' = [stock EXCEPT ![p] = n]
    /\ UNCHANGED <<cartVars, openShop, row, active, orderVars>>

\* The row's deletion cascades to the inventory row and to every cart line, and
\* leaves order lines without a product; no cart's shop_id is touched.
DeleteProduct(p) ==
    /\ p \in Listed
    /\ row' = [row EXCEPT ![p] = "deleted"]
    /\ active' = active \ {p}
    /\ stock' = [stock EXCEPT ![p] = 0]
    /\ cartLines' = [c \in Customer |-> [cartLines[c] EXCEPT ![p] = 0]]
    /\ UNCHANGED <<cartShop, openShop, orderVars>>

-----------------------------------------------------------------------------
(* Orders *)

\* Neither the shop's status nor the age of the cart is looked at.
CreateOrder(c, o) ==
    LET lines == cartLines[c] IN
    /\ o \notin Placed
    /\ cartShop[c] # NoShop
    /\ HasItems(lines)
    /\ Orderable(lines, cartShop[c])
    /\ InStock(lines)
    /\ stock' = [p \in Product |-> stock[p] - lines[p]]
    /\ orders' = Inserted(orders, o, [customer |-> c, shop |-> cartShop[c], lines |-> lines])
    /\ status' = Inserted(status, o, "pending_shop")
    /\ history' = Inserted(history, o, <<HistoryRow(NoStatus, "pending_shop", "customer")>>)
    /\ cartLines' = [cartLines EXCEPT ![c] = NoLines]
    /\ cartShop' = [cartShop EXCEPT ![c] = NoShop]
    /\ UNCHANGED <<openShop, row, active>>

CancelOrder(c, o) ==
    /\ o \in Placed
    /\ orders[o].customer = c
    /\ CanTransition(status[o], "cancelled")
    /\ Move(o, "cancelled", "customer")
    /\ stock' = Restocked(o)
    /\ UNCHANGED <<cartVars, openShop, row, active, orders>>

\* accept, reject, preparing and the order's part of ready.
ShopkeeperTransition(s, o, target) ==
    /\ o \in Placed
    /\ orders[o].shop = s
    /\ CanTransition(status[o], target)
    /\ Len(history[o]) < MaxHistory
    /\ Move(o, target, "shopkeeper")
    /\ stock' = IF target \in RestockTargets THEN Restocked(o) ELSE stock
    /\ UNCHANGED <<cartVars, openShop, row, active, orders>>

\* The order's part of a rider's pick_up, complete and fail.
RiderTransition(o, target) ==
    /\ o \in Placed
    /\ status[o] \in {"ready_for_pickup", "out_for_delivery"}
    /\ CanTransition(status[o], target)
    /\ Len(history[o]) < MaxHistory
    /\ Move(o, target, "rider")
    /\ UNCHANGED <<cartVars, shelfVars, orders>>

-----------------------------------------------------------------------------
ShopkeeperTargets == {"accepted", "rejected", "preparing", "ready_for_pickup"}

CartNext ==
    \E c \in Customer :
        \/ ClearCart(c)
        \/ \E p \in Product :
              \/ DeleteItem(c, p)
              \/ \E q \in RequestQty : AddItem(c, p, q) \/ UpdateItem(c, p, q)

ShelfNext ==
    \/ \E s \in Shop : SetShopStatus(s)
    \/ \E p \in Product :
          \/ UpdateProduct(p)
          \/ DeleteProduct(p)
          \/ \E n \in Count : CreateProduct(p, n) \/ UpdateInventory(p, n)

OrderNext ==
    \E o \in OrderId :
        \/ \E c \in Customer : CreateOrder(c, o) \/ CancelOrder(c, o)
        \/ \E s \in Shop, target \in ShopkeeperTargets : ShopkeeperTransition(s, o, target)
        \/ \E target \in {"out_for_delivery", "delivered", "ready_for_pickup"} :
              RiderTransition(o, target)

Next == CartNext \/ ShelfNext \/ OrderNext

Spec == Init /\ [][Next]_vars

-----------------------------------------------------------------------------
(* Properties *)

OrderRow == [customer : Customer, shop : Shop, lines : [Product -> Nat]]

HistoryRows ==
    [from : OrderStatus \cup {NoStatus}, to : OrderStatus,
     role : {"customer", "shopkeeper", "rider"}]

\* Every column holds a value of its type; in particular no inventory figure is
\* ever negative, whatever orders and restatements of it come in (create_order's
\* conditional decrement, _restock, update_shop_inventory).
TypeOK ==
    /\ cartShop \in [Customer -> Shop \cup {NoShop}]
    /\ cartLines \in [Customer -> [Product -> Nat]]
    /\ openShop \subseteq Shop
    /\ row \in [Product -> {"absent", "present", "deleted"}]
    /\ active \subseteq Listed
    /\ stock \in [Product -> Nat]
    /\ Placed \subseteq OrderId
    /\ orders \in [Placed -> OrderRow]
    /\ status \in [Placed -> OrderStatus]
    /\ history \in [Placed -> Seq(HistoryRows)]

\* A cart holds products of one shop only, the one it is bound to, and only
\* products whose row exists: add_item's cross-shop check, the cascade of a
\* product's deletion and checkout's reset of the binding work together.
CartOfOneShop ==
    \A c \in Customer : \A p \in LinesOf(cartLines[c]) :
        cartShop[c] = ShopOf[p] /\ p \in Listed

\* An order is never empty and never mixes shops: whoever handles it as the
\* owner of orders.shop_id sells every line of it (create_order).
OrderOfOneShop ==
    \A o \in Placed :
        /\ LinesOf(orders[o].lines) # {}
        /\ \A p \in LinesOf(orders[o].lines) : ShopOf[p] = orders[o].shop

TellsStatus(h, s) ==
    /\ Len(h) > 0
    /\ h[1].from = NoStatus /\ h[1].to = "pending_shop"
    /\ \A i \in 2..Len(h) : h[i].from = h[i-1].to /\ CanTransition(h[i].from, h[i].to)
    /\ h[Len(h)].to = s

\* The history is the status's whole story: it starts at NULL, each row starts
\* where the one before ended, each step is one the table allows, and the last
\* row names the present status (every handler writes both, none writes one).
HistoryTellsStatus == \A o \in Placed : TellsStatus(history[o], status[o])

\* Units of p that are with an order that was not undone, numbered in each order,
\* and with those that are on the shelf.
Taken(p) ==
    UNION {{o} \X (1..orders[o].lines[p]) :
              o \in {k \in Placed : status[k] \notin RestockTargets}}

Units(p) == stock[p] + Cardinality(Taken(p))

\* Placing, cancelling, rejecting and delivering orders neither creates nor
\* loses a unit of a listed product: what checkout takes off is put back exactly
\* once by cancel or reject and never once the goods have left (create_order,
\* _restock, cancel_order, reject).
UnitsConserved ==
    [][CartNext \/ OrderNext => \A p \in Listed : Units(p)' = Units(p)]_vars

\* An order may be undone (its units returned) only before the shop has begun
\* to prepare it, however its status wandered since: no rejected or cancelled
\* order was ever in preparation.
NeverUndoneOncePrepared ==
    \A o \in Placed : status[o] \in RestockTargets =>
        \A i \in 1..Len(history[o]) : history[o][i].to # "preparing"

\* docs/DATABASE/SCHEMA.md section 6 names the actor of each transition; rows
\* by a rider come from riders/service.py.  The order's own history must agree.
DocumentedMoves ==
    [customer   |-> {<<NoStatus, "pending_shop">>, <<"pending_shop", "cancelled">>,
                     <<"accepted", "cancelled">>},
     shopkeeper |-> {<<"pending_shop", "accepted">>, <<"pending_shop", "rejected">>,
                     <<"accepted", "preparing">>, <<"preparing", "ready_for_pickup">>},
     rider      |-> {<<"ready_for_pickup", "out_for_delivery">>,
                     <<"out_for_delivery", "delivered">>,
                     <<"out_for_delivery", "ready_for_pickup">>}]

\* Every transition was made by the actor the documentation gives it to
\* (_shopkeeper_transition and ready consult one table for all actors).
MovesByDocumentedActor ==
    \A o \in Placed : \A i \in 1..Len(history[o]) :
        LET h == history[o][i] IN <<h.from, h.to>> \in DocumentedMoves[h.role]

\* The single-shop rule as documented: a cart is bound to a shop only while it
\* holds something, so an emptied cart accepts any shop's product.
EmptyCartUnbound ==
    \A c \in Customer : cartShop[c] # NoShop => LinesOf(cartLines[c]) # {}

-----------------------------------------------------------------------------
(* The shelf as the ledger sees it: an order is a claim that is held while it *)
(* can still be undone.                                                       *)

Phase ==
    [o \in OrderId |->
        IF o \notin Placed THEN "new"
        ELSE IF status[o] \in {"pending_shop", "accepted"} THEN "held"
        ELSE IF status[o] \in RestockTargets THEN "returned"
        ELSE "kept"]

Claimed == [o \in OrderId |-> IF o \in Placed THEN orders[o].lines ELSE NoLines]

Ledger == INSTANCE StockLedger
    WITH Claim <- OrderId, Quantity <- 0..MaxLine,
         listed <- Listed, free <- stock, phase <- Phase, units <- Claimed

\* Ordering implements the ledger: units are reserved when they are there, each
\* order's claim is settled once, and nothing else moves them.
LedgerSpec == Ledger!LedgerSpec
=============================================================================
