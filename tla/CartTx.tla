------------------------------- MODULE CartTx -------------------------------
(***************************************************************************)
(* One customer's cart under that customer's own concurrent requests, one  *)
(* database statement at a time.  The cart handlers take no lock before    *)
(* they read; each works on the cart row and the line it has loaded and    *)
(* writes them back.  Only checkout locks the cart.  Stock and the order   *)
(* it becomes are the state of module CheckoutTx.                          *)
(***************************************************************************)
EXTENDS Integers, FiniteSets

CONSTANTS Tx, Product, Shop,
          ShopOf,     \* products.shop_id
          Item,       \* bound: ids of cart_items rows, each used once
          Kinds,      \* bound: kinds of request that arrive
          MaxLine     \* bound: units of one product in the cart

ASSUME CartAssumption == ShopOf \in [Product -> Shop] /\ MaxLine \in Nat

VARIABLES
    bound,   \* carts.shop_id
    lines,   \* id of a cart_items row |-> product and quantity
    spent,   \* ids that have been given to a row
    order,   \* the last order: shop and quantities
    req,     \* [Tx -> the request it serves]
    pc,      \* [Tx -> the statement it is at]
    sawShop, \* [Tx -> carts.shop_id as loaded]
    sawItem, \* [Tx -> the row it loaded for its product, or NoItem]
    sawQty,  \* [Tx -> that row's quantity as loaded]
    want,    \* [Tx -> rows its statement has still to lock]
    holds    \* [Tx -> locks it holds]

cartVars == <<bound, lines, spent, order>>
txVars == <<req, pc, sawShop, sawItem, sawQty, want, holds>>
vars == <<bound, lines, spent, order, req, pc, sawShop, sawItem, sawQty, want, holds>>

-----------------------------------------------------------------------------
NoShop == "no shop"
NoItem == "no item"
NoOrder == [shop |-> NoShop, quantity |-> [p \in Product |-> 0]]
NoRequest == [kind |-> "none"]

Request ==
    [kind : {"add"}, product : Product]  \* one unit more
    \cup [kind : {"update"}, item : Item, quantity : 1..MaxLine]
    \cup [kind : {"delete"}, item : Item]
    \cup [kind : {"clear", "checkout"}]

Rows == DOMAIN lines

LinesFor(p) == {i \in Rows : lines[i].product = p}

QuantityOf(p) == IF LinesFor(p) = {} THEN 0 ELSE lines[CHOOSE i \in LinesFor(p) : TRUE].quantity

\* Locks: of a line, of a product's place in the cart (unique constraint), and
\* three of the cart row: checkout's FOR UPDATE, an UPDATE of the binding, and
\* the reference a new line makes.
LineRow(i) == <<"line", i>>
PlaceOf(p) == <<"place", p>>
ForUpdate == <<"cart", "for update">>
Binding == <<"cart", "binding">>
Reference == <<"cart", "reference">>

Conflict(a, b) ==
    \/ a = b /\ a # Reference
    \/ ForUpdate \in {a, b} /\ {a, b} \subseteq {ForUpdate, Binding, Reference}

Blocks(t, u, S) == t # u /\ \E a \in S, b \in holds[u] : Conflict(a, b)

Free(t, S) == \A u \in Tx : ~Blocks(t, u, S)

Init ==
    /\ bound = NoShop
    /\ lines = << >>
    /\ spent = {}
    /\ order = NoOrder
    /\ req = [t \in Tx |-> NoRequest]
    /\ pc = [t \in Tx |-> "idle"]
    /\ sawShop = [t \in Tx |-> NoShop]
    /\ sawItem = [t \in Tx |-> NoItem]
    /\ sawQty = [t \in Tx |-> 0]
    /\ want = [t \in Tx |-> {}]
    /\ holds = [t \in Tx |-> {}]

-----------------------------------------------------------------------------
(* Transactions *)

Goto(t, l) == pc' = [pc EXCEPT ![t] = l]

Lock(t, S) == holds' = [holds EXCEPT ![t] = @ \cup S]

\* Mutant: the session is not rolled back, its locks stay.
EndedHolding(t) ==
    /\ Goto(t, "idle")
    /\ req' = [req EXCEPT ![t] = NoRequest]
    /\ sawShop' = [sawShop EXCEPT ![t] = NoShop]
    /\ sawItem' = [sawItem EXCEPT ![t] = NoItem]
    /\ sawQty' = [sawQty EXCEPT ![t] = 0]
    /\ want' = [want EXCEPT ![t] = {}]
    /\ UNCHANGED holds

Ended(t) ==
    /\ Goto(t, "idle")
    /\ req' = [req EXCEPT ![t] = NoRequest]
    /\ sawShop' = [sawShop EXCEPT ![t] = NoShop]
    /\ sawItem' = [sawItem EXCEPT ![t] = NoItem]
    /\ sawQty' = [sawQty EXCEPT ![t] = 0]
    /\ want' = [want EXCEPT ![t] = {}]
    /\ holds' = [holds EXCEPT ![t] = {}]

\* A refusal, or an error that rolls the session back.
Abort(t) == Ended(t) /\ UNCHANGED cartVars

\* Requests that add: each may need an id and bring a unit.
Adding(P) == {t \in Tx : req[t].kind = "add" /\ req[t].product \in P}

Start(t, r) ==
    /\ pc[t] = "idle"
    /\ r.kind = "add" => /\ Cardinality(Item \ spent) > Cardinality(Adding(Product))
                         /\ QuantityOf(r.product) + Cardinality(Adding({r.product})) < MaxLine
    /\ r.kind \in {"update", "delete"} => r.item \in Rows
    /\ req' = [req EXCEPT ![t] = r]
    /\ Goto(t, CASE r.kind = "update" -> "load" [] r.kind = "checkout" -> "lock" [] OTHER -> "cart")
    /\ UNCHANGED <<cartVars, sawShop, sawItem, sawQty, want, holds>>

\* get_or_create_active_cart, and add_item's refusal of another shop.
ReadCart(t) ==
    /\ pc[t] = "cart"
    /\ IF req[t].kind = "add" /\ bound \notin {NoShop, ShopOf[req[t].product]}
       THEN Abort(t)
       ELSE /\ sawShop' = [sawShop EXCEPT ![t] = bound]
            /\ Goto(t, IF req[t].kind = "clear" THEN "list" ELSE "load")
            /\ UNCHANGED <<cartVars, req, sawItem, sawQty, want, holds>>

Load(t, i) ==
    /\ sawItem' = [sawItem EXCEPT ![t] = i]
    /\ sawQty' = [sawQty EXCEPT ![t] = IF i = NoItem THEN 0 ELSE lines[i].quantity]
    /\ UNCHANGED <<cartVars, req, sawShop, want, holds>>

\* add_item looks its product's line up and, unless the cart was bound when it
\* read it, binds it first.
LoadForAdd(t) ==
    LET p == req[t].product IN
    /\ pc[t] = "load" /\ req[t].kind = "add"
    /\ \E i \in Item \cup {NoItem} :
          /\ IF LinesFor(p) = {} THEN i = NoItem ELSE i \in LinesFor(p)
          /\ Load(t, i)
    /\ Goto(t, IF sawShop[t] = ShopOf[p] THEN "write" ELSE "bind")

\* update_item and delete_item load their line by id; an update to the quantity
\* it has writes nothing.
LoadLine(t) ==
    LET i == req[t].item IN
    /\ pc[t] = "load" /\ req[t].kind \in {"update", "delete"}
    /\ IF i \notin Rows \/ (req[t].kind = "update" /\ lines[i].quantity = req[t].quantity)
       THEN Abort(t)
       ELSE Load(t, i) /\ Goto(t, "write")

\* Mutant: no unique constraint.
InsertSecond(t) ==
    /\ pc[t] = "write" /\ req[t].kind = "add" /\ sawItem[t] = NoItem
    /\ Free(t, {Reference})
    /\ Lock(t, {Reference}) /\ Goto(t, "commit") /\ UNCHANGED <<cartVars, req, sawShop, sawItem, sawQty, want>>

\* The new line waits for a checkout of its cart and for another line of its
\* product; if that one is there, the unique constraint refuses this one.
Insert(t) ==
    LET p == req[t].product  L == {Reference, PlaceOf(p)} IN
    /\ pc[t] = "write" /\ req[t].kind = "add" /\ sawItem[t] = NoItem
    /\ Free(t, L)
    /\ IF LinesFor(p) # {}
       THEN Abort(t)
       ELSE Lock(t, L) /\ Goto(t, "commit") /\ UNCHANGED <<cartVars, req, sawShop, sawItem, sawQty, want>>

\* An UPDATE that finds its row gone is an error.
UpdateLine(t) ==
    LET i == sawItem[t] IN
    /\ pc[t] = "write" /\ req[t].kind \in {"add", "update"} /\ i # NoItem
    /\ Free(t, {LineRow(i)})
    /\ IF i \notin Rows
       THEN Abort(t)
       ELSE Lock(t, {LineRow(i)}) /\ Goto(t, "commit") /\ UNCHANGED <<cartVars, req, sawShop, sawItem, sawQty, want>>

\* A DELETE that finds its row gone is not; the lines that remain decide whether
\* the shop is unbound.
DeleteLine(t) ==
    LET i == sawItem[t] IN
    /\ pc[t] = "write" /\ req[t].kind = "delete"
    /\ Free(t, {LineRow(i)})
    /\ Lock(t, {LineRow(i)})
    /\ Goto(t, "remaining")
    /\ UNCHANGED <<cartVars, req, sawShop, sawItem, sawQty, want>>

SeeRemaining(t) ==
    /\ pc[t] = "remaining"
    /\ Goto(t, IF Rows \subseteq {sawItem[t]} /\ sawShop[t] # NoShop THEN "bind" ELSE "commit")
    /\ UNCHANGED <<cartVars, req, sawShop, sawItem, sawQty, want, holds>>

\* The binding is written whatever it is by now.
Bind(t) ==
    /\ pc[t] = "bind"
    /\ Free(t, {Binding})
    /\ Lock(t, {Binding})
    /\ Goto(t, IF req[t].kind = "add" THEN "write" ELSE "commit")
    /\ UNCHANGED <<cartVars, req, sawShop, sawItem, sawQty, want>>

\* create_order locks the cart; an unbound cart is an empty one.
LockCart(t) ==
    /\ pc[t] = "lock"
    /\ Free(t, {ForUpdate})
    /\ IF bound = NoShop
       THEN Abort(t)
       ELSE /\ Lock(t, {ForUpdate}) /\ Goto(t, "list")
            /\ UNCHANGED <<cartVars, req, sawShop, sawItem, sawQty, want>>

\* clear_cart and create_order go through the lines there are at this moment.
ListLines(t) ==
    /\ pc[t] = "list"
    /\ IF Rows = {} /\ req[t].kind = "checkout"
       THEN Abort(t)
       ELSE /\ want' = [want EXCEPT ![t] = Rows]
            /\ Goto(t, "lines")
            /\ UNCHANGED <<cartVars, req, sawShop, sawItem, sawQty, holds>>

\* A line that is gone by then is passed over.
LockLine(t) ==
    /\ pc[t] = "lines"
    /\ \E i \in want[t] :
          /\ Free(t, {LineRow(i)})
          /\ IF i \in Rows THEN Lock(t, {LineRow(i)}) ELSE UNCHANGED holds
          /\ want' = [want EXCEPT ![t] = @ \ {i}]
    /\ UNCHANGED <<cartVars, req, pc, sawShop, sawItem, sawQty>>

Held(t) == {i \in Rows : LineRow(i) \in holds[t]}

\* create_order counts the cart's lines again; clear_cart goes on to the binding.
LinesLocked(t) ==
    /\ pc[t] = "lines" /\ want[t] = {}
    /\ IF req[t].kind = "checkout" /\ (Held(t) = {} \/ Rows # Held(t))
       THEN Abort(t)
       ELSE /\ Goto(t, IF req[t].kind = "clear" /\ sawShop[t] # NoShop THEN "bind" ELSE "commit")
            /\ UNCHANGED <<cartVars, req, sawShop, sawItem, sawQty, want, holds>>

-----------------------------------------------------------------------------
(* Commits *)

CommitAdd(t) ==
    LET p == req[t].product IN
    /\ pc[t] = "commit" /\ req[t].kind = "add"
    /\ bound' = IF sawShop[t] = ShopOf[p] THEN bound ELSE ShopOf[p]
    /\ IF sawItem[t] = NoItem
       THEN \E i \in Item \ spent :
               /\ spent' = spent \cup {i}
               /\ lines' = [j \in Rows \cup {i} |->
                              IF j = i THEN [product |-> p, quantity |-> 1] ELSE lines[j]]
       ELSE /\ lines' = [lines EXCEPT ![sawItem[t]].quantity = sawQty[t] + 1]
            /\ UNCHANGED spent
    /\ Ended(t)
    /\ UNCHANGED order

CommitUpdate(t) ==
    /\ pc[t] = "commit" /\ req[t].kind = "update"
    /\ lines' = [lines EXCEPT ![req[t].item].quantity = req[t].quantity]
    /\ Ended(t)
    /\ UNCHANGED <<bound, spent, order>>

\* delete_item and clear_cart.
CommitRemoval(t) ==
    /\ pc[t] = "commit" /\ req[t].kind \in {"delete", "clear"}
    /\ lines' = [i \in Rows \ Held(t) |-> lines[i]]
    /\ bound' = IF Binding \in holds[t] THEN NoShop ELSE bound
    /\ Ended(t)
    /\ UNCHANGED <<spent, order>>

\* Mutant: the products' shops are not compared with the cart's.
FromAnyShop(t) == TRUE

\* create_order's check of the products it locked.
Orderable(t) == \A i \in Held(t) : ShopOf[lines[i].product] = bound

OrderedOf(t, p) ==
    LET I == LinesFor(p) \cap Held(t) IN IF I = {} THEN 0 ELSE QuantityOf(p)

\* Mutant: the cart's binding outlives its lines.
CheckoutKeepingBinding(t) ==
    /\ pc[t] = "commit" /\ req[t].kind = "checkout"
    /\ Orderable(t)
    /\ order' = [shop |-> bound, quantity |-> [p \in Product |-> OrderedOf(t, p)]]
    /\ lines' = << >>
    /\ Ended(t)
    /\ UNCHANGED <<bound, spent>>

\* The shelf may refuse as well.
CommitCheckout(t) ==
    /\ pc[t] = "commit" /\ req[t].kind = "checkout"
    /\ \/ Abort(t)
       \/ /\ Orderable(t)
          /\ order' = [shop |-> bound, quantity |-> [p \in Product |-> OrderedOf(t, p)]]
          /\ lines' = << >>
          /\ bound' = NoShop
          /\ Ended(t)
          /\ UNCHANGED spent

-----------------------------------------------------------------------------
\* Locks the statement t is at asks for.
Wanted(t) ==
    CASE pc[t] = "bind" -> {Binding}
      [] pc[t] = "lock" -> {ForUpdate}
      [] pc[t] = "write" /\ sawItem[t] = NoItem -> {Reference, PlaceOf(req[t].product)}
      [] pc[t] = "write" /\ sawItem[t] # NoItem -> {LineRow(sawItem[t])}
      [] OTHER -> {}

\* It waits for u; while it goes through lines any of those left may be next.
WaitsFor(t, u) ==
    \/ Blocks(t, u, Wanted(t))
    \/ pc[t] = "lines" /\ \E i \in want[t] : Blocks(t, u, {LineRow(i)})

DeadlockVictim(t) ==
    /\ \E S \in SUBSET Tx :
          /\ t \in S
          /\ \A u \in S : \E v \in S : WaitsFor(u, v)
          /\ \A v \in S : \E u \in S : WaitsFor(u, v)
    /\ Abort(t)

Advance(t) ==
    \/ ReadCart(t) \/ LoadForAdd(t) \/ LoadLine(t) \/ Insert(t) \/ UpdateLine(t)
    \/ DeleteLine(t) \/ SeeRemaining(t) \/ Bind(t)
    \/ LockCart(t) \/ ListLines(t) \/ LockLine(t) \/ LinesLocked(t)
    \/ CommitAdd(t) \/ CommitUpdate(t) \/ CommitRemoval(t) \/ CommitCheckout(t)

Next ==
    \E t \in Tx :
        \/ Advance(t)
        \/ DeadlockVictim(t)
        \/ \E r \in Request : r.kind \in Kinds /\ Start(t, r)

Spec == Init /\ [][Next]_vars

\* Waiters queue for a row and deadlocks are detected.
FairSpec == Spec /\ \A t \in Tx : SF_vars(Advance(t)) /\ WF_vars(DeadlockVictim(t))

-----------------------------------------------------------------------------
(* Properties *)

\* The cart and every request's workspace are well typed, and no product has two
\* lines in the cart.
TypeOK ==
    /\ bound \in Shop \cup {NoShop}
    /\ Rows \subseteq spent /\ spent \subseteq Item
    /\ \A i \in Rows : lines[i].product \in Product /\ lines[i].quantity \in Nat \ {0}
    /\ \A p \in Product : Cardinality(LinesFor(p)) <= 1
    /\ order \in [shop : Shop \cup {NoShop}, quantity : [Product -> Nat]]
    /\ req \in [Tx -> Request \cup {NoRequest}]
    /\ sawShop \in [Tx -> Shop \cup {NoShop}]
    /\ sawItem \in [Tx -> Item \cup {NoItem}]
    /\ sawQty \in [Tx -> Nat]
    /\ want \in [Tx -> SUBSET Item]

\* Whatever requests run beside it, checkout orders exactly what is in the cart
\* when it commits and leaves it empty and unbound: no line is swallowed.
OrderIsTheCart ==
    [][order' # order => /\ order'.quantity = [p \in Product |-> QuantityOf(p)]
                         /\ order'.shop = bound /\ Rows' = {} /\ bound' = NoShop]_vars

\* Even a cart that concurrent requests have mixed is never ordered as such.
OrderOfOneShop == \A p \in Product : order.quantity[p] > 0 => ShopOf[p] = order.shop

\* Every request ends, deadlocks between a checkout and the removal of the last
\* line included.
EveryRequestEnds == \A t \in Tx : pc[t] # "idle" ~> pc[t] = "idle"

Quiet == \A t \in Tx : pc[t] = "idle"

\* A cart is single-shop (carts/service.py's opening comment).
OneShop == \A i, j \in Rows : ShopOf[lines[i].product] = ShopOf[lines[j].product]

\* A cart that has a line is bound: the first item binds it (the same comment).
LinesAreBound == Rows # {} => bound # NoShop

\* A cart without lines is not bound once its requests are over (delete_item's
\* comment): the customer can go to another shop.
EmptyIsUnbound == Quiet /\ Rows = {} => bound = NoShop
=============================================================================
