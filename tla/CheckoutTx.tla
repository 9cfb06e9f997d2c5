----------------------------- MODULE CheckoutTx -----------------------------
(***************************************************************************)
(* The requests that move units, one database statement at a time.  A      *)
(* request is a transaction: it locks rows as its statements name them,    *)
(* waits for rows another transaction holds, works on what it read, and    *)
(* ends by committing or by rolling back (a refusal, or the database's     *)
(* choice of a deadlock victim).  What it wrote becomes visible with its   *)
(* commit.  One shop; statements inside a cart request are not separated   *)
(* here, and a cart line is locked together with its product.              *)
(***************************************************************************)
EXTENDS Integers, FiniteSets, OrderStates

CONSTANTS Tx, Customer, Product, OrderId,
          Kinds,     \* bound: kinds of request that arrive
          Count,     \* inventory figures a shopkeeper may state
          MaxLine    \* bound: units of one product in one cart

ASSUME CheckoutAssumption == Count \subseteq Nat /\ MaxLine \in Nat

VARIABLES
    row,      \* [Product -> "absent", "present", "deleted"]
    stock,    \* [Product -> Nat] committed inventory.quantity_available
    cart,     \* [Customer -> [Product -> Nat]] committed cart_items
    orders,   \* placed order |-> customer and lines
    status,   \* placed order |-> status
    req,      \* [Tx -> the request it serves]
    pc,       \* [Tx -> the statement it is at]
    want,     \* [Tx -> product rows its statement has still to lock]
    next,     \* [Tx -> the one of them it asks for]
    got,      \* [Tx -> [Product -> Nat]] the lines it read
    seen,     \* [Tx -> [Product -> Nat]] inventory figures it read
    holds     \* [Tx -> rows it holds locked]

dbVars == <<row, stock, cart, orders, status>>
txVars == <<req, pc, want, next, got, seen, holds>>
vars == <<row, stock, cart, orders, status, req, pc, want, next, got, seen, holds>>

-----------------------------------------------------------------------------
NoLines == [p \in Product |-> 0]

LinesOf(lines) == {p \in Product : lines[p] > 0}

Listed == {p \in Product : row[p] = "present"}

Placed == DOMAIN orders

Inserted(table, key, value) ==
    [k \in DOMAIN table \cup {key} |-> IF k = key THEN value ELSE table[k]]

CartRow(c) == <<"cart", c>>
LineRow(c, p) == <<"line", c, p>>
ProductRow(p) == <<"product", p>>
StockRow(p) == <<"inventory", p>>
OrderRow(o) == <<"order", o>>

NoRequest == [kind |-> "none"]

Request ==
    [kind : {"checkout"}, customer : Customer, order : OrderId]
    \cup [kind : {"move"}, order : OrderId, target : {"accepted", "rejected", "preparing", "cancelled"}]
    \cup [kind : {"recount"}, product : Product, count : Count]
    \cup [kind : {"delist"}, product : Product]

Free(t, r) == \A u \in Tx \ {t} : r \notin holds[u]

-----------------------------------------------------------------------------
Init ==
    /\ row = [p \in Product |-> "absent"]
    /\ stock = NoLines
    /\ cart = [c \in Customer |-> NoLines]
    /\ orders = << >>
    /\ status = << >>
    /\ req = [t \in Tx |-> NoRequest]
    /\ pc = [t \in Tx |-> "idle"]
    /\ want = [t \in Tx |-> {}]
    /\ next \in [Tx -> {"none"}]
    /\ got = [t \in Tx |-> NoLines]
    /\ seen = [t \in Tx |-> NoLines]
    /\ holds = [t \in Tx |-> {}]

\* create_shop_product
CreateProduct(p, n) ==
    /\ row[p] = "absent"
    /\ row' = [row EXCEPT ![p] = "present"]
    /\ stock' = [stock EXCEPT ![p] = n]
    /\ UNCHANGED <<cart, orders, status, txVars>>

\* Mutant: a line is inserted whatever transaction holds the cart.
EditBesideCheckout(c, p, q) ==
    /\ p \in Listed
    /\ IF cart[c][p] = 0
       THEN q > 0
       ELSE \A u \in Tx : LineRow(c, p) \notin holds[u]
    /\ cart' = [cart EXCEPT ![c][p] = q]
    /\ UNCHANGED <<row, stock, orders, status, txVars>>

\* A cart request changes one line.  A new line refers to its cart and its
\* product and waits for whoever has either locked; so does a line whose
\* removal empties the cart, for the cart's binding; other edits wait for the line.
EditCart(c, p, q) ==
    /\ p \in Listed
    /\ IF cart[c][p] = 0
       THEN q > 0 /\ \A u \in Tx : {CartRow(c), ProductRow(p)} \cap holds[u] = {}
       ELSE \A u \in Tx : {LineRow(c, p)} \cap holds[u] = {}
    /\ q = 0 /\ LinesOf(cart[c]) = {p} => \A u \in Tx : CartRow(c) \notin holds[u]
    /\ cart' = [cart EXCEPT ![c][p] = q]
    /\ UNCHANGED <<row, stock, orders, status, txVars>>

-----------------------------------------------------------------------------
(* Transactions *)

\* The next statement of t: it has rows to lock for the products in S, in any
\* order the query plan gives (the queries have no ORDER BY).
Goto(t, l, S) ==
    /\ pc' = [pc EXCEPT ![t] = l]
    /\ want' = [want EXCEPT ![t] = S]
    /\ \E p \in S \cup {"none"} :
          /\ p = "none" <=> S = {}
          /\ next' = [next EXCEPT ![t] = p]

Lock(t, rows) == holds' = [holds EXCEPT ![t] = @ \cup rows]

\* Mutant: the session is not rolled back, its locks stay.
EndedHolding(t) ==
    /\ Goto(t, "idle", {})
    /\ req' = [req EXCEPT ![t] = NoRequest]
    /\ got' = [got EXCEPT ![t] = NoLines]
    /\ seen' = [seen EXCEPT ![t] = NoLines]
    /\ UNCHANGED holds

\* The transaction is over, its locks are released.
Ended(t) ==
    /\ Goto(t, "idle", {})
    /\ req' = [req EXCEPT ![t] = NoRequest]
    /\ got' = [got EXCEPT ![t] = NoLines]
    /\ seen' = [seen EXCEPT ![t] = NoLines]
    /\ holds' = [holds EXCEPT ![t] = {}]

\* A refusal (404, 409, 422) rolls the session back.
Abort(t) == Ended(t) /\ UNCHANGED dbVars

\* Orders that another checkout is about to insert.
Reserved == {o \in OrderId : \E t \in Tx : req[t].kind = "checkout" /\ req[t].order = o}

\* A request arrives.  A recount reads its product at once, without a lock.
Start(t, r) ==
    /\ pc[t] = "idle"
    /\ \/ r.kind = "checkout" /\ r.order \notin Placed \cup Reserved /\ Goto(t, "cart", {})
       \/ r.kind = "move" /\ r.order \in Placed /\ Goto(t, "order", {})
       \/ r.kind \in {"recount", "delist"} /\ r.product \in Listed /\ Goto(t, r.kind, {})
    /\ req' = [req EXCEPT ![t] = r]
    /\ seen' = [seen EXCEPT ![t] = IF r.kind = "recount" THEN stock ELSE NoLines]
    /\ UNCHANGED <<dbVars, got, holds>>

\* create_order locks the active cart and lists its lines.
LockCart(t) ==
    LET c == req[t].customer IN
    /\ pc[t] = "cart"
    /\ Free(t, CartRow(c))
    /\ IF LinesOf(cart[c]) = {}
       THEN Abort(t)
       ELSE /\ Lock(t, {CartRow(c)})
            /\ Goto(t, "lines", LinesOf(cart[c]))
            /\ UNCHANGED <<dbVars, req, got, seen>>

\* create_order locks the next cart line and its product; a row that went away
\* while it waited is passed over.
LockLine(t) ==
    LET c == req[t].customer  p == next[t]  left == want[t] \ {p} IN
    /\ pc[t] = "lines"
    /\ Free(t, ProductRow(p)) /\ Free(t, LineRow(c, p))
    /\ got' = [got EXCEPT ![t][p] = cart[c][p]]
    /\ IF cart[c][p] = 0 THEN UNCHANGED holds ELSE Lock(t, {LineRow(c, p), ProductRow(p)})
    /\ IF left # {} THEN Goto(t, "lines", left) ELSE Goto(t, "counted", {})
    /\ UNCHANGED <<dbVars, req, seen>>

\* create_order counts the cart's lines again before it goes on to the shelf.
CountLines(t) ==
    /\ pc[t] = "counted"
    /\ IF LinesOf(got[t]) = {} \/ LinesOf(cart[req[t].customer]) # LinesOf(got[t])
       THEN Abort(t)
       ELSE Goto(t, "stock", LinesOf(got[t])) /\ UNCHANGED <<dbVars, req, got, seen, holds>>

\* A shopkeeper's or a customer's request locks its order and checks the move;
\* reject and cancel go on to the shelf, for the lines whose product exists.
LockOrder(t) ==
    LET o == req[t].order
        back == IF req[t].target \in RestockTargets THEN LinesOf(orders[o].lines) \cap Listed ELSE {}
    IN
    /\ pc[t] = "order"
    /\ Free(t, OrderRow(o))
    /\ IF ~CanTransition(status[o], req[t].target)
       THEN Abort(t)
       ELSE /\ Lock(t, {OrderRow(o)})
            /\ got' = [got EXCEPT ![t] = [p \in Product |-> IF p \in back THEN orders[o].lines[p] ELSE 0]]
            /\ IF back # {} THEN Goto(t, "stock", back) ELSE Goto(t, "commit", {})
            /\ UNCHANGED <<dbVars, req, seen>>

\* delete_shop_product locks the product before the deletion cascades.
LockDelisted(t) ==
    LET p == req[t].product IN
    /\ pc[t] = "delist"
    /\ Free(t, ProductRow(p))
    /\ IF p \notin Listed
       THEN Abort(t)
       ELSE /\ Lock(t, {ProductRow(p)})
            /\ Goto(t, "stock", {p})
            /\ UNCHANGED <<dbVars, req, got, seen>>

\* Mutant: the inventory row is read but not locked.
ReadStock(t) ==
    LET p == next[t]  left == want[t] \ {p} IN
    /\ pc[t] = "stock"
    /\ seen' = [seen EXCEPT ![t][p] = stock[p]]
    /\ IF left # {} THEN Goto(t, "stock", left) ELSE Goto(t, "commit", {})
    /\ UNCHANGED <<dbVars, req, got, holds>>

\* The next inventory row is locked and read.  _restock passes over a row that
\* was deleted while it waited.
LockStock(t) ==
    LET p == next[t]  left == want[t] \ {p} IN
    /\ pc[t] = "stock"
    /\ Free(t, StockRow(p))
    /\ seen' = [seen EXCEPT ![t][p] = stock[p]]
    /\ IF p \in Listed
       THEN Lock(t, {StockRow(p)}) /\ UNCHANGED got
       ELSE got' = [got EXCEPT ![t][p] = 0] /\ UNCHANGED holds
    /\ IF left # {} THEN Goto(t, "stock", left) ELSE Goto(t, "commit", {})
    /\ UNCHANGED <<dbVars, req>>

\* Mutant: something in stock is enough.
SomeOfEach(t) == \A p \in LinesOf(got[t]) : stock[p] > 0

\* create_order: the figure read under the lock and the conditional decrement.
Sufficient(t) == \A p \in LinesOf(got[t]) : got[t][p] <= seen[t][p] /\ got[t][p] <= stock[p]

\* Mutant: the cart is not consumed.
CheckoutKeepingCart(t) ==
    LET c == req[t].customer  o == req[t].order IN
    /\ pc[t] = "commit" /\ req[t].kind = "checkout" /\ Sufficient(t)
    /\ stock' = [p \in Product |-> stock[p] - got[t][p]]
    /\ orders' = Inserted(orders, o, [customer |-> c, lines |-> got[t]])
    /\ status' = Inserted(status, o, "pending_shop")
    /\ Ended(t)
    /\ UNCHANGED <<row, cart>>

\* The rest of create_order, committed as one: the decrements, the order with
\* its lines and first history row, and the emptied cart.
Checkout(t) ==
    LET c == req[t].customer  o == req[t].order IN
    /\ pc[t] = "commit" /\ req[t].kind = "checkout"
    /\ IF Sufficient(t)
       THEN /\ stock' = [p \in Product |-> stock[p] - got[t][p]]
            /\ orders' = Inserted(orders, o, [customer |-> c, lines |-> got[t]])
            /\ status' = Inserted(status, o, "pending_shop")
            /\ cart' = [cart EXCEPT ![c] = NoLines]
            /\ Ended(t)
            /\ UNCHANGED row
       ELSE Abort(t)

\* The figures written back are those read plus the lines.
MoveOrder(t) ==
    /\ pc[t] = "commit" /\ req[t].kind = "move"
    /\ status' = [status EXCEPT ![req[t].order] = req[t].target]
    /\ stock' = [p \in Product |-> IF got[t][p] > 0 THEN seen[t][p] + got[t][p] ELSE stock[p]]
    /\ Ended(t)
    /\ UNCHANGED <<row, cart, orders>>

\* The figure is written as stated, unless it is the one that was read; the row
\* may be gone by then.
Recount(t) ==
    LET p == req[t].product  n == req[t].count IN
    /\ pc[t] = "recount"
    /\ seen[t][p] # n => Free(t, StockRow(p))
    /\ stock' = IF seen[t][p] # n /\ p \in Listed THEN [stock EXCEPT ![p] = n] ELSE stock
    /\ Ended(t)
    /\ UNCHANGED <<row, cart, orders, status>>

Delist(t) ==
    LET p == req[t].product IN
    /\ pc[t] = "commit" /\ req[t].kind = "delist"
    /\ row' = [row EXCEPT ![p] = "deleted"]
    /\ stock' = [stock EXCEPT ![p] = 0]
    /\ cart' = [c \in Customer |-> [cart[c] EXCEPT ![p] = 0]]
    /\ Ended(t)
    /\ UNCHANGED <<orders, status>>

\* Rows the statement t is at asks for.
Wanted(t) ==
    CASE pc[t] = "cart"    -> {CartRow(req[t].customer)}
      [] pc[t] = "lines"   -> {LineRow(req[t].customer, next[t]), ProductRow(next[t])}
      [] pc[t] = "order"   -> {OrderRow(req[t].order)}
      [] pc[t] = "delist"  -> {ProductRow(req[t].product)}
      [] pc[t] = "stock"   -> {StockRow(next[t])}
      [] pc[t] = "recount" -> IF seen[t][req[t].product] # req[t].count
                              THEN {StockRow(req[t].product)} ELSE {}
      [] OTHER             -> {}

WaitsFor(t, u) == t # u /\ Wanted(t) \cap holds[u] # {}

\* Transactions that wait for one another in a circle.
Deadlocked(S) ==
    /\ S # {}
    /\ \A t \in S : \E u \in S : WaitsFor(t, u)
    /\ \A u \in S : \E t \in S : WaitsFor(t, u)

\* The database breaks a deadlock by rolling one of its transactions back.
DeadlockVictim(t) ==
    /\ \E S \in SUBSET Tx : t \in S /\ Deadlocked(S)
    /\ Abort(t)

Advance(t) ==
    \/ LockCart(t) \/ LockLine(t) \/ CountLines(t) \/ LockOrder(t) \/ LockDelisted(t)
    \/ LockStock(t)
    \/ Checkout(t) \/ MoveOrder(t) \/ Recount(t) \/ Delist(t)

Next ==
    \/ \E p \in Product, n \in Count : CreateProduct(p, n)
    \/ \E c \in Customer, p \in Product, q \in 0..MaxLine : EditCart(c, p, q)
    \/ \E t \in Tx :
          \/ Advance(t)
          \/ DeadlockVictim(t)
          \/ \E r \in Request : r.kind \in Kinds /\ Start(t, r)

Spec == Init /\ [][Next]_vars

\* A waiting transaction gets its row in the end (waiters queue for a row), and
\* a deadlock is found (deadlock_timeout).
FairSpec == Spec /\ \A t \in Tx : SF_vars(Advance(t)) /\ WF_vars(DeadlockVictim(t))

-----------------------------------------------------------------------------
(* Properties *)

Lines == [Product -> Nat]

\* Every column and every transaction's workspace is well typed; no inventory
\* figure is ever negative, whichever statements interleave.
TypeOK ==
    /\ row \in [Product -> {"absent", "present", "deleted"}]
    /\ stock \in Lines
    /\ cart \in [Customer -> Lines]
    /\ Placed \subseteq OrderId
    /\ orders \in [Placed -> [customer : Customer, lines : Lines]]
    /\ status \in [Placed -> OrderStatus]
    /\ req \in [Tx -> Request \cup {NoRequest}]
    /\ pc \in [Tx -> {"idle", "cart", "lines", "counted", "order", "delist", "recount", "stock", "commit"}]
    /\ want \in [Tx -> SUBSET Product]
    /\ next \in [Tx -> Product \cup {"none"}]
    /\ got \in [Tx -> Lines]
    /\ seen \in [Tx -> Lines]

\* An order holds exactly what its customer's cart held when it was committed,
\* and that cart is empty afterwards: a checkout sent twice yields one order, and
\* nothing added or changed meanwhile is swallowed (create_order's cart and line locks).
OrderIsTheCart ==
    [][\A o \in Placed' \ Placed :
          LET c == orders'[o].customer IN
          orders'[o].lines = cart[c] /\ cart'[c] = NoLines]_vars

\* The order is a claim on the shelf, as in module Ordering.
Phase ==
    [o \in OrderId |->
        IF o \notin Placed THEN "new"
        ELSE IF status[o] \in {"pending_shop", "accepted"} THEN "held"
        ELSE IF status[o] \in RestockTargets THEN "returned"
        ELSE "kept"]

Claimed == [o \in OrderId |-> IF o \in Placed THEN orders[o].lines ELSE NoLines]

Ledger == INSTANCE StockLedger
    WITH Claim <- OrderId, Quantity <- 0..MaxLine,
         listed <- Listed, free <- stock, phase <- Phase, units <- Claimed

\* The interleaved statements implement the ledger: no oversell, no restock lost
\* to a concurrent one, none done twice (create_order, _restock, cancel_order, reject).
LedgerSpec == Ledger!LedgerSpec

\* Every request ends, whatever it has to wait for.
EveryRequestEnds == \A t \in Tx : pc[t] # "idle" ~> pc[t] = "idle"
=============================================================================
